------------------------------- MODULE ReviewPage -------------------------------
(***************************************************************************)
(* The review of an Event that ended (AdminEventReview.tsx,                *)
(* RosterSuggestions.tsx) with event_review.py and the awards that an      *)
(* approval makes and reverses (activity_service.py).  Staff decide about  *)
(* every registration in drafts, while Scanner marks arrive, others decide *)
(* too, and registrations are added and annulled.                          *)
(*                                                                         *)
(* Every transaction here holds the row of the Event until it ends: also   *)
(* those that store marks, add and annul registrations (they write         *)
(* offline_data_version), so a transaction is one action.                  *)
(***************************************************************************)
EXTENDS AdminCalls

CONSTANTS
  Attendees, Registered,  \* registrations, and those active at first
  Came,                   \* those with a mark at first
  Unmatched,              \* those whose student was not recognised
  RoleNames, Nobody, Open,
  Reviewers               \* may correct an approved list, or not

ASSUME ReviewBasics ==
  /\ RoleNames # {} /\ Registered \subseteq Attendees /\ Null \notin Attendees
  /\ Reviewers \subseteq BOOLEAN
ASSUME MarksAreNoRoles == Nobody \notin RoleNames /\ Open \notin RoleNames /\ Open # Nobody

VARIABLES
  reviewDb,     \* server: the list's state, registrations, marks, items, awards
  reviewView    \* page: the queue, the opened review, drafts and previews

reviewVars == <<reviewDb, reviewView>>

ReviewPanels == {"queue", "review", "approved"}
ReviewOps ==
  {"pendingReviews", "eventReview", "updateReview", "previewScore", "suggestions", "refresh",
   "approve", "reopen", "prepare", "mark", "annul", "register"}

\* A decision names a student, rejects the row, or does neither ("UNMATCHED");
\* an item that was matched and got the last is matched with no student.
Choices == {"MATCHED", "UNMATCHED", "REJECTED"}
Matches == Choices \cup {"UNLINKED"}
ItemRow == [attend: BOOLEAN, seen: BOOLEAN, role: RoleNames, match: Matches, reviewed: Nat]
AwardOf == [role: RoleNames, reversed: BOOLEAN]
ReviewStates == {"NOT_STARTED", "PENDING", "APPROVED"}
FirstRole == CHOOSE x \in RoleNames : TRUE

ReviewTypeOK ==
  /\ reviewDb.state \in ReviewStates
  /\ reviewDb.corrected \in BOOLEAN
  /\ reviewDb.active \subseteq Attendees
  /\ reviewDb.mark \in [Attendees -> BOOLEAN]
  /\ \A r \in Attendees : reviewDb.item[r] = Null \/ reviewDb.item[r] \in ItemRow
  /\ \A r \in Attendees : reviewDb.awards[r] \in Seq(AwardOf)
  /\ reviewDb.confirmed \subseteq Attendees
  /\ reviewView.chief \in BOOLEAN
  /\ reviewView.shown = Null \/ reviewView.shown.state \in ReviewStates
  /\ \A r \in Attendees : reviewView.drafts[r] # Null =>
       /\ reviewView.drafts[r].role \in RoleNames /\ reviewView.drafts[r].match \in Choices
       /\ reviewView.drafts[r].based.item \in ItemRow
  /\ reviewView.previewed \subseteq Attendees

NoDrafts == [r \in Attendees |-> Null]

\* The token review_version hashes an item and the latest mark.
Version(db, r) == [item |-> db.item[r], mark |-> db.mark[r]]
Items(db) == {r \in db.active : db.item[r] # Null}
ReviewOf(db) ==
  [state |-> db.state, corrected |-> db.corrected,
   items |-> [r \in Items(db) |-> Version(db, r)]]

NewReview ==
  [state |-> "NOT_STARTED", corrected |-> FALSE, active |-> Registered,
   mark |-> [r \in Attendees |-> r \in Came], item |-> [r \in Attendees |-> Null],
   awards |-> [r \in Attendees |-> <<>>], confirmed |-> {}]
EmptyView(chief) ==
  [chief |-> chief, mount |-> 0, shown |-> Null, drafts |-> NoDrafts,
   previewed |-> {}]

(***************************************************************************)
(* The queue, and the review that is opened from it.                       *)
(***************************************************************************)
LoadQueue ==
  /\ reviewView.mount = 0
  /\ Ask("pendingReviews", Null)
  /\ UNCHANGED <<busy, notice, reviewVars>>

\* A listed Event is opened; its workspace loads the review.
ShowQueue(i) ==
  /\ Answered(i, "pendingReviews") \/ Failed(i, "pendingReviews")
  /\ IF calls[i].ok /\ calls[i].data /\ reviewView.mount = 0
     THEN /\ TakeAndAsk(i, "eventReview", Len(calls) + 2)
          /\ reviewView' = [reviewView EXCEPT !.mount = Len(calls) + 2]
     ELSE Take(i) /\ UNCHANGED reviewView
  /\ UNCHANGED <<busy, notice, reviewDb>>

Dirt == {r \in Attendees : reviewView.drafts[r] # Null}
CanEdit == /\ reviewView.shown # Null /\ reviewView.shown.state = "PENDING"
           /\ reviewView.shown.corrected => reviewView.chief

\* Leaving drops the drafts, after a confirmation.
LeaveReview ==
  /\ reviewView.mount # 0 /\ ~busy
  /\ Ask("pendingReviews", Null)
  /\ reviewView' = [reviewView EXCEPT !.mount = 0, !.shown = Null, !.drafts = NoDrafts]
  /\ UNCHANGED <<busy, notice, reviewDb>>

(***************************************************************************)
(* Drafts: the first change of an item takes its decision and its version  *)
(* as they are shown; later replies replace the list, not the drafts.      *)
(***************************************************************************)
InitialDecision(item) ==
  [expected |-> item, attend |-> item.item.attend, role |-> item.item.role,
   match |-> IF item.item.match = "UNLINKED" THEN "UNMATCHED" ELSE item.item.match,
   based |-> item]
Decision(r) == IF reviewView.drafts[r] # Null THEN reviewView.drafts[r]
               ELSE InitialDecision(reviewView.shown.items[r])

\* "Reject" forgets the student, also when it is unchecked again.
ChangeDecision(r, attend, role, match) ==
  /\ ~busy /\ CanEdit /\ r \in DOMAIN reviewView.shown.items
  /\ match = "UNMATCHED" => Decision(r).match # "MATCHED"
  /\ LET new == [Decision(r) EXCEPT !.attend = attend, !.role = role, !.match = match]
     IN new # Decision(r) /\ reviewView' = [reviewView EXCEPT !.drafts[r] = new]
  /\ UNCHANGED <<shell, reviewDb>>

DropDraft(r) ==
  /\ ~busy /\ reviewView.drafts[r] # Null
  /\ reviewView' = [reviewView EXCEPT !.drafts[r] = Null]
  /\ UNCHANGED <<shell, reviewDb>>

ReviewCall(op, r) ==
  /\ ~busy /\ reviewView.mount # 0
  /\ Ask(op, [mount |-> reviewView.mount, reg |-> r,
              more |-> IF r = Null THEN Null ELSE Decision(r), chief |-> reviewView.chief])
  /\ busy' = TRUE
  /\ UNCHANGED <<notice, reviewVars>>

SaveDecision(r) == CanEdit /\ r \in Dirt \cap DOMAIN reviewView.shown.items
                   /\ ReviewCall("updateReview", r)

\* The roster is searched for candidates; choosing one is a change.
SuggestStudents(r) == CanEdit /\ r \in DOMAIN reviewView.shown.items
                      /\ ReviewCall("suggestions", r)

PreviewScore(r) == CanEdit /\ r \in DOMAIN reviewView.shown.items \ Dirt
                   /\ ReviewCall("previewScore", r)

Refresh == CanEdit /\ Dirt = {} /\ ReviewCall("refresh", Null)

NoUnmatched == \A r \in DOMAIN reviewView.shown.items :
                 reviewView.shown.items[r].item.match # "UNMATCHED"

ApproveReview == CanEdit /\ Dirt = {} /\ NoUnmatched /\ ReviewCall("approve", Null)

Reopen ==
  /\ reviewView.shown # Null /\ reviewView.shown.state = "APPROVED" /\ reviewView.chief
  /\ ReviewCall("reopen", Null)

ReviewMounted(i) == calls[i].arg.mount = reviewView.mount

\* Each reply replaces the list; a saved draft is dropped.
ShowReview(i) ==
  /\ \E op \in {"eventReview", "updateReview", "refresh", "reopen"} : Answered(i, op)
  /\ LET loaded == calls[i].op = "eventReview" /\ calls[i].arg = reviewView.mount
     IN reviewView' =
          CASE loaded -> [reviewView EXCEPT !.shown = calls[i].data]
            [] calls[i].op = "updateReview" /\ ReviewMounted(i) ->
                 [reviewView EXCEPT !.shown = calls[i].data, !.drafts[calls[i].arg.reg] = Null,
                                    !.previewed = @ \ {calls[i].arg.reg}]
            [] calls[i].op \in {"refresh", "reopen"} /\ ReviewMounted(i) ->
                 [reviewView EXCEPT !.shown = calls[i].data]
            [] OTHER -> reviewView
  /\ busy' = (busy /\ calls[i].op = "eventReview")
  /\ Take(i)
  /\ UNCHANGED <<notice, reviewDb>>

ShowApproved(i) ==
  /\ Answered(i, "approve")
  /\ reviewView' = IF ReviewMounted(i) THEN [reviewView EXCEPT !.shown.state = "APPROVED"]
                                       ELSE reviewView
  /\ busy' = FALSE
  /\ Take(i)
  /\ UNCHANGED <<notice, reviewDb>>

ShowScore(i) ==
  /\ Answered(i, "previewScore") \/ Answered(i, "suggestions")
  /\ reviewView' = IF ReviewMounted(i) /\ calls[i].op = "previewScore"
                   THEN [reviewView EXCEPT !.previewed = @ \cup {calls[i].arg.reg}] ELSE reviewView
  /\ busy' = FALSE
  /\ Take(i)
  /\ UNCHANGED <<notice, reviewDb>>

ReviewFails(i) ==
  /\ \E op \in ReviewOps \ {"pendingReviews"} : Failed(i, op)
  /\ busy' = (busy /\ calls[i].op = "eventReview")
  /\ Take(i)
  /\ UNCHANGED <<notice, reviewVars>>

(***************************************************************************)
(* The server: preparing the list and reading it.                          *)
(***************************************************************************)
Snapshot(db, r) ==
  [attend |-> db.mark[r], seen |-> db.mark[r],
   role |-> IF db.awards[r] = <<>> THEN FirstRole ELSE db.awards[r][Len(db.awards[r])].role,
   match |-> IF r \in Unmatched THEN "UNMATCHED" ELSE "MATCHED", reviewed |-> 0]

\* prepare_review adds what is missing and keeps every decision.
Prepared(db) ==
  [db EXCEPT !.state = IF @ = "NOT_STARTED" THEN "PENDING" ELSE @,
             !.item = [r \in Attendees |-> IF r \in db.active /\ @[r] = Null
                                           THEN Snapshot(db, r) ELSE @[r]]]

MayReview(i) == /\ reviewDb.state = "PENDING"
                /\ reviewDb.corrected => calls[i].arg.chief

ServeReviewReads(i) ==
  /\ \/ Waits(i, "pendingReviews") /\ Done(i, reviewDb.state # "NOT_STARTED")
     \/ Waits(i, "eventReview") /\ Done(i, ReviewOf(reviewDb))
     \/ Waits(i, "suggestions") /\ Done(i, Null)
     \/ /\ Waits(i, "previewScore")
        /\ LET r == calls[i].arg.reg
           IN IF /\ MayReview(i) /\ r \in Items(reviewDb)
                 /\ calls[i].arg.more.expected = Version(reviewDb, r)
                 /\ reviewDb.item[r].seen = reviewDb.mark[r]
              THEN Done(i, Null) ELSE Refused(i)
  /\ UNCHANGED <<page, faults, busy, notice, reviewVars>>

ReviewChanges(i, db) ==
  /\ reviewDb' = db
  /\ Done(i, ReviewOf(db))
  /\ UNCHANGED <<page, faults, busy, notice, reviewView>>
ReviewRefused(i) == Refused(i) /\ UNCHANGED <<page, faults, busy, notice, reviewVars>>

\* A decision without student or rejection leaves the stored match as it is,
\* and takes its student away.
Decided(old, new, mark, i) ==
  [attend |-> new.attend, seen |-> mark, role |-> new.role, reviewed |-> i,
   match |-> IF new.match # "UNMATCHED" THEN new.match
             ELSE IF old.match = "MATCHED" THEN "UNLINKED" ELSE old.match]

\* Mutant: the version the draft was made from is not compared.
ServeDecisionUnseen(i) ==
  /\ Waits(i, "updateReview")
  /\ LET r == calls[i].arg.reg
     IN \/ /\ MayReview(i) /\ reviewDb.item[r] # Null
           /\ ReviewChanges(i, [reviewDb EXCEPT
                !.item[r] = Decided(@, calls[i].arg.more, reviewDb.mark[r], i)])
        \/ ReviewRefused(i)

ServeDecision(i) ==
  /\ Waits(i, "updateReview")
  /\ LET r == calls[i].arg.reg
         new == calls[i].arg.more
     IN \/ /\ MayReview(i) /\ reviewDb.item[r] # Null
           /\ new.expected = Version(reviewDb, r)
           /\ ReviewChanges(i, [reviewDb EXCEPT
                !.item[r] = Decided(@, new, reviewDb.mark[r], i)])
        \/ ReviewRefused(i)

\* Marks replace only the decisions that nobody has made.
ServeRefresh(i) ==
  /\ Waits(i, "refresh")
  /\ \/ /\ MayReview(i)
        /\ ReviewChanges(i, [reviewDb EXCEPT !.item = [r \in Attendees |->
             IF @[r] # Null /\ @[r].reviewed = 0 /\ @[r].seen # reviewDb.mark[r]
             THEN [@[r] EXCEPT !.attend = reviewDb.mark[r], !.seen = reviewDb.mark[r]]
             ELSE @[r]]])
     \/ ~MayReview(i) /\ ReviewRefused(i)

ServeReopen(i) ==
  /\ Waits(i, "reopen")
  /\ \/ /\ reviewDb.state = "APPROVED" /\ calls[i].arg.chief
        /\ ReviewChanges(i, [reviewDb EXCEPT !.state = "PENDING"])
     \/ reviewDb.state # "APPROVED" /\ ReviewRefused(i)

(***************************************************************************)
(* The approval: participations are cancelled, reclassified and confirmed  *)
(* one after another, and every change of an award reverses the last one.  *)
(***************************************************************************)
Last(s) == s[Len(s)]
Reversed(s) == IF s = <<>> THEN s ELSE [s EXCEPT ![Len(s)].reversed = TRUE]
Award(role) == <<[role |-> role, reversed |-> FALSE]>>
Eligible(item) == item.attend /\ item.match # "REJECTED"

\* Mutant: a changed role is awarded without reversing what was awarded.
AwardsAdded(db, r) ==
  LET item == db.item[r]
      awards == db.awards[r]
  IN IF r \notin Items(db) \/ ~Eligible(item) THEN awards
     ELSE IF r \notin db.confirmed \/ Last(awards).role # item.role
     THEN awards \o Award(item.role)
     ELSE awards

AwardsAfter(db, r) ==
  LET item == db.item[r]
      awards == db.awards[r]
  IN IF r \notin Items(db) THEN awards
     ELSE IF ~Eligible(item) THEN IF r \in db.confirmed THEN Reversed(awards) ELSE awards
     ELSE IF r \notin db.confirmed THEN awards \o Award(item.role)
     ELSE IF Last(awards).role # item.role THEN Reversed(awards) \o Award(item.role)
     ELSE awards

\* Who came needs a student; who did not must have been looked at.
NoStudent(item) == item.match = "UNMATCHED" \/ (item.match = "UNLINKED" /\ item.attend)

Settled(db) ==
  /\ Items(db) = db.active
  /\ \A r \in db.active : /\ db.item[r].seen = db.mark[r]
                          /\ ~NoStudent(db.item[r])

Approved(db) ==
  [db EXCEPT !.state = "APPROVED", !.corrected = TRUE,
             !.awards = [r \in Attendees |-> AwardsAfter(db, r)],
             !.confirmed = {r \in Attendees : IF r \in Items(db) THEN Eligible(db.item[r])
                                                                 ELSE r \in @}]

\* Missing rules, a second registration of the student or a deadlock refuse it.
ServeApprove(i) ==
  /\ Waits(i, "approve")
  /\ \/ /\ MayReview(i) /\ Settled(reviewDb)
        /\ ReviewChanges(i, Approved(reviewDb))
     \/ ReviewRefused(i)

(* What others do meanwhile. *)
ServeOthersReview(i) ==
  /\ LET r == calls[i].arg.reg
     IN \/ Waits(i, "prepare") /\ ReviewChanges(i, Prepared(reviewDb))
        \/ /\ Waits(i, "mark") /\ r \in reviewDb.active
           /\ ReviewChanges(i, [reviewDb EXCEPT !.mark[r] = TRUE])
        \/ Waits(i, "annul") /\ ReviewChanges(i, [reviewDb EXCEPT !.active = @ \ {r}])
        \/ /\ Waits(i, "register") /\ reviewDb.item[r] = Null
           /\ ReviewChanges(i, [reviewDb EXCEPT !.active = @ \cup {r}])

OtherDecision(r) == [attend |-> ~reviewDb.item[r].attend, role |-> FirstRole, match |-> "MATCHED",
                     expected |-> Version(reviewDb, r), based |-> Version(reviewDb, r)]

OtherReviewer ==
  /\ MayClick
  /\ \/ \E r \in Attendees, op \in {"mark", "annul", "register"} :
          /\ Uses("others") \/ op = "mark"
          /\ calls' = Append(calls, OthersCall(op, [reg |-> r]))
     \/ \E op \in {"prepare", "approve", "reopen"} :
          /\ Uses("others") \/ Uses("queue") \/ op = "approve"
          /\ calls' = Append(calls, OthersCall(op, [reg |-> Null, chief |-> TRUE]))
     \/ \E r \in Attendees :
          /\ reviewDb.item[r] # Null
          /\ calls' = Append(calls, OthersCall("updateReview",
               [reg |-> r, more |-> OtherDecision(r), chief |-> TRUE]))
  /\ UNCHANGED <<page, faults, busy, notice, reviewVars>>

ReviewClicks ==
  \/ LoadQueue \/ LeaveReview \/ Refresh \/ ApproveReview \/ Reopen
  \/ \E r \in Attendees :
       \/ DropDraft(r) \/ SaveDecision(r) \/ SuggestStudents(r) \/ PreviewScore(r)
       \/ \E attend \in BOOLEAN, role \in RoleNames, match \in Choices :
            ChangeDecision(r, attend, role, match)

ReviewServes(i) ==
  ServeReviewReads(i) \/ ServeDecision(i) \/ ServeRefresh(i) \/ ServeReopen(i) \/ ServeApprove(i)
  \/ ServeOthersReview(i)

ReviewReceives(i) ==
  ShowQueue(i) \/ ShowReview(i) \/ ShowApproved(i) \/ ShowScore(i) \/ ReviewFails(i)

ReviewNext ==
  \/ ReviewClicks \/ OtherReviewer
  \/ \E i \in DOMAIN calls :
       \/ ReviewServes(i) \/ ReviewReceives(i)
       \/ LoseCall(i) /\ UNCHANGED reviewVars

\* The queue before the review, a review at work, or one that was approved.
ReviewStart ==
  /\ reviewDb = IF Uses("approved") THEN Approved(Prepared(NewReview))
                ELSE IF Uses("review") THEN Prepared(NewReview) ELSE NewReview
  /\ Uses("approved") => Settled(Prepared(NewReview))
  /\ \E chief \in Reviewers :
       /\ Uses("approved") => chief
       /\ Uses("review") \/ Uses("approved") \/ chief = CHOOSE x \in Reviewers : TRUE
       /\ reviewView = IF Uses("review") \/ Uses("approved")
                       THEN [EmptyView(chief) EXCEPT !.mount = 1, !.shown = ReviewOf(reviewDb)]
                       ELSE EmptyView(chief)
ReviewInit == CallsInit /\ ReviewStart /\ Mounted(<<>>)

ReviewSpec == ReviewInit /\ [][ReviewNext]_<<shell, reviewVars>>

(***************************************************************************)
(* Properties.                                                             *)
(***************************************************************************)
DecidedAs(r) ==
  CASE r \notin Items(reviewDb) -> Open
    [] reviewDb.item[r].seen # reviewDb.mark[r] \/ NoStudent(reviewDb.item[r]) -> Open
    [] Eligible(reviewDb.item[r]) -> reviewDb.item[r].role
    [] OTHER -> Nobody

Standing(r) ==
  {[nr |-> n, role |-> reviewDb.awards[r][n].role] :
     n \in {k \in DOMAIN reviewDb.awards[r] : ~reviewDb.awards[r][k].reversed}}

Ledger == INSTANCE ReviewLedger WITH
  state <- reviewDb.state,
  listed <- reviewDb.active,
  decided <- [r \in Attendees |-> DecidedAs(r)],
  credited <- [r \in Attendees |-> Standing(r)]

\* The review implements its ledger: no credit changes before an approval, and
\* an approval, which refuses while anyone is undecided or a newer mark was not
\* looked at, credits everyone on the list exactly as decided.
ReviewLedgerRefined == Ledger!LedgerSpec

\* A stored decision replaces only the one its author had before him when he
\* began to change it: the replies that renew the list under a draft do not
\* renew what the draft was based on.
OverwrittenWasSeen ==
  [][\A i \in DOMAIN calls :
       Waits(i, "updateReview") /\ calls'[i].phase # "sent" /\ reviewDb' # reviewDb =>
         calls[i].arg.more.based = Version(reviewDb, calls[i].arg.reg)]_reviewDb
=============================================================================
