--------------------------- MODULE ConsoleTypesProofs ---------------------------
(***************************************************************************)
(* The types of the console's pages, for any objects and calls.  A reply   *)
(* is put on the screen by whoever asked, and another page, card or form   *)
(* may be there by then, so that the types of what the pages show follow   *)
(* from what is said of every call: what it was asked for (SentT), what    *)
(* its transaction has read (OpenT) and what it is answered (ReplyT).      *)
(***************************************************************************)
EXTENDS AdminConsoleProofs

-----------------------------------------------------------------------------
(* The calls of every page, by what they ask for and what they are answered. *)
AllOps == ScoringOps \cup RegOps \cup PeopleOps \cup EventOps \cup ReviewOps
RegRow == [id: Regs, state: RegStates]
ListsT(x) == x.policies \subseteq Policies /\ x.season \in SeasonRow
DecisionT(x) == x.attend \in BOOLEAN /\ x.role \in RoleNames /\ x.match \in Choices
ShownT(x) ==
  /\ DOMAIN x = {"state", "corrected", "items"} /\ x.state \in ReviewStates
  /\ \A r \in DOMAIN x.items : x.items[r].item \in ItemRow

SentT(o, a) ==
  /\ o = "createVersion" => a.policy \in Policies /\ a.sound \in BOOLEAN
  /\ o = "saveVersion" => a.sound \in BOOLEAN
  /\ o = "publish" => a.span \subseteq Instants
  /\ o = "version" => a \in Versions
  /\ o = "assignSeason" => a.policy \in Policies \cup {Null} /\ a.from \in Instants \cup {0}
  /\ o = "award" => a \in ScoredEvents
  /\ o = "moveEvent" => a.to \in Instants
  /\ o = "publishable" => ListsT(a.lists)
  /\ o \in {"registration", "updateRegistration", "annulRegistration", "resendTicket"} => a.reg \in Regs
  /\ o = "updateRegistration" => a.more \in Regs
  /\ o = "previewExcel" => a.file \in Files
  /\ o = "setProfileVisibility" => a.id \in People
  /\ o = "updatePerson" => a.more \in People
  /\ o = "updateRosterMetadata" => a.more.text \in Texts
  /\ o \in {"previewRoster", "importRoster"} => a.book \in Books
  /\ o = "login" => a \in Roles
  /\ o = "updateReview" => DecisionT(a.more)
  /\ o = "previewScore" => a.reg \in Attendees

PersonReplies == {"person", "updatePerson", "updateRosterMetadata", "dismissDuplicate", "mergePerson"}
EventReplies == {"event", "createEvent", "updateEvent", "uploadCover", "deleteCover", "archive"}
ReviewReplies == {"eventReview", "updateReview", "refresh", "reopen"}
ReplyT(o, d) ==
  /\ o = "references" => ListsT(d)
  /\ o = "publishable" => d \subseteq Policies
  /\ o = "versions" => d \subseteq [id: Versions, state: VersionStates]
  /\ o = "version" => d \in VersionRow
  /\ o = "registrations" => d \subseteq RegRow
  /\ o \in {"registration", "updateRegistration"} => d \in RegRow
  /\ o = "cases" => d \subseteq Cases
  /\ o = "people" /\ InUse(PeoplePanels) => d \subseteq People
  /\ o \in PersonReplies => d \in PersonCard
  /\ o = "previewRoster" => d \in RosterPreview
  /\ o \in Sess => d \in Roles \cup {Null}
  /\ o = "events" => d \subseteq Events
  /\ o \in EventReplies => d \in EventRow \cup {Null}
  /\ o \in ReviewReplies => ShownT(d)

\* A transaction that has written answers with what it wrote.
OpenT(o, d) == o \in EventReplies /\ d.stage = "saved" => d.row \in EventRow \cup {Null}

CallT(c) ==
  /\ c.op \in AllOps
  /\ c.phase # "over" => SentT(c.op, c.arg)
  /\ c.phase = "open" => OpenT(c.op, c.data)
  /\ c.phase = "done" /\ c.ok => ReplyT(c.op, c.data)
TypedCalls == CallsTyped /\ \A i \in DOMAIN calls : CallT(calls[i])

\* What stays asked: the requests that were, and a new one.
Stays(j) ==
  /\ j \in DOMAIN calls /\ calls[j].phase # "over"
  /\ calls'[j].op = calls[j].op /\ calls'[j].arg = calls[j].arg
Asked(o, a) ==
  /\ TypedCalls' /\ Len(calls') \in Nat /\ Len(calls') >= Len(calls)
  /\ \A j \in DOMAIN calls' : calls'[j].phase # "over" =>
       Stays(j) \/ (calls'[j].op = o /\ calls'[j].arg = a)
AskedNone ==
  /\ TypedCalls' /\ Len(calls') \in Nat /\ Len(calls') >= Len(calls)
  /\ \A j \in DOMAIN calls' : calls'[j].phase # "over" => Stays(j)

LEMMA SamePage ==
  ASSUME UNCHANGED page
  PROVE  \A c : CallT(c)' <=> CallT(c)
<1>1. \A o, d : ReplyT(o, d)' <=> ReplyT(o, d)
  BY DEF ReplyT, InUse
<1> QED
  BY <1>1 DEF CallT

LEMMA TypedAsk ==
  ASSUME TypedCalls, UNCHANGED page, NEW o \in AllOps, NEW a, SentT(o, a),
         calls' = Append(calls, Call(o, a)) \/ calls' = Append(calls, OthersCall(o, a))
  PROVE  Asked(o, a)
<1>1. PICK c : (c = Call(o, a) \/ c = OthersCall(o, a)) /\ calls' = Append(calls, c)
  OBVIOUS
<1>2. c.op = o /\ c.arg = a /\ c.phase = "sent"
  BY <1>1, CallFields
<1>3. CallT(c)
  BY <1>2 DEF CallT
<1>4. /\ CallsTyped' /\ DOMAIN calls' = DOMAIN calls \cup {Len(calls) + 1}
      /\ Len(calls) + 1 \notin DOMAIN calls
      /\ calls'[Len(calls) + 1] = c
      /\ \A j \in DOMAIN calls : calls'[j] = calls[j]
  BY <1>1, Appended DEF TypedCalls
<1>5. TypedCalls'
  BY <1>3, <1>4, SamePage DEF TypedCalls
<1>6. Len(calls') \in Nat /\ Len(calls') >= Len(calls)
  BY <1>4, CallsLen DEF TypedCalls, CallsTyped
<1> QED
  BY <1>2, <1>4, <1>5, <1>6 DEF Asked, Stays

LEMMA TypedTurn ==
  ASSUME TypedCalls, UNCHANGED page, NEW i \in DOMAIN calls, NEW b \in {Null, calls[i].arg},
         NEW p \in {"over", "open", "done"}, NEW k \in BOOLEAN, NEW d,
         calls' = Became(i, b, p, k, d),
         p # "over" => b = calls[i].arg /\ calls[i].phase # "over",
         NEW o, o = calls[i].op, p = "open" => OpenT(o, d), p = "done" /\ k => ReplyT(o, d)
  PROVE  AskedNone
<1>1. /\ CallsTyped' /\ DOMAIN calls' = DOMAIN calls
      /\ calls'[i].op = calls[i].op /\ calls'[i].phase = p
      /\ calls'[i].data = d /\ calls'[i].arg = b /\ (calls'[i].ok <=> k)
      /\ \A j \in DOMAIN calls : j # i => calls'[j] = calls[j]
  <2>1. Turned(i, b, p, k, d)
    BY Turns DEF TypedCalls
  <2> QED
    BY <2>1 DEF Turned
<1>2. CallT(calls[i])
  BY DEF TypedCalls
<1>3. CallT(calls'[i])
  BY <1>1, <1>2 DEF CallT
<1>4. TypedCalls'
  BY <1>1, <1>3, SamePage DEF TypedCalls
<1>5. Len(calls') \in Nat /\ Len(calls') >= Len(calls)
  BY <1>1, CallsLen DEF TypedCalls, CallsTyped
<1> QED
  BY <1>1, <1>4, <1>5 DEF AskedNone, Stays

LEMMA TypedTake ==
  ASSUME TypedCalls, UNCHANGED page, NEW i \in DOMAIN calls, calls' = Over(i)
  PROVE  AskedNone
<1>1. calls' = Became(i, Null, "over", FALSE, Null)
  BY DEF Over
<1> QED
  BY <1>1, TypedTurn

LEMMA TypedAnswer ==
  ASSUME TypedCalls, UNCHANGED page, NEW i \in DOMAIN calls, calls[i].phase # "over",
         NEW k \in BOOLEAN, NEW d, Answer(i, k, d), NEW o, o = calls[i].op, k => ReplyT(o, d)
  PROVE  AskedNone
<1>1. \/ calls' = Over(i)
      \/ calls' = Became(i, calls[i].arg, "done", k, d)
  BY DEF Answer
<1> QED
  BY <1>1, TypedTake, TypedTurn

LEMMA TypedRefusal ==
  ASSUME TypedCalls, UNCHANGED page, NEW i \in DOMAIN calls, calls[i].phase # "over",
         Refused(i) \/ \E d : RefusedAs(i, d)
  PROVE  AskedNone
<1>1. PICK d : Answer(i, FALSE, d)
  BY DEF Refused, RefusedAs
<1> QED
  BY <1>1, TypedAnswer

LEMMA TypedBegin ==
  ASSUME TypedCalls, UNCHANGED page, NEW i \in DOMAIN calls, calls[i].phase # "over", NEW d, Began(i, d),
         NEW o, o = calls[i].op, OpenT(o, d)
  PROVE  AskedNone
<1>1. calls' = Became(i, calls[i].arg, "open", FALSE, d)
  BY DEF Began
<1> QED
  BY <1>1, TypedTurn

LEMMA TypedLoss ==
  ASSUME TypedCalls, NEW i \in DOMAIN calls, LoseCall(i)
  PROVE  AskedNone
<1>1. calls' = Became(i, calls[i].arg, "done", FALSE, Null) /\ calls[i].phase # "over" /\ UNCHANGED page
  BY DEF LoseCall
<1> QED
  BY <1>1, TypedTurn

LEMMA TypedGoOn ==
  ASSUME TypedCalls, UNCHANGED page, NEW i \in DOMAIN calls, NEW o \in AllOps, NEW a, SentT(o, a),
         calls' = Append(Over(i), Call(o, a))
  PROVE  Asked(o, a)
<1>1. /\ CallsTyped' /\ DOMAIN calls' = DOMAIN calls \cup {Len(calls) + 1}
      /\ Len(calls) + 1 \notin DOMAIN calls
      /\ calls'[Len(calls) + 1] = Call(o, a)
      /\ calls'[i].phase = "over" /\ calls'[i].op = calls[i].op
      /\ \A j \in DOMAIN calls : j # i => calls'[j] = calls[j]
  BY OveredAndAppended DEF TypedCalls
<1>2. PICK c : c = Call(o, a)
  OBVIOUS
<1>3. CallT(c) /\ c.op = o /\ c.arg = a
  BY <1>2, CallFields DEF CallT
<1>4. CallT(calls'[i])
  BY <1>1 DEF CallT, TypedCalls
<1>5. TypedCalls'
  BY <1>1, <1>2, <1>3, <1>4, SamePage DEF TypedCalls
<1>6. Len(calls') \in Nat /\ Len(calls') >= Len(calls)
  BY <1>1, CallsLen DEF TypedCalls, CallsTyped
<1> QED
  BY <1>1, <1>2, <1>3, <1>5, <1>6 DEF Asked, Stays

LEMMA TypedRest ==
  ASSUME TypedCalls, UNCHANGED <<page, calls>>
  PROVE  AskedNone
<1>1. TypedCalls'
  BY SamePage DEF TypedCalls, CallsTyped
<1>2. Len(calls') \in Nat /\ Len(calls') >= Len(calls)
  BY CallsLen DEF TypedCalls
<1>3. \A j \in DOMAIN calls' : calls'[j].phase # "over" => Stays(j)
  BY DEF Stays
<1> QED
  BY <1>1, <1>2, <1>3 DEF AskedNone

LEMMA TypedBoth ==
  ASSUME TypedCalls, UNCHANGED page, NEW i \in DOMAIN calls, NEW o \in AllOps, NEW q \in AllOps, NEW a,
         SentT(o, a), SentT(q, a),
         calls' = Append(Append(Over(i), Call(o, a)), Call(q, a))
  PROVE  TypedCalls'
<1>1. PICK n : n = Len(calls)
  OBVIOUS
<1>2. Followed(i, n, Call(o, a), Call(q, a))
  BY <1>1, BothAppended DEF TypedCalls
<1>3. PICK c, d : c = Call(o, a) /\ d = Call(q, a)
  OBVIOUS
<1>4. CallT(c) /\ CallT(d)
  BY <1>3, CallFields DEF CallT
<1>5. CallT(calls'[i])
  BY <1>2 DEF CallT, TypedCalls, Followed
<1> QED
  BY <1>2, <1>3, <1>4, <1>5, SamePage DEF TypedCalls, Followed

-----------------------------------------------------------------------------
(* People. *)
CardFields == {"person", "mount", "form", "draft", "conflict", "busy", "found", "compared",
               "profile", "loadedFor"}
CardT(c) ==
  /\ DOMAIN c = CardFields
  /\ c.person = Null \/ c.person \in PersonCard
  /\ c.busy \subseteq Sections /\ c.draft \in Texts \cup {Null}
  /\ c.person # Null => c.form \in People /\ c.draft \in Texts
PeopleDbT ==
  /\ peopleDb.contacts \in [People -> People]
  /\ peopleDb.text \in [People -> Texts]
  /\ peopleDb.alias \in [People -> People \cup {Null}]
  /\ peopleDb.flagged \subseteq People /\ peopleDb.public \subseteq People
  /\ peopleDb.history \in [People -> Nat]
  /\ peopleDb.books \subseteq Books
DirectoryT(x) ==
  /\ DOMAIN x = ListFields
  /\ x.rows \subseteq People
  /\ x.book \in Books \cup {Null} /\ x.preview \in RosterPreview \cup {Null}
  /\ x.seen \subseteq Books
  /\ x.asked \in Nat /\ x.shown \in Nat
PeopleTypes == PeopleDbT /\ DirectoryT(directory) /\ CardT(card)

LEMMA PeopleTypesTell == PeopleTypes => PeopleTypeOK
BY DEF PeopleTypes, PeopleTypeOK, PeopleDbT, DirectoryT, CardT

LEMMA SelectT ==
  ASSUME CardT(card), NEW d \in PersonCard
  PROVE  CardT(Select(d))
<1>1. d.id \in People /\ d.text \in Texts
  BY DEF PersonCard
<1>2. CASE card.person # Null
  <2>1. PICK c : c = [card EXCEPT !.person = d]
    OBVIOUS
  <2>2. CardT(c)
    BY <1>1, <1>2, <2>1 DEF CardT, CardFields
  <2> QED
    BY <1>2, <2>1, <2>2 DEF Select
<1>3. CASE card.person = Null
  <2>1. PICK c : c = [NoCard EXCEPT !.person = d, !.mount = Len(calls) + 1, !.form = d.id, !.draft = d.text]
    OBVIOUS
  <2>2. CardT(c)
    BY <1>1, <2>1 DEF CardT, CardFields, NoCard
  <2> QED
    BY <1>3, <2>1, <2>2 DEF Select
<1> QED
  BY <1>2, <1>3

LEMMA EndedT ==
  ASSUME NEW i, NEW c, CardT(c)
  PROVE  CardT(Ended(i, c))
<1>1. CASE Here(i)
  <2>1. PICK e : e = [c EXCEPT !.busy = @ \ {calls[i].arg.section}]
    OBVIOUS
  <2>2. CardT(e)
    BY <2>1 DEF CardT, CardFields
  <2> QED
    BY <1>1, <2>1, <2>2 DEF Ended
<1>2. CASE ~Here(i)
  BY <1>2 DEF Ended
<1> QED
  BY <1>1, <1>2

LEMMA SectionT ==
  ASSUME TypedCalls, PeopleTypes, NEW s \in Sections, NEW o \in AllOps, NEW x, SectionCall(s, o, x),
         \A a : /\ a.id = card.person.id /\ a.more = x
                => SentT(o, a)
  PROVE  TypedCalls' /\ PeopleTypes'
<1>1. PICK a : a = [mount |-> card.mount, section |-> s, id |-> card.person.id, more |-> x]
  OBVIOUS
<1>2. SentT(o, a)
  BY <1>1
<1>3. TypedCalls'
  BY <1>1, <1>2, TypedAsk DEF SectionCall, Ask, Asked
<1>4. CardT(card)'
  BY DEF SectionCall, PeopleTypes, CardT, CardFields
<1> QED
  BY <1>3, <1>4 DEF SectionCall, PeopleTypes, PeopleDbT, DirectoryT

LEMMA LoadPeopleT ==
  ASSUME TypedCalls, DirectoryT(directory), LoadPeople
  PROVE  TypedCalls' /\ DirectoryT(directory)'
<1>1. "people" \in AllOps /\ SentT("people", Null)
  BY DEF AllOps, PeopleOps, SentT
<1>2. Asked("people", Null)
  BY <1>1, TypedAsk DEF LoadPeople, Ask
<1> QED
  BY <1>2 DEF LoadPeople, DirectoryT, ListFields, Asked

LEMMA PeopleClickT ==
  ASSUME TypedCalls, PeopleTypes, PeopleClicks
  PROVE  TypedCalls' /\ PeopleTypes'
<1> USE DEF PeopleTypes
<1>1. PeopleOps \subseteq AllOps /\ Sections = {"contacts", "roster", "merge", "profile"}
  BY DEF AllOps, Sections
<1>2. ASSUME NEW o \in PeopleOps, NEW a, Ask(o, a), SentT(o, a)
      PROVE  TypedCalls'
  BY <1>1, <1>2, TypedAsk DEF Ask, Asked
<1>3. CASE SearchPeopleList
  BY <1>3, LoadPeopleT DEF SearchPeopleList, PeopleDbT
<1>4. CASE PreviewRoster \/ ImportRoster
  <2>1. PICK o, a : /\ o \in {"previewRoster", "importRoster"}
                    /\ Ask(o, a) /\ a.book = directory.book
    <3>1. CASE PreviewRoster
      BY <3>1 DEF PreviewRoster
    <3>2. CASE ImportRoster
      BY <3>2 DEF ImportRoster
    <3> QED
      BY <1>4, <3>1, <3>2
  <2>2. SentT(o, a)
    BY <1>4, <2>1 DEF PreviewRoster, ImportRoster, DirectoryT, SentT
  <2>3. TypedCalls'
    BY <1>2, <2>1, <2>2 DEF PeopleOps
  <2> QED
    BY <1>4, <2>3 DEF PreviewRoster, ImportRoster, peopleVars, PeopleDbT
<1>5. CASE BackToDirectory
  <2>1. CardT(NoCard)
    BY DEF CardT, NoCard, CardFields
  <2> QED
    BY <1>5, <2>1, LoadPeopleT DEF BackToDirectory, PeopleDbT
<1>6. CASE SavePerson
  <2>1. card.form \in People
    BY <1>6 DEF SavePerson, CardT
  <2>2. \A a : a.id = card.person.id /\ a.more = card.form => SentT("updatePerson", a)
    BY <2>1 DEF SentT
  <2> QED
    BY <1>1, <1>6, <2>2, SectionT DEF SavePerson, PeopleOps
<1>7. CASE SaveMetadata
  <2>1. PICK x : x = [text |-> card.draft, base |-> card.person.text]
    OBVIOUS
  <2>2. x.text \in Texts
    BY <1>7, <2>1 DEF SaveMetadata, CardT
  <2>3. \A a : a.id = card.person.id /\ a.more = x => SentT("updateRosterMetadata", a)
    BY <2>2 DEF SentT
  <2> QED
    BY <1>1, <1>7, <2>1, <2>3, SectionT DEF SaveMetadata, PeopleOps
<1>8. CASE \/ ReloadMetadata \/ MergePerson \/ DismissDuplicate \/ \E p \in People : Compare(p)
  <2>1. ASSUME NEW o \in {"person", "mergePerson", "dismissDuplicate", "previewPersonMerge"},
               NEW s \in Sections, NEW x, SectionCall(s, o, x)
        PROVE  TypedCalls' /\ PeopleTypes'
    <3>1. o \in AllOps /\ \A a : SentT(o, a)
      BY <1>1 DEF SentT, PeopleOps
    <3> QED
      BY <2>1, <3>1, SectionT
  <2>2. CASE ReloadMetadata
    BY <1>1, <2>1, <2>2 DEF ReloadMetadata
  <2>3. CASE MergePerson
    BY <1>1, <2>1, <2>3 DEF MergePerson
  <2>4. CASE DismissDuplicate
    BY <1>1, <2>1, <2>4 DEF DismissDuplicate
  <2>5. CASE \E p \in People : Compare(p)
    BY <1>1, <2>1, <2>5 DEF Compare
  <2> QED
    BY <1>8, <2>2, <2>3, <2>4, <2>5
<1>9. CASE ChangeVisibility
  <2>1. PICK x : SectionCall("profile", "setProfileVisibility", x)
    BY <1>9 DEF ChangeVisibility
  <2>2. card.person.id \in People
    BY <2>1 DEF SectionCall, CardT, PersonCard
  <2>3. \A a : a.id = card.person.id /\ a.more = x => SentT("setProfileVisibility", a)
    BY <2>2 DEF SentT
  <2> QED
    BY <1>1, <2>1, <2>3, SectionT DEF PeopleOps
<1>10. CASE SearchCandidates \/ LoadProfile
  <2>1. PICK o, a : o \in {"candidates", "studentProfile"} /\ Ask(o, a)
    BY <1>10 DEF SearchCandidates, LoadProfile
  <2>2. TypedCalls'
    BY <1>2, <2>1 DEF PeopleOps, SentT
  <2>3. CardT(card)'
    BY <1>1, <1>10 DEF SearchCandidates, LoadProfile, CardT, CardFields
  <2> QED
    BY <1>10, <2>2, <2>3 DEF SearchCandidates, LoadProfile, PeopleDbT, DirectoryT
<1>11. ASSUME NEW p \in People, OpenPerson(p)
       PROVE  TypedCalls' /\ PeopleTypes'
  <2>1. PICK a : Ask("person", a)
    BY <1>11 DEF OpenPerson
  <2>2. TypedCalls'
    BY <1>2, <2>1 DEF PeopleOps, SentT
  <2> QED
    BY <1>11, <2>2 DEF OpenPerson, peopleVars, PeopleDbT
<1>12. ASSUME NEW b \in Books, ChooseBook(b)
       PROVE  TypedCalls' /\ PeopleTypes'
  <2>1. TypedCalls'
    BY <1>12, TypedRest DEF ChooseBook, shell, AskedNone
  <2> QED
    BY <1>12, <2>1 DEF ChooseBook, PeopleDbT, DirectoryT, ListFields
<1>13. ASSUME NEW t \in Texts, EditMetadata(t)
       PROVE  TypedCalls' /\ PeopleTypes'
  <2>1. TypedCalls'
    BY <1>13, TypedRest DEF EditMetadata, shell, AskedNone
  <2> QED
    BY <1>13, <2>1 DEF EditMetadata, PeopleDbT, DirectoryT, CardT, CardFields
<1> QED
  BY <1>3, <1>4, <1>5, <1>6, <1>7, <1>8, <1>9, <1>10, <1>11, <1>12, <1>13 DEF PeopleClicks

LEMMA OtherPeopleT ==
  ASSUME TypedCalls, PeopleTypes, OtherPeople
  PROVE  TypedCalls' /\ PeopleTypes'
<1>1. ASSUME NEW o \in {"scored", "mergePerson", "updateRosterMetadata"}, NEW a,
             calls' = Append(calls, OthersCall(o, a)),
             o = "updateRosterMetadata" => a.more.text \in Texts
      PROVE  TypedCalls'
  <2>1. SentT(o, a) /\ o \in AllOps
    BY <1>1 DEF SentT, AllOps, PeopleOps
  <2> QED
    BY <1>1, <2>1, TypedAsk DEF OtherPeople, Asked
<1>2. ASSUME NEW p \in People, NEW t \in Texts,
             calls' = Append(calls, OthersCall("updateRosterMetadata",
                        [id |-> p, more |-> [text |-> t, base |-> peopleDb.text[p]]]))
      PROVE  TypedCalls'
  <2>1. PICK a : a = [id |-> p, more |-> [text |-> t, base |-> peopleDb.text[p]]]
    OBVIOUS
  <2>2. a.more.text \in Texts
    BY <2>1
  <2> QED
    BY <1>1, <1>2, <2>1, <2>2
<1>3. TypedCalls'
  BY <1>1, <1>2 DEF OtherPeople
<1> QED
  BY <1>3 DEF OtherPeople, peopleVars, PeopleTypes, PeopleDbT

\* The answer to a call that came well.
LEMMA ReplyIsTyped ==
  ASSUME TypedCalls, NEW i \in DOMAIN calls, NEW o, Answered(i, o)
  PROVE  ReplyT(o, calls[i].data) /\ SentT(o, calls[i].arg)
BY DEF TypedCalls, CallT, Answered

LEMMA PeopleReceiveT ==
  ASSUME TypedCalls, PeopleTypes, InUse(PeoplePanels), NEW i \in DOMAIN calls, PeopleReceives(i)
  PROVE  TypedCalls' /\ PeopleTypes'
<1> USE DEF PeopleTypes
<1>1. Take(i) => TypedCalls'
  BY TypedTake DEF Take, AskedNone
<1>2. DOMAIN calls = 1..Len(calls) /\ Len(calls) \in Nat
  BY CallsLen DEF TypedCalls
<1>3. CASE PeopleArrive(i)
  <2>1. calls[i].ok => calls[i].data \subseteq People
    BY <1>3, ReplyIsTyped DEF PeopleArrive, ReplyT, Failed
  <2>2. DirectoryT(directory)'
    BY <1>2, <1>3, <2>1 DEF PeopleArrive, DirectoryT, ListFields
  <2> QED
    BY <1>1, <1>3, <2>2 DEF PeopleArrive, PeopleDbT
<1>4. CASE ShowPerson(i)
  <2>1. calls[i].data \in PersonCard
    BY <1>4, ReplyIsTyped DEF ShowPerson, ReplyT, PersonReplies
  <2> QED
    BY <1>1, <1>4, <2>1, SelectT DEF ShowPerson, PeopleDbT
<1>5. CASE ListFails(i)
  BY <1>1, <1>5 DEF ListFails, PeopleDbT, DirectoryT, ListFields
<1>6. CASE ShowRosterPreview(i)
  <2>1. PICK found : found = calls[i].data
    OBVIOUS
  <2>2. found \in RosterPreview
    BY <1>6, <2>1, ReplyIsTyped DEF ShowRosterPreview, ReplyT
  <2>3. PICK s : s = IF found.clean THEN directory.seen \cup {found.book} ELSE directory.seen
    OBVIOUS
  <2>4. s \subseteq Books
    BY <2>2, <2>3 DEF RosterPreview, DirectoryT
  <2>5. directory' = [directory EXCEPT !.preview = found, !.seen = s]
    BY <1>6, <2>1, <2>3 DEF ShowRosterPreview, DirectoryT, ListFields
  <2>6. DirectoryT(directory)'
    BY <2>2, <2>4, <2>5 DEF DirectoryT, ListFields
  <2> QED
    BY <1>1, <1>6, <2>6 DEF ShowRosterPreview, PeopleDbT
<1>7. CASE RosterImported(i)
  <2>1. SentT("people", Null) /\ "people" \in AllOps
    BY DEF SentT, AllOps, PeopleOps
  <2>2. Asked("people", Null)
    BY <1>7, <2>1, TypedGoOn DEF RosterImported, TakeAndAsk
  <2>3. Len(calls') \in Nat /\ TypedCalls'
    BY <2>2 DEF Asked
  <2> QED
    BY <1>7, <2>3 DEF RosterImported, PeopleDbT, DirectoryT, ListFields
<1>8. CASE SectionFails(i)
  <2>1. PICK c : /\ card' = Ended(i, c)
                 /\ c = card \/ \E x : c = [card EXCEPT !.conflict = x]
    BY <1>8 DEF SectionFails
  <2>2. CardT(c)
    BY <2>1 DEF CardT, CardFields
  <2> QED
    BY <1>1, <1>8, <2>1, <2>2, EndedT DEF SectionFails, PeopleDbT
<1>9. CASE CardChanged(i)
  <2>1. calls[i].data \in PersonCard
    BY <1>9, ReplyIsTyped DEF CardChanged, ReplyT, PersonReplies
  <2>2. PICK c : c = Ended(i, Select(calls[i].data))
    OBVIOUS
  <2>3. CardT(c) /\ calls[i].data.text \in Texts
    BY <2>1, <2>2, SelectT, EndedT DEF PersonCard
  <2>4. \/ card' = [c EXCEPT !.draft = calls[i].data.text, !.conflict = FALSE]
        \/ card' = [c EXCEPT !.found = {}, !.compared = Null]
        \/ card' = c
    BY <1>9, <2>2 DEF CardChanged
  <2>5. CardT(card)'
    BY <2>3, <2>4 DEF CardT, CardFields
  <2> QED
    BY <1>1, <1>9, <2>5 DEF CardChanged, PeopleDbT
<1>10. CASE ShowCandidates(i) \/ ShowComparison(i) \/ ShowProfile(i)
  <2>1. PICK c : /\ card' = Ended(i, c)
                 /\ \/ c = card \/ \E x : c = [card EXCEPT !.found = x]
                    \/ \E x : c = [card EXCEPT !.compared = x]
                    \/ \E x : c = [card EXCEPT !.profile = x]
    BY <1>10 DEF ShowCandidates, ShowComparison, ShowProfile
  <2>2. CardT(c)
    BY <2>1 DEF CardT, CardFields
  <2> QED
    BY <1>1, <1>10, <2>1, <2>2, EndedT DEF ShowCandidates, ShowComparison, ShowProfile, PeopleDbT
<1> QED
  BY <1>3, <1>4, <1>5, <1>6, <1>7, <1>8, <1>9, <1>10 DEF PeopleReceives

LEMMA ReadyT ==
  ASSUME TypedCalls, NEW i \in DOMAIN calls, NEW o, Waits(i, o) \/ IsOpen(i, o)
  PROVE  SentT(o, calls[i].arg) /\ calls[i].phase # "over" /\ calls[i].op = o
BY DEF TypedCalls, CallT, Waits, IsOpen

LEMMA DoneT ==
  ASSUME TypedCalls, UNCHANGED page, NEW i \in DOMAIN calls, NEW o, Waits(i, o) \/ IsOpen(i, o),
         NEW d, Done(i, d), ReplyT(o, d)
  PROVE  AskedNone
BY ReadyT, TypedAnswer DEF Done

LEMMA RefusedT ==
  ASSUME TypedCalls, UNCHANGED page, NEW i \in DOMAIN calls, NEW o, Waits(i, o) \/ IsOpen(i, o),
         Refused(i) \/ \E d : RefusedAs(i, d)
  PROVE  AskedNone
BY ReadyT, TypedRefusal

LEMMA PeopleServeT ==
  ASSUME TypedCalls, PeopleTypes, DOMAIN peopleDb = PeopleTables, NEW i \in DOMAIN calls, PeopleServes(i)
  PROVE  TypedCalls' /\ PeopleTypes'
<1> USE DEF PeopleTypes
<1>1. UNCHANGED <<page, directory, card>>
  BY DEF PeopleServes, ServePeopleReads, ServeImportRoster, ServePerson, ServeVisibility,
         ServeScored, peopleVars
<1>2. ASSUME NEW p \in Live
      PROVE  CardOf(p) \in PersonCard
  BY <1>2 DEF CardOf, PersonCard, PeopleDbT, Live
<1>3. CASE ServePeopleReads(i)
  <2>1. PICK o, d : /\ Waits(i, o)
                    /\ Refused(i) \/ (Done(i, d) /\ ReplyT(o, d))
    <3>1. CASE (Waits(i, "people") \/ Waits(i, "candidates")) /\ Done(i, Live)
      <4>1. ReplyT("people", Live) /\ ReplyT("candidates", Live)
        BY DEF Live, ReplyT, PersonReplies, Sess, EventReplies, ReviewReplies
      <4> QED
        BY <3>1, <4>1
    <3>2. CASE Waits(i, "person")
      BY <1>2, <1>3, <3>2 DEF ServePeopleReads, ReplyT, Waits, PersonReplies, Sess,
         EventReplies, ReviewReplies
    <3>3. CASE Waits(i, "previewRoster")
      <4>1. calls[i].arg.book \in Books
        BY <3>3, ReadyT DEF SentT
      <4>2. ASSUME NEW clean \in BOOLEAN
            PROVE  ReplyT("previewRoster", [book |-> calls[i].arg.book, clean |-> clean])
        <5>1. [book |-> calls[i].arg.book, clean |-> clean] \in RosterPreview
          BY <4>1 DEF RosterPreview
        <5> QED
          BY <5>1 DEF ReplyT, PersonReplies, Sess, EventReplies, ReviewReplies
      <4>3. Refused(i) \/ \E clean \in BOOLEAN : Done(i, [book |-> calls[i].arg.book, clean |-> clean])
        BY <1>3, <3>3 DEF ServePeopleReads, Waits
      <4> QED
        BY <3>3, <4>2, <4>3
    <3>4. CASE Waits(i, "previewPersonMerge") \/ Waits(i, "studentProfile")
      BY <1>3, <3>4 DEF ServePeopleReads, ReplyT, Waits, PersonReplies, Sess, EventReplies,
         ReviewReplies
    <3> QED
      BY <1>3, <3>1, <3>2, <3>3, <3>4 DEF ServePeopleReads
  <2>2. TypedCalls'
    BY <1>1, <2>1, DoneT, RefusedT DEF AskedNone
  <2> QED
    BY <1>1, <1>3, <2>2 DEF ServePeopleReads, peopleVars, PeopleDbT
<1>4. CASE ServeImportRoster(i)
  <2>1. calls[i].arg.book \in Books
    BY <1>4, ReadyT DEF ServeImportRoster, SentT
  <2>2. ReplyT("importRoster", Null)
    BY DEF ReplyT, PersonReplies, Sess, EventReplies, ReviewReplies
  <2>3. TypedCalls'
    BY <1>1, <1>4, <2>2, DoneT, RefusedT DEF ServeImportRoster, AskedNone
  <2>4. PeopleDbT'
    BY <1>4, <2>1 DEF ServeImportRoster, PeopleDbT, PeopleTables
  <2> QED
    BY <1>1, <2>3, <2>4
<1>5. CASE ServePerson(i)
  <2>1. PICK p, more : p = calls[i].arg.id /\ more = calls[i].arg.more
    OBVIOUS
  <2>2. PICK o, db : 
          /\ o \in {"updatePerson", "updateRosterMetadata", "dismissDuplicate", "mergePerson"}
          /\ Waits(i, o)
          /\ \/ UNCHANGED peopleDb /\ (Refused(i) \/ \E d : RefusedAs(i, d))
             \/ /\ p \in Live /\ PersonDone(i, db)
                /\ \/ o = "updatePerson" /\ db = [peopleDb EXCEPT !.contacts[p] = more]
                   \/ o = "updateRosterMetadata" /\ db = [peopleDb EXCEPT !.text[p] = more.text]
                   \/ o = "dismissDuplicate" /\ db = [peopleDb EXCEPT !.flagged = @ \ {p}]
                   \/ o = "mergePerson" /\ db = Merged(p, more.source)
    <3>1. CASE Waits(i, "updatePerson")
      BY <1>5, <2>1, <3>1 DEF ServePerson, PersonRefused, Waits
    <3>2. CASE Waits(i, "updateRosterMetadata")
      BY <1>5, <2>1, <3>2 DEF ServePerson, PersonRefused, Waits
    <3>3. CASE Waits(i, "dismissDuplicate")
      BY <1>5, <2>1, <3>3 DEF ServePerson, PersonRefused, Waits
    <3>4. CASE Waits(i, "mergePerson")
      BY <1>5, <2>1, <3>4 DEF ServePerson, PersonRefused, Waits
    <3> QED
      BY <1>5, <3>1, <3>2, <3>3, <3>4 DEF ServePerson
  <2>3. CASE UNCHANGED peopleDb /\ (Refused(i) \/ \E d : RefusedAs(i, d))
    <3>1. TypedCalls'
      BY <1>1, <2>2, <2>3, RefusedT DEF AskedNone
    <3> QED
      BY <1>1, <2>3, <3>1 DEF PeopleDbT
  <2>4. CASE /\ p \in Live /\ PersonDone(i, db)
             /\ \/ o = "updatePerson" /\ db = [peopleDb EXCEPT !.contacts[p] = more]
                \/ o = "updateRosterMetadata" /\ db = [peopleDb EXCEPT !.text[p] = more.text]
                \/ o = "dismissDuplicate" /\ db = [peopleDb EXCEPT !.flagged = @ \ {p}]
                \/ o = "mergePerson" /\ db = Merged(p, more.source)
    <3>1. peopleDb' = db /\ p \in People
      BY <2>4 DEF PersonDone, Live
    <3>2. SentT(o, calls[i].arg)
      BY <2>2, ReadyT
    <3>3. PeopleDbT'
      <4>1. CASE o = "updatePerson" /\ db = [peopleDb EXCEPT !.contacts[p] = more]
        BY <2>1, <3>1, <3>2, <4>1 DEF SentT, PeopleDbT, PeopleTables
      <4>2. CASE o = "updateRosterMetadata" /\ db = [peopleDb EXCEPT !.text[p] = more.text]
        BY <2>1, <3>1, <3>2, <4>2 DEF SentT, PeopleDbT, PeopleTables
      <4>3. CASE o = "dismissDuplicate" /\ db = [peopleDb EXCEPT !.flagged = @ \ {p}]
        BY <3>1, <4>3 DEF PeopleDbT, PeopleTables
      <4>4. CASE o = "mergePerson" /\ db = Merged(p, more.source)
        BY <3>1, <4>4 DEF Merged, PeopleDbT, PeopleTables
      <4> QED
        BY <2>4, <4>1, <4>2, <4>3, <4>4
    <3>4. PICK d : d = [id |-> p, text |-> db.text[p], flagged |-> p \in db.flagged]
      OBVIOUS
    <3>5. d \in PersonCard
      BY <3>1, <3>3, <3>4 DEF PersonCard, PeopleDbT
    <3>6. ReplyT(o, d)
      BY <2>2, <3>5 DEF ReplyT, PersonReplies, Sess, EventReplies, ReviewReplies
    <3>7. Done(i, d)
      BY <2>1, <2>4, <3>4 DEF PersonDone
    <3>8. TypedCalls'
      BY <1>1, <2>2, <3>6, <3>7, DoneT DEF AskedNone
    <3> QED
      BY <1>1, <3>3, <3>8
  <2> QED
    BY <2>2, <2>3, <2>4
<1>6. CASE ServeVisibility(i)
  <2>1. calls[i].arg.id \in People
    BY <1>6, ReadyT DEF ServeVisibility, SentT
  <2>2. \A d : ReplyT("setProfileVisibility", d)
    BY DEF ReplyT, PersonReplies, Sess, EventReplies, ReviewReplies
  <2>3. TypedCalls'
    BY <1>1, <1>6, <2>2, DoneT DEF ServeVisibility, AskedNone
  <2>4. PeopleDbT'
    BY <1>6, <2>1 DEF ServeVisibility, PeopleDbT, PeopleTables
  <2> QED
    BY <1>1, <2>3, <2>4
<1>7. CASE ServeScored(i)
  <2>1. \A d : ReplyT("scored", d)
    BY DEF ReplyT, PersonReplies, Sess, EventReplies, ReviewReplies
  <2>2. TypedCalls'
    BY <1>1, <1>7, <2>1, DoneT DEF ServeScored, AskedNone
  <2>3. PICK g, h : g = peopleDb.history /\ h = [g EXCEPT ![calls[i].arg.id] = @ + 1]
    OBVIOUS
  <2>4. h \in [People -> Nat]
    <3>1. g \in [People -> Nat]
      BY <2>3 DEF PeopleDbT
    <3>2. DOMAIN h = People /\ \A p \in People : h[p] \in {g[p], g[p] + 1}
      BY <2>3, <3>1
    <3>3. \A p \in People : h[p] \in Nat
      BY <3>1, <3>2
    <3> QED
      BY <2>3, <3>2, <3>3
  <2>5. PeopleDbT'
    BY <1>7, <2>3, <2>4 DEF ServeScored, PeopleDbT, PeopleTables
  <2> QED
    BY <1>1, <2>2, <2>5
<1> QED
  BY <1>3, <1>4, <1>5, <1>6, <1>7 DEF PeopleServes

LEMMA PeopleNextT ==
  ASSUME TypedCalls, PeopleTypes, InUse(PeoplePanels), DOMAIN peopleDb = PeopleTables, PeopleNext
  PROVE  TypedCalls' /\ PeopleTypes'
<1>1. ASSUME NEW i \in DOMAIN calls, LoseCall(i), UNCHANGED peopleVars
      PROVE  TypedCalls' /\ PeopleTypes'
  BY <1>1, TypedLoss DEF AskedNone, peopleVars, PeopleTypes, PeopleDbT
<1> QED
  BY <1>1, PeopleClickT, OtherPeopleT, PeopleReceiveT, PeopleServeT DEF PeopleNext

LEMMA PeopleStartT ==
  ASSUME PeopleStart
  PROVE  PeopleTypes
<1>1. FirstText \in Texts
  BY PeopleBasics DEF FirstText
<1>2. PeopleDbT
  BY <1>1, PeopleBasics DEF PeopleStart, PeopleDbT
<1>3. DirectoryT(directory)
  BY DEF PeopleStart, DirectoryT, ListFields
<1>4. CardT(card)
  <2>1. CASE card = NoCard
    BY <2>1 DEF CardT, NoCard, CardFields
  <2>2. ASSUME NEW p \in People, card = [NoCard EXCEPT !.person = CardOf(p), !.form = p, !.draft = FirstText]
        PROVE  CardT(card)
    <3>1. CardOf(p) \in PersonCard
      BY <1>2 DEF CardOf, PersonCard, PeopleDbT
    <3> QED
      BY <1>1, <2>2, <3>1 DEF CardT, NoCard, CardFields
  <2> QED
    BY <2>1, <2>2 DEF PeopleStart
<1> QED
  BY <1>2, <1>3, <1>4 DEF PeopleTypes

-----------------------------------------------------------------------------
(* Registrations. *)
JobT(j) == DOMAIN j = {"id", "file", "done", "by"} /\ j.file \in Files /\ j.done \in BOOLEAN
RegDbT ==
  /\ DOMAIN regDb = RegTables
  /\ regDb.state \in [Regs -> RegStates]
  /\ regDb.data \in [Regs -> Regs]
  /\ \A t \in regDb.tickets : t.reg \in Regs
  /\ \A t \in regDb.receipts : t.reg \in Regs
  /\ \A j \in regDb.jobs : JobT(j)
  /\ regDb.cases \subseteq Cases
SubT(s) == DOMAIN s = SubFields /\ s.file \in Files \cup {Null} /\ s.cases \subseteq Cases
ViewT(v) ==
  /\ DOMAIN v = ViewFields
  /\ v.rows \subseteq RegRow
  /\ v.filter \in Filters
  /\ v.selected = Null \/ v.selected \in RegRow
  /\ v.onsite \in BOOLEAN /\ v.excel \in BOOLEAN
  /\ SubT(v.sub)
\* The form of the card was filled from a registration.
FormT(v) == v.selected # Null => v.sub.form \in Regs
RegTypes == RegDbT /\ ViewT(regView) /\ FormT(regView)

LEMMA RegTypesTell == RegTypes => RegTypeOK
BY DEF RegTypes, RegTypeOK, RegDbT, JobT, ViewT, SubT, RegRow

LEMMA RenderT ==
  ASSUME RegTypes, NEW v, ViewT(v), v.sub = regView.sub
  PROVE  ViewT(Render(v)) /\ FormT(Render(v))
<1>1. PICK f, s : f = (IF v.selected = Null THEN Null ELSE v.selected.id) /\ s = Sub(Len(calls) + 1, f)
  OBVIOUS
<1>2. SubT(s) /\ s.form = f
  BY <1>1 DEF SubT, Sub, SubFields
<1>3. v.selected # Null => f \in Regs
  BY <1>1 DEF ViewT, RegRow
<1>4. CASE Screen(v) = Screen(regView)
  <2>1. v.selected # Null => regView.selected # Null
    BY <1>4 DEF Screen
  <2> QED
    BY <1>4, <2>1 DEF Render, RegTypes, FormT
<1>5. CASE Screen(v) # Screen(regView)
  <2>1. PICK w : w = [v EXCEPT !.sub = s]
    OBVIOUS
  <2>2. ViewT(w) /\ FormT(w)
    BY <1>2, <1>3, <2>1 DEF ViewT, FormT, ViewFields
  <2> QED
    BY <1>1, <1>5, <2>1, <2>2 DEF Render
<1> QED
  BY <1>4, <1>5

LEMMA StillT ==
  ASSUME NEW i, NEW v, NEW b, ViewT(v), FormT(v)
  PROVE  ViewT(Still(i, v, b)) /\ FormT(Still(i, v, b))
<1>1. PICK w : w = [v EXCEPT !.sub.busy = b]
  OBVIOUS
<1>2. ViewT(w) /\ FormT(w)
  BY <1>1 DEF ViewT, FormT, ViewFields, SubT, SubFields
<1> QED
  BY <1>1, <1>2 DEF Still

LEMMA RegDbSame == ASSUME RegDbT, UNCHANGED regDb PROVE RegDbT'
BY DEF RegDbT

LEMMA ViewSame == ASSUME ViewT(regView), FormT(regView), UNCHANGED regView
                  PROVE  ViewT(regView)' /\ FormT(regView)'
BY DEF ViewT, FormT, SubT

LEMMA RegAskT ==
  ASSUME TypedCalls, NEW o \in RegOps, NEW a, Ask(o, a), SentT(o, a)
  PROVE  TypedCalls'
BY TypedAsk DEF Ask, Asked, AllOps

\* A sub-page asks, and waits for the answer.
LEMMA BusyT ==
  ASSUME RegTypes, regView' = [regView EXCEPT !.sub.busy = TRUE], UNCHANGED regDb
  PROVE  RegTypes'
BY RegDbSame DEF RegTypes, ViewT, FormT, ViewFields, SubT, SubFields

LEMMA CardCallT ==
  ASSUME TypedCalls, RegTypes, NEW o \in {"updateRegistration", "annulRegistration", "resendTicket"},
         NEW m, CardCall(o, m), o = "updateRegistration" => m = regView.sub.form
  PROVE  TypedCalls' /\ RegTypes'
<1>1. regView.selected # Null
  BY DEF CardCall, OnScreen, Screen
<1>2. regView.selected.id \in Regs /\ regView.sub.form \in Regs
  BY <1>1 DEF RegTypes, ViewT, FormT, RegRow
<1>3. PICK a : a = [reg |-> regView.selected.id, mount |-> regView.sub.mount, more |-> m]
  OBVIOUS
<1>4. SentT(o, a)
  BY <1>2, <1>3 DEF SentT
<1>5. TypedCalls'
  BY <1>3, <1>4, RegAskT DEF CardCall, RegOps
<1> QED
  BY <1>5, BusyT DEF CardCall

LEMMA RegClickT ==
  ASSUME TypedCalls, RegTypes, RegClicks
  PROVE  TypedCalls' /\ RegTypes'
<1> USE DEF RegTypes
<1>1. ASSUME NEW f, LoadList(f)
      PROVE  TypedCalls'
  BY <1>1, RegAskT DEF LoadList, RegOps, SentT
<1>2. UNCHANGED calls /\ UNCHANGED page => TypedCalls'
  BY TypedRest DEF AskedNone
<1>3. CASE TurnPage
  BY <1>1, <1>3, RegDbSame, ViewSame DEF TurnPage, regVars
<1>4. CASE SendImportedTickets \/ OpenOnsite \/ LoadCases
  <2>1. \A o \in {"sendTickets", "formFields", "cases"} : o \in RegOps /\ \A a : SentT(o, a)
    BY DEF SentT, RegOps
  <2>2. TypedCalls'
    BY <1>4, <2>1, RegAskT DEF SendImportedTickets, OpenOnsite, LoadCases
  <2> QED
    BY <1>4, <2>2, RegDbSame, ViewSame DEF SendImportedTickets, OpenOnsite, LoadCases, regVars
<1>5. CASE BackToList
  <2>1. PICK v : /\ regView' = Render(v)
                 /\ v \in {[regView EXCEPT !.selected = Null], [regView EXCEPT !.onsite = FALSE, !.excel = FALSE]}
    BY <1>5 DEF BackToList
  <2>2. ViewT(v) /\ v.sub = regView.sub
    BY <2>1 DEF ViewT, ViewFields
  <2>3. ViewT(regView') /\ FormT(regView')
    BY <2>1, <2>2, RenderT
  <2>4. TypedCalls'
    BY <1>1, <1>2, <1>5 DEF BackToList, shell
  <2> QED
    BY <1>5, <2>3, <2>4, RegDbSame DEF BackToList, ViewT, FormT, SubT
<1>6. CASE SaveRegistration \/ AnnulRegistration \/ ResendTicket
  BY <1>6, CardCallT DEF SaveRegistration, AnnulRegistration, ResendTicket
<1>7. CASE SubmitOnsite \/ PreviewFile \/ CommitImport
  <2>1. PICK o, a : /\ o \in {"onsiteRegistration", "previewExcel", "commitExcel"}
                    /\ Ask(o, a) /\ (o = "previewExcel" => a.file \in Files)
    <3>1. CASE SubmitOnsite
      BY <3>1 DEF SubmitOnsite
    <3>2. CASE PreviewFile
      <4>1. PICK a : a = [mount |-> regView.sub.mount, file |-> regView.sub.file]
        OBVIOUS
      <4>2. a.file \in Files
        BY <3>2, <4>1 DEF PreviewFile, ViewT, SubT
      <4> QED
        BY <3>2, <4>1, <4>2 DEF PreviewFile
    <3>3. CASE CommitImport
      BY <3>3 DEF CommitImport
    <3> QED
      BY <1>7, <3>1, <3>2, <3>3
  <2>2. SentT(o, a) /\ o \in RegOps
    BY <2>1 DEF SentT, RegOps
  <2>3. TypedCalls'
    BY <2>1, <2>2, RegAskT
  <2> QED
    BY <1>7, <2>3, BusyT DEF SubmitOnsite, PreviewFile, CommitImport
<1>8. CASE OpenExcel
  <2>1. PICK v : v = [regView EXCEPT !.excel = TRUE] /\ regView' = Render(v)
    BY <1>8 DEF OpenExcel
  <2>2. ViewT(v) /\ v.sub = regView.sub
    BY <2>1 DEF ViewT, ViewFields
  <2>3. ViewT(regView') /\ FormT(regView')
    BY <2>1, <2>2, RenderT
  <2> QED
    BY <1>2, <1>8, <2>3, RegDbSame DEF OpenExcel, shell, ViewT, FormT, SubT
<1>9. CASE Decide
  <2>1. ViewT(regView)' /\ FormT(regView)'
    BY <1>9 DEF Decide, ViewT, FormT, ViewFields, SubT, SubFields
  <2> QED
    BY <1>2, <1>9, <2>1, RegDbSame DEF Decide, shell
<1>10. ASSUME NEW f \in Filters, ApplyFilter(f)
       PROVE  TypedCalls' /\ RegTypes'
  <2>1. ViewT(regView)' /\ FormT(regView)'
    BY <1>10 DEF ApplyFilter, ViewT, FormT, ViewFields, SubT
  <2> QED
    BY <1>1, <1>10, <2>1, RegDbSame DEF ApplyFilter
<1>11. ASSUME NEW r \in Regs, OpenRegistration(r)
       PROVE  TypedCalls' /\ RegTypes'
  <2>1. PICK a : a = [reg |-> r, mount |-> 0]
    OBVIOUS
  <2>2. SentT("registration", a)
    BY <2>1 DEF SentT
  <2>3. TypedCalls'
    BY <1>11, <2>1, <2>2, RegAskT DEF OpenRegistration, RegOps
  <2> QED
    BY <1>11, <2>3, RegDbSame, ViewSame DEF OpenRegistration, regVars
<1>12. ASSUME NEW f \in Files, ChooseFile(f)
       PROVE  TypedCalls' /\ RegTypes'
  <2>1. ViewT(regView)' /\ FormT(regView)'
    BY <1>12 DEF ChooseFile, ViewT, FormT, ViewFields, SubT, SubFields
  <2> QED
    BY <1>2, <1>12, <2>1, RegDbSame DEF ChooseFile, shell
<1>13. ASSUME NEW c \in Cases, ResolveCase(c)
       PROVE  TypedCalls' /\ RegTypes'
  <2>1. TypedCalls'
    BY <1>13, RegAskT DEF ResolveCase, SentT, RegOps
  <2> QED
    BY <1>13, <2>1, BusyT DEF ResolveCase
<1> QED
  BY <1>3, <1>4, <1>5, <1>6, <1>7, <1>8, <1>9, <1>10, <1>11, <1>12, <1>13 DEF RegClicks

LEMMA OtherRegistrarT ==
  ASSUME TypedCalls, RegTypes, OtherRegistrar
  PROVE  TypedCalls' /\ RegTypes'
<1>1. ASSUME NEW r \in Regs, calls' = Append(calls, OthersCall("annulRegistration", [reg |-> r]))
      PROVE  TypedCalls'
  <2>1. PICK a : a = [reg |-> r]
    OBVIOUS
  <2>2. SentT("annulRegistration", a) /\ "annulRegistration" \in AllOps
    BY <2>1 DEF SentT, AllOps, RegOps
  <2> QED
    BY <1>1, <2>1, <2>2, TypedAsk DEF OtherRegistrar, Asked
<1>2. ASSUME NEW c \in Cases, calls' = Append(calls, OthersCall("resolveCase", [case |-> c]))
      PROVE  TypedCalls'
  <2>1. \A a : SentT("resolveCase", a) /\ "resolveCase" \in AllOps
    BY DEF SentT, AllOps, RegOps
  <2> QED
    BY <1>2, <2>1, TypedAsk DEF OtherRegistrar, Asked
<1> QED
  BY <1>1, <1>2, RegDbSame, ViewSame DEF OtherRegistrar, RegTypes, regVars

LEMMA RegReceiveT ==
  ASSUME TypedCalls, RegTypes, NEW i \in DOMAIN calls, RegReceives(i)
  PROVE  TypedCalls' /\ RegTypes'
<1> USE DEF RegTypes
<1>1. Take(i) => TypedCalls'
  BY TypedTake DEF Take, AskedNone
<1>2. ASSUME NEW o \in RegOps, NEW a, TakeAndAsk(i, o, a), SentT(o, a)
      PROVE  TypedCalls'
  BY <1>2, TypedGoOn DEF TakeAndAsk, Asked, AllOps
<1>3. CASE ShowList(i)
  <2>1. calls[i].data \subseteq RegRow
    BY <1>3, ReplyIsTyped DEF ShowList, ReplyT
  <2>2. ViewT(regView)' /\ FormT(regView)'
    BY <1>3, <2>1 DEF ShowList, ViewT, FormT, ViewFields, SubT
  <2> QED
    BY <1>1, <1>3, <2>2, RegDbSame DEF ShowList
<1>4. CASE ShowRegistration(i)
  <2>1. calls[i].data \in RegRow
    BY <1>4, ReplyIsTyped DEF ShowRegistration, ReplyT
  <2>2. PICK v : v = [regView EXCEPT !.selected = calls[i].data]
    OBVIOUS
  <2>3. ViewT(v) /\ v.sub = regView.sub
    BY <2>1, <2>2 DEF ViewT, ViewFields
  <2>4. ViewT(regView') /\ FormT(regView')
    BY <1>4, <2>2, <2>3, RenderT, StillT DEF ShowRegistration
  <2> QED
    BY <1>1, <1>4, <2>4, RegDbSame DEF ShowRegistration, ViewT, FormT, SubT
<1>5. CASE ListHears(i)
  BY <1>1, <1>5, RegDbSame, ViewSame DEF ListHears, regVars
<1>6. CASE Annulled(i)
  <2>1. calls[i].arg.reg \in Regs
    BY <1>6, ReplyIsTyped DEF Annulled, SentT
  <2>2. TypedCalls'
    BY <1>2, <1>6, <2>1 DEF Annulled, SentT, RegOps
  <2> QED
    BY <1>6, <2>2, RegDbSame, ViewSame DEF Annulled, regVars
<1>7. CASE SubFails(i)
  <2>1. ViewT(regView') /\ FormT(regView')
    BY <1>7, StillT DEF SubFails
  <2> QED
    BY <1>1, <1>7, <2>1, RegDbSame DEF SubFails, ViewT, FormT, SubT
<1>8. CASE SubSent(i) \/ ShowImportPreview(i)
  <2>1. PICK n, x, d, b :
          regView' \in {regView, [regView EXCEPT !.sub.sent = n, !.sub.busy = b],
                        [regView EXCEPT !.sub.preview = x, !.sub.decided = d, !.sub.busy = b]}
    BY <1>8 DEF SubSent, ShowImportPreview
  <2>2. ViewT(regView') /\ FormT(regView')
    <3>1. CASE regView' = regView
      BY <3>1
    <3>2. CASE regView' = [regView EXCEPT !.sub.sent = n, !.sub.busy = b]
      BY <3>2 DEF ViewT, FormT, ViewFields, SubT, SubFields
    <3>3. CASE regView' = [regView EXCEPT !.sub.preview = x, !.sub.decided = d, !.sub.busy = b]
      BY <3>3 DEF ViewT, FormT, ViewFields, SubT, SubFields
    <3> QED
      BY <2>1, <3>1, <3>2, <3>3
  <2> QED
    BY <1>1, <1>8, <2>2, RegDbSame DEF SubSent, ShowImportPreview, ViewT, FormT, SubT
<1>9. CASE ShowOnsite(i)
  <2>1. PICK v : v = [regView EXCEPT !.onsite = TRUE] /\ regView' = Render(v)
    BY <1>9 DEF ShowOnsite
  <2>2. ViewT(v) /\ v.sub = regView.sub
    BY <2>1 DEF ViewT, ViewFields
  <2>3. ViewT(regView') /\ FormT(regView')
    BY <2>1, <2>2, RenderT
  <2> QED
    BY <1>1, <1>9, <2>3, RegDbSame DEF ShowOnsite, ViewT, FormT, SubT
<1>10. CASE ShowImported(i)
  <2>1. ViewT(regView)' /\ FormT(regView)'
    BY <1>10 DEF ShowImported, ViewT, FormT, ViewFields, SubT, SubFields
  <2>2. TypedCalls'
    BY <1>2, <1>10 DEF ShowImported, SentT, RegOps
  <2> QED
    BY <1>10, <2>1, <2>2, RegDbSame DEF ShowImported
<1>11. CASE CaseResolved(i)
  <2>1. TypedCalls'
    BY <1>2, <1>11 DEF CaseResolved, SentT, RegOps
  <2> QED
    BY <1>11, <2>1, RegDbSame, ViewSame DEF CaseResolved, regVars
<1>12. CASE ShowCases(i)
  <2>1. calls[i].ok => calls[i].data \subseteq Cases
    BY <1>12, ReplyIsTyped DEF ShowCases, ReplyT, Failed
  <2>2. PICK c, b : /\ c \subseteq Cases
                    /\ regView' = regView \/ regView' = [regView EXCEPT !.sub.cases = c, !.sub.busy = b]
    <3>1. regView.sub.cases \subseteq Cases
      BY DEF ViewT, SubT
    <3>2. PICK c : c = IF calls[i].ok THEN calls[i].data ELSE regView.sub.cases
      OBVIOUS
    <3>3. c \subseteq Cases
      BY <2>1, <3>1, <3>2
    <3> QED
      BY <1>12, <3>2, <3>3 DEF ShowCases
  <2>3. ASSUME regView' = [regView EXCEPT !.sub.cases = c, !.sub.busy = b]
        PROVE  ViewT(regView)' /\ FormT(regView)'
    <3>1. PICK s : s = [regView.sub EXCEPT !.cases = c, !.busy = b]
      OBVIOUS
    <3>2. SubT(s) /\ s.form = regView.sub.form
      BY <2>2, <3>1 DEF ViewT, SubT, SubFields
    <3>3. regView' = [regView EXCEPT !.sub = s]
      BY <2>3, <3>1 DEF ViewT, ViewFields
    <3> QED
      BY <3>2, <3>3 DEF ViewT, FormT, ViewFields
  <2>4. ViewT(regView)' /\ FormT(regView)'
    BY <2>2, <2>3, ViewSame
  <2> QED
    BY <1>1, <1>12, <2>4, RegDbSame DEF ShowCases
<1> QED
  BY <1>3, <1>4, <1>5, <1>6, <1>7, <1>8, <1>9, <1>10, <1>11, <1>12 DEF RegReceives

LEMMA RegServeT ==
  ASSUME TypedCalls, RegTypes, NEW i \in DOMAIN calls, RegServes(i)
  PROVE  TypedCalls' /\ RegTypes'
<1> USE DEF RegTypes
<1>1. UNCHANGED page /\ ViewT(regView)' /\ FormT(regView)'
  BY ViewSame DEF RegServes, ServeReads, ServeCard, ServeTickets, ServeOnsite, ServeImport,
     ServeCase, regVars
<1>2. \A r \in Regs : Row(r) \in RegRow
  BY DEF Row, RegRow, RegDbT
<1>3. \A o \in RegOps \ {"registrations", "registration", "updateRegistration", "cases"} : \A d : ReplyT(o, d)
  BY DEF RegOps, ReplyT, PersonReplies, Sess, EventReplies, ReviewReplies
<1>4. ASSUME NEW o, Waits(i, o), Refuses(i)
      PROVE  TypedCalls' /\ RegTypes'
  BY <1>1, <1>4, RefusedT, RegDbSame DEF Refuses, AskedNone
<1>5. ASSUME NEW o, Waits(i, o), NEW d, ReplyT(o, d), Done(i, d)
      PROVE  TypedCalls'
  BY <1>1, <1>5, DoneT DEF AskedNone
<1>6. CASE ServeReads(i)
  <2>1. ReplyT("registrations", Listed(calls[i].arg))
    <3>1. Listed(calls[i].arg) \subseteq RegRow
      BY <1>2 DEF Listed
    <3> QED
      BY <3>1 DEF ReplyT, PersonReplies, Sess, EventReplies, ReviewReplies
  <2>2. Waits(i, "registration") => ReplyT("registration", Row(calls[i].arg.reg))
    <3>1. Waits(i, "registration") => calls[i].arg.reg \in Regs
      BY ReadyT DEF SentT
    <3> QED
      BY <1>2, <3>1 DEF ReplyT, PersonReplies, Sess, EventReplies, ReviewReplies
  <2>3. ReplyT("cases", regDb.cases) /\ ReplyT("formFields", Null)
    BY DEF RegDbT, ReplyT, PersonReplies, Sess, EventReplies, ReviewReplies
  <2>4. TypedCalls'
    BY <1>5, <1>6, <2>1, <2>2, <2>3 DEF ServeReads
  <2> QED
    BY <1>1, <1>6, <2>4, RegDbSame DEF ServeReads, regVars
<1>7. CASE ServeCard(i)
  <2>1. PICK r, m, o : /\ r = calls[i].arg.reg /\ m = calls[i].arg.more
                       /\ o \in {"updateRegistration", "annulRegistration", "resendTicket"}
                       /\ Waits(i, o)
    BY <1>7 DEF ServeCard
  <2>2. calls[i].op = o
    BY <2>1 DEF Waits
  <2>3. r \in Regs /\ (o = "updateRegistration" => m \in Regs)
    BY <2>1, ReadyT DEF SentT
  <2>4. CASE Refuses(i)
    BY <1>4, <2>1, <2>4
  <2>5. CASE o = "updateRegistration" /\ Changes(i, [regDb EXCEPT !.data[r] = m], Row(r))
    <3>1. ReplyT(o, Row(r))
      BY <1>2, <2>3, <2>5 DEF ReplyT, PersonReplies, Sess, EventReplies, ReviewReplies
    <3>2. RegDbT'
      BY <2>3, <2>5 DEF Changes, RegDbT, RegTables
    <3> QED
      BY <1>1, <1>5, <2>1, <2>5, <3>1, <3>2 DEF Changes
  <2>6. CASE o = "annulRegistration" /\ Changes(i, [regDb EXCEPT !.state[r] = "ANNULLED"], Null)
    <3>1. RegDbT'
      BY <2>3, <2>6 DEF Changes, RegDbT, RegTables, RegStates
    <3> QED
      BY <1>1, <1>3, <1>5, <2>1, <2>6, <3>1 DEF Changes, RegOps
  <2>7. CASE o = "resendTicket" /\ Changes(i, regDb, Null)
    BY <1>1, <1>3, <1>5, <2>1, <2>7, RegDbSame DEF Changes, RegOps
  <2>8. CASE o = "resendTicket" /\ Changes(i, [regDb EXCEPT !.tickets = @ \cup {[reg |-> r, ask |-> m]}], Null)
    <3>1. RegDbT'
      BY <2>3, <2>8 DEF Changes, RegDbT, RegTables
    <3> QED
      BY <1>1, <1>3, <1>5, <2>1, <2>8, <3>1 DEF Changes, RegOps
  <2> QED
    BY <1>7, <2>1, <2>2, <2>4, <2>5, <2>6, <2>7, <2>8 DEF ServeCard
<1>8. CASE ServeTickets(i)
  <2>1. PICK s : /\ s = {[reg |-> r, ask |-> [mount |-> 0, nr |-> i]] :
                           r \in {q \in Regs : regDb.state[q] = "ACTIVE"}}
                 /\ Changes(i, [regDb EXCEPT !.tickets = @ \cup s], Null)
    BY <1>8 DEF ServeTickets
  <2>3. \A t \in s : t.reg \in Regs
    BY <2>1
  <2>2. RegDbT'
    BY <2>1, <2>3 DEF Changes, RegDbT, RegTables
  <2> QED
    BY <1>1, <1>3, <1>5, <1>8, <2>1, <2>2 DEF ServeTickets, Changes, RegOps
<1>9. CASE ServeOnsite(i)
  <2>1. CASE Refuses(i)
    BY <1>4, <1>9, <2>1 DEF ServeOnsite
  <2>2. CASE Changes(i, regDb, Null)
    BY <1>1, <1>3, <1>5, <1>9, <2>2, RegDbSame DEF ServeOnsite, Changes, RegOps
  <2>3. ASSUME NEW r \in Regs, NEW ask,
               Changes(i, [regDb EXCEPT !.state[r] = "ACTIVE", !.data[r] = r,
                                        !.receipts = @ \cup {[ask |-> ask, reg |-> r]}], Null)
        PROVE  TypedCalls' /\ RegTypes'
    <3>1. RegDbT'
      BY <2>3 DEF Changes, RegDbT, RegTables, RegStates
    <3> QED
      BY <1>1, <1>3, <1>5, <1>9, <2>3, <3>1 DEF ServeOnsite, Changes, RegOps
  <2> QED
    BY <1>9, <2>1, <2>2, <2>3 DEF ServeOnsite
<1>10. CASE ServeImport(i)
  <2>1. CASE Waits(i, "previewExcel")
    <3>1. calls[i].arg.file \in Files
      BY <2>1, ReadyT DEF SentT
    <3>2. PICK job : job = [id |-> i, file |-> calls[i].arg.file, done |-> FALSE, by |-> Null]
      OBVIOUS
    <3>3. JobT(job) /\ Changes(i, [regDb EXCEPT !.jobs = @ \cup {job}], job)
      BY <1>10, <2>1, <3>1, <3>2 DEF ServeImport, JobT, Waits
    <3>4. RegDbT'
      BY <3>3 DEF Changes, RegDbT, RegTables
    <3> QED
      BY <1>1, <1>3, <1>5, <2>1, <3>3, <3>4 DEF Changes, RegOps
  <2>2. ASSUME Waits(i, "commitExcel"), NEW job \in regDb.jobs, NEW by,
               Changes(i, [regDb EXCEPT !.jobs = (@ \ {job}) \cup
                             {[job EXCEPT !.done = TRUE, !.by = by]}], Null)
        PROVE  TypedCalls' /\ RegTypes'
    <3>1. PICK k : k = [job EXCEPT !.done = TRUE, !.by = by]
      OBVIOUS
    <3>2. JobT(k)
      BY <3>1 DEF JobT, RegDbT
    <3>3. RegDbT'
      BY <2>2, <3>1, <3>2 DEF Changes, RegDbT, RegTables
    <3> QED
      BY <1>1, <1>3, <1>5, <2>2, <3>3 DEF Changes, RegOps
  <2>3. CASE Waits(i, "commitExcel") /\ Refuses(i)
    BY <1>4, <2>3
  <2> QED
    BY <1>10, <2>1, <2>2, <2>3 DEF ServeImport
<1>11. CASE ServeCase(i)
  <2>1. CASE Refuses(i)
    BY <1>4, <1>11, <2>1 DEF ServeCase
  <2>2. ASSUME NEW c, Changes(i, [regDb EXCEPT !.cases = @ \ {c}], Null)
        PROVE  TypedCalls' /\ RegTypes'
    <3>1. RegDbT'
      BY <2>2 DEF Changes, RegDbT, RegTables
    <3> QED
      BY <1>1, <1>3, <1>5, <1>11, <2>2, <3>1 DEF ServeCase, Changes, RegOps
  <2> QED
    BY <1>11, <2>1, <2>2 DEF ServeCase
<1> QED
  BY <1>6, <1>7, <1>8, <1>9, <1>10, <1>11 DEF RegServes

LEMMA RegNextT ==
  ASSUME TypedCalls, RegTypes, RegNext
  PROVE  TypedCalls' /\ RegTypes'
<1>1. ASSUME NEW i \in DOMAIN calls, LoseCall(i), UNCHANGED regVars
      PROVE  TypedCalls' /\ RegTypes'
  BY <1>1, TypedLoss, RegDbSame, ViewSame DEF AskedNone, regVars, RegTypes
<1> QED
  BY <1>1, RegClickT, OtherRegistrarT, RegReceiveT, RegServeT DEF RegNext

LEMMA RegStartT ==
  ASSUME RegStart
  PROVE  RegTypes
<1>1. RegDbT
  BY RegBasics DEF RegStart, RegDbT, RegTables, RegStates
<1>2. PICK s : s = [Sub(1, Null) EXCEPT !.cases = Cases]
  OBVIOUS
<1>3. SubT(s)
  BY <1>2 DEF Sub, SubT, SubFields
<1>4. ViewT(regView) /\ FormT(regView)
  BY <1>2, <1>3, RegBasics DEF RegStart, ViewT, FormT, ViewFields, RegRow, Filters, RegStates
<1> QED
  BY <1>1, <1>4 DEF RegTypes

-----------------------------------------------------------------------------
(* Events. *)
ConsoleFields == {"user", "loading", "rows", "archive"}
EditorFields == {"mount", "event", "busy", "fields", "field", "fieldBusy", "configBusy", "streams",
                 "stream", "waits"}
RowsT ==
  /\ \A e \in Events : eventDb.event[e] \in EventRow \cup {Null}
  /\ \A s \in Streams : eventDb.stream[s] \in StreamRow \cup {Null}
LooseT ==
  /\ DOMAIN eventDb = Tables /\ DOMAIN eventDb.field = Fields
  /\ \A f \in Fields : eventDb.field[f] \in FieldRow \cup {Null}
  /\ eventDb.files \subseteq Nat /\ eventDb.session \in Roles \cup {Null}
ConsoleT(c) ==
  /\ DOMAIN c = ConsoleFields
  /\ c.user \in Roles \cup {Null} /\ c.loading \in BOOLEAN
  /\ c.rows \subseteq Events /\ c.archive \in BOOLEAN
EditorT(x) ==
  /\ DOMAIN x = EditorFields
  /\ x.event \in EventRow \cup {Null} /\ x.busy \in BOOLEAN /\ x.waits \subseteq Nat
ScreenT == ConsoleT(console) /\ EditorT(editor)
EventTypes == RowsT /\ LooseT /\ ScreenT

LEMMA EventTypesTell == EventTypes => EventTypeOK
BY DEF EventTypes, EventTypeOK, RowsT, LooseT, ScreenT, ConsoleT, EditorT

LEMMA RowsTyped ==
  /\ StreamsInv => RowsT
  /\ StreamsInv' => RowsT'
BY DEF StreamsInv, RowsOK, RowsT, Existing

LEMMA NoEditorT == EditorT(NoOpenEditor)
<1>1. PICK x : x = NoOpenEditor
  OBVIOUS
<1>2. EditorT(x)
  BY <1>1 DEF EditorT, NoOpenEditor, EditorFields
<1> QED
  BY <1>1, <1>2

LEMMA ConsoleSame == ASSUME ConsoleT(console), UNCHANGED console PROVE ConsoleT(console')
OBVIOUS

LEMMA EditorSame == ASSUME EditorT(editor), UNCHANGED editor PROVE EditorT(editor')
OBVIOUS

LEMMA ScreenIsTyped == ASSUME ConsoleT(console'), EditorT(editor') PROVE ScreenT'
BY DEF ScreenT, ConsoleT, EditorT

\* A section of the editor changes what nothing else depends on, or its busy flag.
LEMMA SectionsT ==
  ASSUME EditorT(editor), NEW x, NEW b \in BOOLEAN,
         \/ x = [editor EXCEPT !.busy = b]
         \/ \E v : \/ x = [editor EXCEPT !.configBusy = v]
                   \/ x = [editor EXCEPT !.fieldBusy = v]
                   \/ x = [editor EXCEPT !.field = v]
                   \/ x = [editor EXCEPT !.stream = v]
  PROVE  EditorT(x)
BY DEF EditorT, EditorFields

LEMMA EventAskT ==
  ASSUME TypedCalls, UNCHANGED page, NEW o \in EventOps, NEW a, o = "login" => a \in Roles,
         \/ calls' = Append(calls, Call(o, a)) \/ calls' = Append(calls, OthersCall(o, a))
         \/ \E i \in DOMAIN calls : calls' = Append(Over(i), Call(o, a))
  PROVE  TypedCalls'
<1>1. SentT(o, a)
  BY DEF SentT, EventOps
<1>2. o \in AllOps
  BY DEF AllOps
<1> QED
  BY <1>1, <1>2, TypedAsk, TypedGoOn DEF Asked

LEMMA SettingsT ==
  ASSUME TypedCalls, ScreenT, NEW o \in EventOps, o # "login", NEW e, NEW m, Settings(o, e, m)
  PROVE  TypedCalls' /\ ScreenT'
<1>1. TypedCalls'
  BY EventAskT DEF Settings, Ask
<1>2. EditorT(editor')
  BY SectionsT DEF Settings, ScreenT
<1> QED
  BY <1>1, <1>2, ConsoleSame, ScreenIsTyped DEF Settings, ScreenT

LEMMA FieldCallT ==
  ASSUME TypedCalls, ScreenT, NEW o \in {"saveField", "deactivateField"}, NEW f, FieldCall(o, f)
  PROVE  TypedCalls' /\ ScreenT'
<1>1. TypedCalls'
  BY EventAskT DEF FieldCall, Ask, EventOps
<1>2. EditorT(editor')
  BY SectionsT DEF FieldCall, ScreenT
<1> QED
  BY <1>1, <1>2, ConsoleSame, ScreenIsTyped DEF FieldCall, ScreenT

LEMMA EventClickT ==
  ASSUME TypedCalls, RowsT, ScreenT, EventClicks
  PROVE  TypedCalls' /\ ScreenT'
<1>1. UNCHANGED <<page, calls>> => TypedCalls'
  BY TypedRest DEF AskedNone
<1>2. ASSUME Logout PROVE TypedCalls' /\ ScreenT'
  <2>1. TypedCalls'
    BY <1>2, EventAskT DEF Logout, Ask, EventOps
  <2>2. ConsoleT(console') /\ EditorT(editor')
    BY <1>2, NoEditorT DEF Logout, ScreenT, ConsoleT, ConsoleFields
  <2> QED
    BY <2>1, <2>2, ScreenIsTyped
<1>3. ASSUME ToggleArchive PROVE TypedCalls' /\ ScreenT'
  <2>1. TypedCalls'
    BY <1>3, EventAskT DEF ToggleArchive, Ask, EventOps
  <2>2. ConsoleT(console')
    BY <1>3 DEF ToggleArchive, ScreenT, ConsoleT, ConsoleFields
  <2> QED
    BY <1>3, <2>1, <2>2, EditorSame, ScreenIsTyped DEF ToggleArchive, ScreenT
<1>4. ASSUME CloseEventEditor PROVE TypedCalls' /\ ScreenT'
  <2>1. TypedCalls'
    BY <1>4, EventAskT DEF CloseEventEditor, Ask, EventOps
  <2>2. ConsoleT(console') /\ EditorT(editor')
    BY <1>4, NoEditorT, ConsoleSame DEF CloseEventEditor, ScreenT
  <2> QED
    BY <2>1, <2>2, ScreenIsTyped
<1>5. ASSUME CompleteEvent \/ DeleteCover \/ Archive \/ Purge PROVE TypedCalls' /\ ScreenT'
  BY <1>5, SettingsT DEF CompleteEvent, DeleteCover, Archive, Purge, EventOps
<1>6. ASSUME SaveConfig PROVE TypedCalls' /\ ScreenT'
  <2>1. TypedCalls'
    BY <1>6, EventAskT DEF SaveConfig, Ask, EventOps
  <2>2. EditorT(editor')
    BY <1>6, SectionsT DEF SaveConfig, ScreenT
  <2> QED
    BY <1>6, <2>1, <2>2, ConsoleSame, ScreenIsTyped DEF SaveConfig, ScreenT
<1>7. ASSUME \/ CloseFieldForm \/ \E f \in Fields : OpenFieldForm(f)
             \/ \E s \in Streams \cup {Null} : EditStream(s)
      PROVE  TypedCalls' /\ ScreenT'
  <2>1. UNCHANGED <<shell, console>>
    BY <1>7 DEF CloseFieldForm, OpenFieldForm, EditStream
  <2>2. EditorT(editor')
    BY <1>7, SectionsT DEF CloseFieldForm, OpenFieldForm, EditStream, ScreenT
  <2> QED
    BY <1>1, <2>1, <2>2, ConsoleSame, ScreenIsTyped DEF shell, ScreenT
<1>8. ASSUME SaveField \/ \E f \in Fields : DeactivateField(f) PROVE TypedCalls' /\ ScreenT'
  BY <1>8, FieldCallT DEF SaveField, DeactivateField
<1>9. ASSUME NEW role \in Roles, Login(role) PROVE TypedCalls' /\ ScreenT'
  <2>1. TypedCalls'
    BY <1>9, EventAskT DEF Login, Ask, EventOps
  <2>2. ConsoleT(console')
    BY <1>9 DEF Login, ScreenT, ConsoleT, ConsoleFields
  <2> QED
    BY <1>9, <2>1, <2>2, EditorSame, ScreenIsTyped DEF Login, ScreenT
<1>10. ASSUME NEW e \in Events \cup {Null}, OpenEditor(e) PROVE TypedCalls' /\ ScreenT'
  <2>1. PICK r : r = IF e = Null THEN Null ELSE eventDb.event[e]
    OBVIOUS
  <2>2. r \in EventRow \cup {Null}
    BY <2>1 DEF RowsT
  <2>3. PICK m, ss, ff : editor' = [NoOpenEditor EXCEPT !.mount = m, !.event = r, !.streams = ss, !.fields = ff]
    BY <1>10, <2>1 DEF OpenEditor
  <2>4. EditorT(editor')
    BY <2>2, <2>3 DEF EditorT, NoOpenEditor, EditorFields
  <2> QED
    BY <1>1, <1>10, <2>4, ConsoleSame, ScreenIsTyped DEF OpenEditor, shell, ScreenT
<1>11. ASSUME NEW e, NEW st, NEW h, NEW n, NEW c, SaveEvent(e, st, h, n, c)
       PROVE  TypedCalls' /\ ScreenT'
  <2>1. PICK f, o : o \in {"createEvent", "updateEvent"} /\ Settings(o, e, f)
    BY <1>11 DEF SaveEvent
  <2> QED
    BY <2>1, SettingsT DEF EventOps
<1>12. ASSUME NEW s, NEW h, NEW n, SaveStream(s, h, n) PROVE TypedCalls' /\ ScreenT'
  <2>1. TypedCalls'
    BY <1>12, EventAskT DEF SaveStream, Ask, EventOps
  <2>2. Len(calls') \in Nat
    BY <2>1, CallsLen DEF TypedCalls, CallsTyped
  <2>3. EditorT(editor')
    BY <1>12, <2>2 DEF SaveStream, ScreenT, EditorT, EditorFields
  <2> QED
    BY <1>12, <2>1, <2>3, ConsoleSame, ScreenIsTyped DEF SaveStream, ScreenT
<1> QED
  BY <1>2, <1>3, <1>4, <1>5, <1>6, <1>7, <1>8, <1>9, <1>10, <1>11, <1>12, Zenon DEF EventClicks

LEMMA OtherEditorT ==
  ASSUME TypedCalls, OtherEditor
  PROVE  TypedCalls'
<1>1. PICK o, a : /\ o \in {"logout", "archive", "deleteCover", "uploadCover", "updateEvent"}
                  /\ calls' = Append(calls, OthersCall(o, a))
  <2>1. CASE calls' = Append(calls, OthersCall("logout", Null))
    BY <2>1
  <2>2. ASSUME NEW e, NEW o \in {"archive", "deleteCover", "uploadCover"},
               calls' = Append(calls, OthersCall(o, [id |-> e]))
        PROVE  \E q, a : /\ q \in {"logout", "archive", "deleteCover", "uploadCover", "updateEvent"}
                         /\ calls' = Append(calls, OthersCall(q, a))
    BY <2>2
  <2>3. ASSUME NEW e, NEW m, calls' = Append(calls, OthersCall("updateEvent", [id |-> e, more |-> m]))
        PROVE  \E q, a : /\ q \in {"logout", "archive", "deleteCover", "uploadCover", "updateEvent"}
                         /\ calls' = Append(calls, OthersCall(q, a))
    BY <2>3
  <2> QED
    BY <2>1, <2>2, <2>3 DEF OtherEditor
<1> QED
  BY <1>1, EventAskT DEF OtherEditor, EventOps

LEMMA EventReceiveT ==
  ASSUME TypedCalls, ScreenT, NEW i \in DOMAIN calls, EventReceives(i)
  PROVE  TypedCalls' /\ ScreenT'
<1> USE DEF ScreenT
<1>1. Take(i) => TypedCalls'
  BY TypedTake DEF Take, AskedNone
<1>2. ASSUME NEW o \in EventOps, NEW a, TakeAndAsk(i, o, a), o # "login"
      PROVE  TypedCalls'
  BY <1>2, EventAskT DEF TakeAndAsk
<1>3. CASE SessionArrives(i)
  <2>1. PICK o : o \in Sess /\ (Answered(i, o) \/ Failed(i, o))
    BY <1>3 DEF SessionArrives, Sess
  <2>2. calls[i].ok => calls[i].data \in Roles \cup {Null}
    BY <2>1, ReplyIsTyped DEF ReplyT, Failed
  <2>3. ConsoleT(console')
    BY <1>3, <2>2 DEF SessionArrives, ConsoleT, ConsoleFields
  <2> QED
    BY <1>1, <1>3, <2>3, EditorSame, ScreenIsTyped DEF SessionArrives
<1>4. CASE ShowEvents(i)
  <2>1. calls[i].ok => calls[i].data \subseteq Events
    BY <1>4, ReplyIsTyped DEF ShowEvents, ReplyT, Failed
  <2>2. ConsoleT(console')
    BY <1>4, <2>1 DEF ShowEvents, ConsoleT, ConsoleFields
  <2> QED
    BY <1>1, <1>4, <2>2, EditorSame, ScreenIsTyped DEF ShowEvents
<1>5. CASE EventSaved(i)
  <2>1. TypedCalls'
    BY <1>1, <1>2, <1>5 DEF EventSaved, EventOps
  <2>2. calls[i].data \in EventRow \cup {Null}
    BY <1>5, ReplyIsTyped DEF EventSaved, ReplyT, EventReplies
  <2>3. EditorT(editor')
    <3>1. PICK d : d = calls[i].data
      OBVIOUS
    <3>2. \/ UNCHANGED editor
          \/ editor' = [editor EXCEPT !.event = d, !.configBusy = FALSE]
          \/ editor' = [editor EXCEPT !.event = d, !.busy = FALSE]
      BY <1>5, <3>1 DEF EventSaved, Shown
    <3> QED
      BY <2>2, <3>1, <3>2 DEF EditorT, EditorFields
  <2> QED
    BY <1>5, <2>1, <2>3, ConsoleSame, ScreenIsTyped DEF EventSaved
<1>6. CASE Purged(i)
  <2>1. TypedCalls'
    BY <1>2, <1>6 DEF Purged, EventOps
  <2> QED
    BY <1>6, <2>1, NoEditorT, ConsoleSame, ScreenIsTyped DEF Purged
<1>7. CASE SettingsFail(i)
  <2>1. EditorT(editor')
    BY <1>7, SectionsT, EditorSame DEF SettingsFail
  <2> QED
    BY <1>1, <1>7, <2>1, ConsoleSame, ScreenIsTyped DEF SettingsFail
<1>8. CASE FieldChanged(i)
  <2>1. TypedCalls'
    BY <1>2, <1>8 DEF FieldChanged, EventOps
  <2> QED
    BY <1>8, <2>1, ConsoleSame, EditorSame, ScreenIsTyped DEF FieldChanged, eventVars
<1>9. CASE ShowFields(i)
  <2>1. PICK ff, f : editor' \in {editor, [editor EXCEPT !.fields = ff, !.field = f, !.fieldBusy = FALSE]}
    BY <1>9 DEF ShowFields
  <2>2. EditorT(editor')
    BY <2>1 DEF EditorT, EditorFields
  <2> QED
    BY <1>1, <1>9, <2>2, ConsoleSame, ScreenIsTyped DEF ShowFields
<1>10. CASE StreamSaved(i)
  <2>1. Len(calls) \in Nat
    BY CallsLen DEF TypedCalls
  <2>2. TypedCalls'
    <3>1. \A a : SentT("streams", a) /\ SentT("event", a)
      BY DEF SentT
    <3>2. "streams" \in AllOps /\ "event" \in AllOps
      BY DEF AllOps, EventOps
    <3> QED
      BY <1>10, <3>1, <3>2, TypedBoth DEF StreamSaved
  <2>3. EditorT(editor')
    BY <1>10, <2>1 DEF StreamSaved, EditorT, EditorFields
  <2> QED
    BY <1>10, <2>2, <2>3, ConsoleSame, ScreenIsTyped DEF StreamSaved
<1>11. CASE ShowStreams(i)
  <2>1. calls[i].op = "event" => calls[i].data \in EventRow \cup {Null}
    BY <1>11, ReplyIsTyped DEF ShowStreams, ReplyT, EventReplies, Answered
  <2>2. PICK d : d = calls[i].data
    OBVIOUS
  <2>3. \/ editor' = editor
        \/ editor' = [editor EXCEPT !.streams = d, !.waits = @ \ {i}]
        \/ d \in EventRow \cup {Null} /\ editor' = [editor EXCEPT !.event = d, !.waits = @ \ {i}]
    BY <1>11, <2>1, <2>2 DEF ShowStreams, Answered
  <2>4. EditorT(editor')
    BY <2>3 DEF EditorT, EditorFields
  <2> QED
    BY <1>1, <1>11, <2>4, ConsoleSame, ScreenIsTyped DEF ShowStreams
<1>12. CASE StreamsFail(i)
  <2>1. EditorT(editor')
    BY <1>12 DEF StreamsFail, EditorT, EditorFields
  <2> QED
    BY <1>1, <1>12, <2>1, ConsoleSame, ScreenIsTyped DEF StreamsFail
<1> QED
  BY <1>3, <1>4, <1>5, <1>6, <1>7, <1>8, <1>9, <1>10, <1>11, <1>12 DEF EventReceives

\* The reply of a change is the row that was written.
LEMMA RowReplyT ==
  ASSUME RowsT', DbOK, NEW e \in Events, NEW row, eventDb' = [eventDb EXCEPT !.event[e] = row],
         NEW o \in EventReplies
  PROVE  ReplyT(o, row) /\ row \in EventRow \cup {Null}
<1>1. eventDb'.event = [eventDb.event EXCEPT ![e] = row]
  BY DEF DbOK, Tables
<1>2. eventDb'.event[e] = row
  BY <1>1 DEF DbOK
<1>3. row \in EventRow \cup {Null}
  BY <1>2 DEF RowsT
<1> QED
  BY <1>3 DEF ReplyT, EventReplies, PersonReplies, Sess, ReviewReplies

LEMMA LooseStays ==
  ASSUME LooseT, NEW x, NEW y, \/ UNCHANGED eventDb \/ eventDb' = [eventDb EXCEPT !.event[x] = y]
  PROVE  LooseT'
BY DEF LooseT, Tables

LEMMA EventServeT ==
  ASSUME TypedCalls, RowsT, LooseT, DbOK, EventAsksOK, RowsT', NEW i \in DOMAIN calls, EventServes(i)
  PROVE  TypedCalls' /\ LooseT'
<1>1. UNCHANGED page
  BY DEF EventServes, ServeSession, ServeEventReads, ServeCreate, ServeUpdate, StoreCover,
     ServeUpload,
         ServeDeleteCover, ServePurge, RemoveCover, ServeArchive, ServeField, ServeStream
<1>2. ASSUME NEW o, Waits(i, o) \/ IsOpen(i, o), NEW d, ReplyT(o, d), Done(i, d)
      PROVE  TypedCalls'
  BY <1>1, <1>2, DoneT DEF AskedNone
<1>3. ASSUME NEW o, Waits(i, o) \/ IsOpen(i, o), Refused(i) \/ \E d : RefusedAs(i, d)
      PROVE  TypedCalls'
  BY <1>1, <1>3, RefusedT DEF AskedNone
<1>4. ASSUME NEW o, Waits(i, o), EventRefused(i)
      PROVE  TypedCalls' /\ LooseT'
  BY <1>3, <1>4, LooseStays DEF EventRefused
<1>5. ASSUME NEW o, Waits(i, o) \/ IsOpen(i, o), NEW d, OpenT(o, d), Began(i, d)
      PROVE  TypedCalls'
  BY <1>1, <1>5, ReadyT, TypedBegin DEF AskedNone
<1>6. /\ \A o \in EventOps \ ({"events"} \cup Sess \cup EventReplies) : \A d : ReplyT(o, d)
      /\ ReplyT("logout", Null)
  BY DEF EventOps, ReplyT, PersonReplies, Sess, EventReplies, ReviewReplies
<1>7. Existing \subseteq Events
  BY DEF Existing
<1>8. CASE ServeSession(i)
  <2>1. \A o \in {"session", "login"} : \A d \in Roles \cup {Null} : ReplyT(o, d)
    BY DEF ReplyT, PersonReplies, Sess, EventReplies, ReviewReplies
  <2>2. Waits(i, "login") => calls[i].arg \in Roles
    BY ReadyT DEF SentT
  <2>3. eventDb.session \in Roles \cup {Null}
    BY DEF LooseT
  <2>4. TypedCalls'
    BY <1>2, <1>3, <1>6, <1>8, <2>1, <2>2, <2>3 DEF ServeSession
  <2>5. LooseT'
    BY <1>8, <2>2 DEF ServeSession, LooseT, Tables
  <2> QED
    BY <2>4, <2>5
<1>9. CASE ServeEventReads(i)
  <2>1. ReplyT("events", {e \in Existing : calls[i].arg \/ ~Archived(e)})
    BY <1>7 DEF ReplyT, PersonReplies, Sess, EventReplies, ReviewReplies
  <2>2. \A e \in Existing : ReplyT("event", eventDb.event[e])
    BY <1>7 DEF RowsT, ReplyT, PersonReplies, Sess, EventReplies, ReviewReplies
  <2>3. \A d : ReplyT("formFields", d) /\ ReplyT("streams", d)
    BY DEF ReplyT, PersonReplies, Sess, EventReplies, ReviewReplies
  <2>4. TypedCalls'
    <3>1. CASE Waits(i, "events")
      BY <1>2, <1>9, <2>1, <3>1 DEF ServeEventReads, Waits
    <3>2. CASE Waits(i, "event")
      BY <1>2, <1>3, <1>9, <2>2, <3>2 DEF ServeEventReads, Waits
    <3>3. CASE Waits(i, "formFields") \/ Waits(i, "streams")
      BY <1>2, <1>9, <2>3, <3>3 DEF ServeEventReads, Waits
    <3> QED
      BY <1>9, <3>1, <3>2, <3>3 DEF ServeEventReads
  <2> QED
    BY <1>9, <2>4, LooseStays DEF ServeEventReads, eventVars
<1>10. ASSUME NEW o \in EventReplies, Waits(i, o), NEW e \in Events, NEW row, Becomes(i, e, row)
       PROVE  TypedCalls' /\ LooseT'
  BY <1>2, <1>10, RowReplyT, LooseStays DEF Becomes
<1>11. ASSUME NEW o \in EventReplies, Waits(i, o) \/ IsOpen(i, o), NEW e \in Events, NEW c, SetCover(i, e, c)
       PROVE  TypedCalls' /\ LooseT'
  <2>1. PICK row, d : /\ row = [eventDb.event[e] EXCEPT !.cover = c]
                      /\ d = [stage |-> "saved", row |-> row, old |-> eventDb.event[e].cover]
    OBVIOUS
  <2>2. eventDb' = [eventDb EXCEPT !.event[e] = row] /\ Began(i, d)
    BY <1>11, <2>1 DEF SetCover
  <2>3. OpenT(o, d)
    BY <1>11, <2>1, <2>2, RowReplyT DEF OpenT
  <2> QED
    BY <1>5, <1>11, <2>2, <2>3, LooseStays
<1>12. CASE ServeCreate(i)
  <2>1. calls[i].arg.id \in Events
    BY <1>12 DEF ServeCreate, Waits, EventAsksOK, EventAskOK
  <2> QED
    BY <1>4, <1>10, <1>12, <2>1 DEF ServeCreate, EventReplies
<1>13. CASE ServeUpdate(i)
  BY <1>4, <1>7, <1>10, <1>13 DEF ServeUpdate, Changeable, EventReplies
<1>14. CASE StoreCover(i)
  <2>1. i \in Nat
    BY CallsLen DEF TypedCalls
  <2>2. PICK d : d = [stage |-> "stored"] /\ Began(i, d)
    BY <1>14 DEF StoreCover
  <2>3. OpenT("uploadCover", d)
    BY <2>2 DEF OpenT
  <2>4. LooseT'
    BY <1>14, <2>1 DEF StoreCover, LooseT, Tables
  <2> QED
    BY <1>5, <1>14, <2>2, <2>3, <2>4 DEF StoreCover
<1>15. CASE ServeUpload(i)
  <2>1. CASE Changeable(calls[i].arg.id) /\ SetCover(i, calls[i].arg.id, i)
    BY <1>7, <1>11, <1>15, <2>1 DEF ServeUpload, Changeable, EventReplies
  <2>2. CASE eventDb' = [eventDb EXCEPT !.files = eventDb.files \ {i}] /\ Refused(i)
    <3>1. LooseT'
      BY <2>2 DEF LooseT, Tables
    <3> QED
      BY <1>3, <1>15, <2>2, <3>1 DEF ServeUpload
  <2> QED
    BY <1>15, <2>1, <2>2 DEF ServeUpload
<1>16. CASE ServeDeleteCover(i)
  BY <1>4, <1>7, <1>11, <1>16 DEF ServeDeleteCover, Changeable, EventReplies
<1>17. CASE ServePurge(i)
  <2>1. CASE EventRefused(i)
    BY <1>4, <1>17, <2>1 DEF ServePurge
  <2>2. CASE ~EventRefused(i)
    <3>1. PICK d : /\ \E x : d = [stage |-> "saved", row |-> Null, old |-> x]
                   /\ Began(i, d)
      BY <1>17, <2>2 DEF ServePurge
    <3>2. OpenT("purge", d)
      BY <3>1 DEF OpenT
    <3>3. PICK e, ss, ff :
            /\ eventDb' = [eventDb EXCEPT !.event[e] = Null, !.stream = ss, !.field = ff]
            /\ ff = [f \in Fields |-> IF f \in FieldsOf(e) THEN Null ELSE eventDb.field[f]]
      BY <1>17, <2>2 DEF ServePurge
    <3>4. LooseT'
      BY <3>3 DEF LooseT, Tables
    <3> QED
      BY <1>5, <1>17, <3>1, <3>2, <3>4 DEF ServePurge
  <2> QED
    BY <2>1, <2>2
<1>18. CASE RemoveCover(i)
  <2>1. PICK o : o \in {"uploadCover", "deleteCover", "purge"} /\ IsOpen(i, o)
    BY <1>18 DEF RemoveCover
  <2>2. o # "purge" => calls[i].data.row \in EventRow \cup {Null}
    BY <1>18, <2>1 DEF RemoveCover, IsOpen, TypedCalls, CallT, OpenT, EventReplies
  <2>3. ReplyT(o, calls[i].data.row)
    BY <2>1, <2>2 DEF ReplyT, PersonReplies, Sess, EventReplies, ReviewReplies
  <2>4. LooseT'
    BY <1>18 DEF RemoveCover, LooseT, Tables
  <2> QED
    BY <1>2, <1>18, <2>1, <2>3, <2>4 DEF RemoveCover
<1>19. CASE ServeArchive(i)
  <2>1. CASE Becomes(i, calls[i].arg.id, [eventDb.event[calls[i].arg.id] EXCEPT !.status = "ARCHIVED"])
             /\ Changeable(calls[i].arg.id)
    BY <1>7, <1>10, <1>19, <2>1 DEF ServeArchive, Changeable, EventReplies
  <2>2. CASE UNCHANGED eventDb /\ Done(i, eventDb.event[calls[i].arg.id]) /\ calls[i].arg.id \in Existing
    <3>1. ReplyT("archive", eventDb.event[calls[i].arg.id])
      BY <1>7, <2>2 DEF RowsT, ReplyT, PersonReplies, Sess, EventReplies, ReviewReplies
    <3> QED
      BY <1>2, <1>19, <2>2, <3>1, LooseStays DEF ServeArchive
  <2>3. CASE EventRefused(i)
    BY <1>4, <1>19, <2>3 DEF ServeArchive
  <2> QED
    BY <1>19, <2>1, <2>2, <2>3 DEF ServeArchive
<1>20. CASE ServeField(i)
  <2>1. PICK e, f, b : /\ e = calls[i].arg.id /\ f = calls[i].arg.field
                       /\ b = /\ Waits(i, "saveField") /\ calls[i].arg.isNew
    OBVIOUS
  <2>2. CASE EventRefused(i)
    BY <1>4, <1>20, <2>2 DEF ServeField
  <2>3. ASSUME NEW k \in BOOLEAN, Changeable(e), Done(i, Null),
               eventDb' = [eventDb EXCEPT !.field[f] = [event |-> e, active |-> k]]
        PROVE  TypedCalls' /\ LooseT'
    <3>1. PICK r : r = [event |-> e, active |-> k]
      OBVIOUS
    <3>2. r \in FieldRow
      BY <1>7, <2>3, <3>1 DEF FieldRow, Changeable
    <3>3. eventDb'.field = [eventDb.field EXCEPT ![f] = r]
      BY <2>3, <3>1 DEF LooseT, Tables
    <3>4. LooseT'
      BY <2>3, <3>2, <3>3 DEF LooseT, Tables
    <3>5. TypedCalls'
      BY <1>2, <1>6, <1>20, <2>3 DEF ServeField, EventOps, Sess, EventReplies
    <3> QED
      BY <3>4, <3>5
  <2>4. PICK k : k = (b \/ (Waits(i, "saveField") /\ ~b /\ eventDb.field[f].active))
    OBVIOUS
  <2>5. k \in BOOLEAN
    BY <2>4
  <2>6. ~EventRefused(i) => /\ Changeable(e) /\ Done(i, Null)
                            /\ eventDb' = [eventDb EXCEPT !.field[f] = [event |-> e, active |-> k]]
    BY <1>20, <2>1, <2>4 DEF ServeField
  <2> QED
    BY <2>2, <2>3, <2>5, <2>6
<1>21. CASE ServeStream(i)
  <2>1. CASE EventRefused(i)
    BY <1>4, <1>21, <2>1 DEF ServeStream
  <2>2. CASE ~EventRefused(i)
    <3>1. Done(i, Null)
      BY <1>21, <2>2 DEF ServeStream
    <3>2. PICK s, new, e, row : eventDb' = [eventDb EXCEPT !.stream[s] = new, !.event[e] = row]
      BY <1>21, <2>2 DEF ServeStream
    <3>3. LooseT'
      BY <3>2 DEF LooseT, Tables
    <3>4. TypedCalls'
      BY <1>2, <1>6, <1>21, <3>1 DEF ServeStream, EventOps, Sess, EventReplies
    <3> QED
      BY <3>3, <3>4
  <2> QED
    BY <2>1, <2>2
<1> QED
  BY <1>8, <1>9, <1>12, <1>13, <1>14, <1>15, <1>16, <1>17, <1>18, <1>19, <1>20, <1>21, Zenon
     DEF EventServes

LEMMA EventNextT ==
  ASSUME TypedCalls, EventTypes, EventInv, StreamsInv, StreamsInv', EventNext
  PROVE  TypedCalls' /\ EventTypes'
<1>1. RowsT' /\ RowsT /\ LooseT /\ ScreenT /\ DbOK /\ EventAsksOK
  BY RowsTyped DEF EventTypes, EventInv, StreamsInv
<1>2. ASSUME UNCHANGED <<console, editor>> PROVE ScreenT'
  BY <1>1, <1>2, ConsoleSame, EditorSame, ScreenIsTyped DEF ScreenT
<1>3. UNCHANGED eventDb => LooseT'
  BY <1>1, LooseStays
<1>4. ASSUME EventClicks PROVE TypedCalls' /\ LooseT' /\ ScreenT'
  BY <1>1, <1>3, <1>4, EventClickT, ClicksChangeNothing
<1>5. ASSUME OtherEditor PROVE TypedCalls' /\ LooseT' /\ ScreenT'
  BY <1>2, <1>3, <1>5, OtherEditorT DEF OtherEditor, eventVars
<1>6. ASSUME NEW i \in DOMAIN calls, EventReceives(i) PROVE TypedCalls' /\ LooseT' /\ ScreenT'
  BY <1>1, <1>3, <1>6, EventReceiveT, ReceivedChangesNothing
<1>7. ASSUME NEW i \in DOMAIN calls, EventServes(i) PROVE TypedCalls' /\ LooseT' /\ ScreenT'
  <2>1. UNCHANGED <<console, editor>>
    BY <1>7 DEF EventServes, ServeSession, ServeEventReads, ServeCreate, ServeUpdate, StoreCover,
         ServeUpload, ServeDeleteCover, ServePurge, RemoveCover, ServeArchive, ServeField, ServeStream,
         eventVars
  <2> QED
    BY <1>1, <1>2, <1>7, <2>1, EventServeT
<1>8. ASSUME NEW i \in DOMAIN calls, LoseCall(i), UNCHANGED eventVars
      PROVE  TypedCalls' /\ LooseT' /\ ScreenT'
  BY <1>2, <1>3, <1>8, TypedLoss DEF AskedNone, eventVars
<1> QED
  BY <1>1, <1>4, <1>5, <1>6, <1>7, <1>8, Zenon DEF EventNext, EventTypes

LEMMA EventStartT ==
  ASSUME EventStart
  PROVE  EventTypes
<1>1. RowsT
  BY StreamsAtFirst DEF RowsOK, RowsT, Existing
<1>2. LooseT
  BY DEF EventStart, LooseT, Tables, Roles
<1>3. ConsoleT(console)
  BY EventBasics DEF EventStart, NoConsole, ConsoleT, ConsoleFields, Roles
<1> QED
  BY <1>1, <1>2, <1>3, NoEditorT DEF EventStart, EventTypes, ScreenT

-----------------------------------------------------------------------------
(* The review. *)
\* The page's own approvals that may still be shown.
Approving(c) == c.op = "approve" /\ c.phase # "over" /\ (c.phase = "done" \/ c.by = "page")
ApproveStays(j) ==
  j \in DOMAIN calls /\ Approving(calls[j]) /\ calls'[j].arg = calls[j].arg
NoneApproves == \A j \in DOMAIN calls' : Approving(calls'[j]) => ApproveStays(j)
OneApproves(o, a) ==
  \A j \in DOMAIN calls' : Approving(calls'[j]) =>
    ApproveStays(j) \/ (o = "approve" /\ calls'[j].by = "page" /\ calls'[j].arg = a)

LEMMA ApproveAsk ==
  ASSUME CallsTyped, NEW o, NEW a, calls' = Append(calls, Call(o, a))
  PROVE  OneApproves(o, a)
<1>1. PICK c : c = Call(o, a)
  OBVIOUS
<1>2. c.op = o /\ c.arg = a /\ c.by = "page"
  BY <1>1 DEF Call, CallOf
<1>3. /\ DOMAIN calls' = DOMAIN calls \cup {Len(calls) + 1}
      /\ calls'[Len(calls) + 1] = c
      /\ \A j \in DOMAIN calls : calls'[j] = calls[j]
  BY <1>1, Appended
<1> QED
  BY <1>2, <1>3 DEF OneApproves, ApproveStays, Approving

LEMMA OthersApprove ==
  ASSUME CallsTyped, NEW o, NEW a, calls' = Append(calls, OthersCall(o, a))
  PROVE  NoneApproves
<1>1. PICK c : c = OthersCall(o, a)
  OBVIOUS
<1>2. c.by = "other" /\ c.phase = "sent"
  BY <1>1 DEF OthersCall, CallOf
<1>3. /\ DOMAIN calls' = DOMAIN calls \cup {Len(calls) + 1}
      /\ calls'[Len(calls) + 1] = c
      /\ \A j \in DOMAIN calls : calls'[j] = calls[j]
  BY <1>1, Appended
<1> QED
  BY <1>2, <1>3 DEF NoneApproves, ApproveStays, Approving

LEMMA ApproveTurn ==
  ASSUME CallsTyped, NEW i \in DOMAIN calls, NEW b \in {Null, calls[i].arg},
         NEW p \in {"over", "open", "done"}, NEW k \in BOOLEAN, NEW d,
         calls' = Became(i, b, p, k, d),
         p # "over" => b = calls[i].arg /\ calls[i].phase # "over" /\ calls[i].by = "page"
  PROVE  NoneApproves
<1>1. Turned(i, b, p, k, d)
  BY Turns
<1> QED
  BY <1>1 DEF Turned, NoneApproves, ApproveStays, Approving

LEMMA ApproveTake ==
  ASSUME CallsTyped, NEW i \in DOMAIN calls, calls' = Over(i)
  PROVE  NoneApproves
<1>1. calls' = Became(i, Null, "over", FALSE, Null)
  BY DEF Over
<1> QED
  BY <1>1, ApproveTurn

\* An answer reaches nobody but the page.
LEMMA ApproveAnswer ==
  ASSUME CallsTyped, NEW i \in DOMAIN calls, calls[i].phase # "over",
         NEW k \in BOOLEAN, NEW d, Answer(i, k, d)
  PROVE  NoneApproves
<1>1. calls[i].by \in {"page", "other"}
  <2>1. PICK O, A, D : calls \in Seq(CallShape(O, A, D))
    BY DEF CallsTyped
  <2>2. calls[i] \in CallShape(O, A, D)
    BY <2>1
  <2> QED
    BY <2>2 DEF CallShape
<1>2. CASE calls' = Over(i)
  BY <1>2, ApproveTake
<1>3. CASE calls[i].by = "page" /\ calls' = Became(i, calls[i].arg, "done", k, d)
  BY <1>3, ApproveTurn
<1> QED
  BY <1>1, <1>2, <1>3 DEF Answer

LEMMA ApproveGoOn ==
  ASSUME CallsTyped, NEW i \in DOMAIN calls, NEW o, NEW a, calls' = Append(Over(i), Call(o, a)),
         o # "approve"
  PROVE  NoneApproves
<1>1. PICK c : c = Call(o, a)
  OBVIOUS
<1>2. c.op = o
  BY <1>1, CallFields
<1> QED
  BY <1>1, <1>2, OveredAndAppended DEF NoneApproves, ApproveStays, Approving

-----------------------------------------------------------------------------
DraftFields == {"expected", "attend", "role", "match", "based"}
DraftT(x) == DOMAIN x = DraftFields /\ DecisionT(x) /\ x.based.item \in ItemRow
ItemsT(db) == \A r \in Attendees : db.item[r] = Null \/ db.item[r] \in ItemRow
ReviewDbT ==
  /\ reviewDb.state \in ReviewStates /\ reviewDb.corrected \in BOOLEAN
  /\ reviewDb.mark \in [Attendees -> BOOLEAN]
  /\ ItemsT(reviewDb)
  /\ reviewDb.confirmed \subseteq Attendees
ReviewViewT ==
  /\ reviewView.chief \in BOOLEAN
  /\ reviewView.shown # Null => ShownT(reviewView.shown)
  /\ \A r \in Attendees : reviewView.drafts[r] # Null => DraftT(reviewView.drafts[r])
  /\ reviewView.previewed \subseteq Attendees
\* An approval of the review that is open finds it shown.
MountT(n) ==
  /\ n \in Nat /\ reviewView.mount \in 0..(n + 1)
  /\ \A i \in DOMAIN calls : Approving(calls[i]) =>
       /\ calls[i].arg.mount \in 1..(n + 1)
       /\ calls[i].arg.mount = reviewView.mount => ShownT(reviewView.shown)
ReviewTypes == ReviewDbT /\ ReviewViewT /\ MountT(Len(calls))

LEMMA ReviewTypesTell == ReviewDbT /\ ReviewViewT /\ ReviewDbOK => ReviewTypeOK
BY DEF ReviewTypeOK, ReviewDbT, ReviewViewT, ItemsT, DraftT, DecisionT, ShownT, ReviewDbOK,
   AwardsStand

LEMMA ReviewOfT ==
  ASSUME NEW db, db.state \in ReviewStates, ItemsT(db), db.active \subseteq Attendees
  PROVE  ShownT(ReviewOf(db))
<1>1. PICK s, c, f : /\ s = db.state /\ c = db.corrected
                     /\ f = [r \in Items(db) |-> Version(db, r)]
                     /\ ReviewOf(db) = [state |-> s, corrected |-> c, items |-> f]
  BY DEF ReviewOf
<1>2. \A r \in DOMAIN f : f[r].item \in ItemRow
  BY <1>1 DEF Items, Version, ItemsT
<1>3. PICK x : x = [state |-> s, corrected |-> c, items |-> f]
  OBVIOUS
<1>4. ShownT(x)
  BY <1>1, <1>2, <1>3 DEF ShownT
<1> QED
  BY <1>1, <1>3, <1>4

LEMMA MountStays ==
  ASSUME ReviewTypes, NoneApproves, Len(calls') \in Nat, Len(calls') >= Len(calls),
         \/ /\ reviewView'.mount = reviewView.mount
            /\ ShownT(reviewView.shown) => ShownT(reviewView.shown)'
         \/ reviewView'.mount = 0
         \/ reviewView'.mount = Len(calls) + 2 /\ Len(calls') = Len(calls) + 1
  PROVE  MountT(Len(calls))'
BY DEF ReviewTypes, MountT, NoneApproves, ApproveStays

LEMMA MountAsks ==
  ASSUME ReviewTypes, NEW o, NEW a, OneApproves(o, a), Len(calls') \in Nat, Len(calls') >= Len(calls),
         UNCHANGED reviewView, a.mount = reviewView.mount, reviewView.mount # 0,
         ShownT(reviewView.shown)
  PROVE  MountT(Len(calls))'
BY DEF ReviewTypes, MountT, OneApproves, ApproveStays, ShownT

LEMMA ReviewDbSame == ASSUME ReviewDbT, UNCHANGED reviewDb PROVE ReviewDbT'
BY DEF ReviewDbT, ItemsT
LEMMA ReviewViewSame == ASSUME ReviewViewT, UNCHANGED reviewView
                        PROVE  ReviewViewT' /\ (ShownT(reviewView.shown) => ShownT(reviewView.shown)')
BY DEF ReviewViewT, ShownT, DraftT, DecisionT

LEMMA ReviewAskT ==
  ASSUME TypedCalls, NEW o \in ReviewOps, NEW a, Ask(o, a), SentT(o, a)
  PROVE  TypedCalls' /\ Len(calls') \in Nat /\ Len(calls') >= Len(calls) /\ OneApproves(o, a)
<1>1. o \in AllOps /\ calls' = Append(calls, Call(o, a)) /\ UNCHANGED page
  BY DEF Ask, AllOps
<1>2. OneApproves(o, a)
  BY <1>1, ApproveAsk DEF TypedCalls
<1> QED
  BY <1>1, <1>2, TypedAsk DEF Asked

LEMMA OthersOnly == ASSUME NEW o, NEW a, OneApproves(o, a), o # "approve" PROVE NoneApproves
BY DEF OneApproves, NoneApproves

LEMMA DecisionIsT ==
  ASSUME ReviewTypes, reviewView.shown # Null, NEW r \in Attendees,
         reviewView.drafts[r] # Null \/ r \in DOMAIN reviewView.shown.items
  PROVE  DraftT(Decision(r))
<1>1. CASE reviewView.drafts[r] # Null
  BY <1>1 DEF Decision, ReviewTypes, ReviewViewT
<1>2. CASE reviewView.drafts[r] = Null
  <2>1. PICK it : it = reviewView.shown.items[r]
    OBVIOUS
  <2>2. it.item \in ItemRow
    BY <1>2, <2>1 DEF ReviewTypes, ReviewViewT, ShownT
  <2>3. PICK x : x = InitialDecision(it)
    OBVIOUS
  <2>4. DraftT(x)
    BY <2>2, <2>3 DEF DraftT, DraftFields, DecisionT, InitialDecision, ItemRow, Matches, Choices
  <2> QED
    BY <1>2, <2>1, <2>3, <2>4 DEF Decision
<1> QED
  BY <1>1, <1>2

LEMMA ReviewCallT ==
  ASSUME TypedCalls, ReviewTypes, NEW o \in ReviewOps, NEW r, ReviewCall(o, r), reviewView.shown # Null,
         o = "updateReview" => r \in Attendees /\ DraftT(Decision(r)),
         o = "previewScore" => r \in Attendees,
         o \in {"updateReview", "previewScore", "suggestions", "refresh", "approve", "reopen"}
  PROVE  TypedCalls' /\ ReviewTypes'
<1>1. PICK m : m = IF r = Null THEN Null ELSE Decision(r)
  OBVIOUS
<1>2. PICK a : a = [mount |-> reviewView.mount, reg |-> r, more |-> m, chief |-> reviewView.chief]
  OBVIOUS
<1>3. a.mount = reviewView.mount /\ a.reg = r /\ a.more = m
  BY <1>2
<1>4. SentT(o, a)
  BY <1>1, <1>3, ReviewBasics DEF SentT, DraftT, DecisionT
<1>5. TypedCalls' /\ Len(calls') \in Nat /\ Len(calls') >= Len(calls) /\ OneApproves(o, a)
  BY <1>1, <1>2, <1>4, ReviewAskT DEF ReviewCall
<1>6. ReviewDbT' /\ ReviewViewT'
  BY ReviewDbSame, ReviewViewSame DEF ReviewCall, reviewVars, ReviewTypes
<1>7. MountT(Len(calls))'
  BY <1>3, <1>5, MountAsks DEF ReviewCall, reviewVars, ReviewTypes, ReviewViewT
<1> QED
  BY <1>5, <1>6, <1>7 DEF ReviewTypes

LEMMA ReviewClickT ==
  ASSUME TypedCalls, ReviewTypes, DraftsOK, ReviewClicks
  PROVE  TypedCalls' /\ ReviewTypes'
<1> USE DEF ReviewTypes
<1>1. ASSUME UNCHANGED shell
      PROVE  TypedCalls' /\ NoneApproves /\ Len(calls') \in Nat /\ Len(calls') >= Len(calls)
  BY <1>1, TypedRest DEF shell, AskedNone, NoneApproves, ApproveStays
<1>2. ASSUME Ask("pendingReviews", Null)
      PROVE  TypedCalls' /\ NoneApproves /\ Len(calls') \in Nat /\ Len(calls') >= Len(calls)
  <2>1. SentT("pendingReviews", Null)
    BY DEF SentT
  <2> QED
    BY <1>2, <2>1, ReviewAskT, OthersOnly DEF ReviewOps
<1>3. CASE LoadQueue
  BY <1>2, <1>3, ReviewDbSame, ReviewViewSame, MountStays DEF LoadQueue, reviewVars
<1>4. CASE LeaveReview
  <2>1. reviewView'.mount = 0 /\ reviewView'.shown = Null /\ reviewView'.drafts = NoDrafts
        /\ reviewView'.chief = reviewView.chief /\ reviewView'.previewed = reviewView.previewed
    BY <1>4 DEF LeaveReview, DraftsOK
  <2>2. ReviewViewT'
    BY <2>1 DEF ReviewViewT, NoDrafts
  <2> QED
    BY <1>2, <1>4, <2>1, <2>2, ReviewDbSame, MountStays DEF LeaveReview
<1>5. ASSUME NEW r \in Attendees, SaveDecision(r) \/ SuggestStudents(r) \/ PreviewScore(r)
      PROVE  TypedCalls' /\ ReviewTypes'
  BY <1>5, ReviewCallT, DecisionIsT DEF SaveDecision, SuggestStudents, PreviewScore, Dirt,
     CanEdit, ReviewOps
<1>6. CASE Refresh \/ ApproveReview \/ Reopen
  BY <1>6, ReviewCallT DEF Refresh, ApproveReview, Reopen, CanEdit, ReviewOps
<1>7. ASSUME NEW r \in Attendees, DropDraft(r)
      PROVE  TypedCalls' /\ ReviewTypes'
  <2>1. /\ reviewView'.mount = reviewView.mount /\ reviewView'.shown = reviewView.shown
        /\ reviewView'.chief = reviewView.chief /\ reviewView'.previewed = reviewView.previewed
        /\ reviewView'.drafts = [reviewView.drafts EXCEPT ![r] = Null]
    BY <1>7 DEF DropDraft, DraftsOK
  <2>2. \A q \in Attendees : reviewView'.drafts[q] \in {Null, reviewView.drafts[q]}
    BY <2>1 DEF DraftsOK
  <2>3. ReviewViewT'
    BY <2>1, <2>2 DEF ReviewViewT, ShownT, DraftT, DecisionT
  <2> QED
    BY <1>1, <1>7, <2>1, <2>3, ReviewDbSame, MountStays DEF DropDraft, ShownT
<1>8. ASSUME NEW r \in Attendees, NEW attend \in BOOLEAN, NEW role \in RoleNames, NEW match \in Choices,
             ChangeDecision(r, attend, role, match)
      PROVE  TypedCalls' /\ ReviewTypes'
  <2>1. PICK old : old = Decision(r)
    OBVIOUS
  <2>2. DraftT(old)
    BY <1>8, <2>1, DecisionIsT DEF ChangeDecision, CanEdit
  <2>3. PICK new : /\ new = [old EXCEPT !.attend = attend, !.role = role, !.match = match]
                   /\ reviewView' = [reviewView EXCEPT !.drafts[r] = new]
    BY <1>8, <2>1 DEF ChangeDecision
  <2>4. DraftT(new)
    BY <2>2, <2>3 DEF DraftT, DraftFields, DecisionT
  <2>5. /\ reviewView'.mount = reviewView.mount /\ reviewView'.shown = reviewView.shown
        /\ reviewView'.chief = reviewView.chief /\ reviewView'.previewed = reviewView.previewed
        /\ reviewView'.drafts = [reviewView.drafts EXCEPT ![r] = new]
    BY <2>3 DEF DraftsOK
  <2>6. \A q \in Attendees : reviewView'.drafts[q] \in {new, reviewView.drafts[q]}
    BY <2>5 DEF DraftsOK
  <2>7. ReviewViewT'
    BY <2>4, <2>5, <2>6 DEF ReviewViewT, ShownT, DraftT, DecisionT
  <2> QED
    BY <1>1, <1>8, <2>5, <2>7, ReviewDbSame, MountStays DEF ChangeDecision, ShownT
<1> QED
  BY <1>3, <1>4, <1>5, <1>6, <1>7, <1>8 DEF ReviewClicks

LEMMA OtherReviewerT ==
  ASSUME TypedCalls, ReviewTypes, OtherReviewer
  PROVE  TypedCalls' /\ ReviewTypes'
<1> USE DEF ReviewTypes
<1>1. ASSUME NEW o \in ReviewOps, NEW a, SentT(o, a), calls' = Append(calls, OthersCall(o, a))
      PROVE  TypedCalls' /\ NoneApproves /\ Len(calls') \in Nat /\ Len(calls') >= Len(calls)
  BY <1>1, TypedAsk, OthersApprove DEF OtherReviewer, Asked, AllOps, TypedCalls
<1>2. TypedCalls' /\ NoneApproves /\ Len(calls') \in Nat /\ Len(calls') >= Len(calls)
  <2>1. ASSUME NEW o \in {"mark", "annul", "register", "prepare", "approve", "reopen"}, NEW a,
               calls' = Append(calls, OthersCall(o, a))
        PROVE  TypedCalls' /\ NoneApproves /\ Len(calls') \in Nat /\ Len(calls') >= Len(calls)
    <3>1. SentT(o, a)
      BY <2>1 DEF SentT
    <3> QED
      BY <1>1, <2>1, <3>1 DEF ReviewOps
  <2>2. ASSUME NEW r \in Attendees, reviewDb.item[r] # Null,
               calls' = Append(calls, OthersCall("updateReview",
                          [reg |-> r, more |-> OtherDecision(r), chief |-> TRUE]))
        PROVE  TypedCalls' /\ NoneApproves /\ Len(calls') \in Nat /\ Len(calls') >= Len(calls)
    <3>1. PICK d : d = OtherDecision(r)
      OBVIOUS
    <3>2. DecisionT(d)
      BY <2>2, <3>1, ReviewBasics DEF DecisionT, OtherDecision, FirstRole, Choices
    <3>3. PICK a : a = [reg |-> r, more |-> d, chief |-> TRUE]
      OBVIOUS
    <3>4. SentT("updateReview", a)
      BY <3>2, <3>3 DEF SentT
    <3> QED
      BY <1>1, <2>2, <3>1, <3>3, <3>4 DEF ReviewOps
  <2> QED
    BY <2>1, <2>2 DEF OtherReviewer
<1> QED
  BY <1>2, ReviewDbSame, ReviewViewSame, MountStays DEF OtherReviewer, reviewVars

LEMMA ReviewReceiveT ==
  ASSUME TypedCalls, ReviewTypes, DraftsOK, NEW i \in DOMAIN calls, ReviewReceives(i)
  PROVE  TypedCalls' /\ ReviewTypes'
<1> USE DEF ReviewTypes
<1>1. UNCHANGED reviewDb
  BY DEF ReviewReceives, ShowQueue, ShowReview, ShowApproved, ShowScore, ReviewFails, reviewVars
<1>2. ASSUME Take(i)
      PROVE  TypedCalls' /\ NoneApproves /\ Len(calls') \in Nat /\ Len(calls') >= Len(calls)
  BY <1>2, TypedTake, ApproveTake DEF Take, AskedNone, TypedCalls
<1>3. CASE ShowQueue(i)
  <2>1. CASE Take(i) /\ UNCHANGED reviewView
    BY <1>1, <1>2, <2>1, ReviewDbSame, ReviewViewSame, MountStays
  <2>2. CASE /\ TakeAndAsk(i, "eventReview", Len(calls) + 2)
             /\ reviewView' = [reviewView EXCEPT !.mount = Len(calls) + 2]
    <3>1. PICK a : a = Len(calls) + 2
      OBVIOUS
    <3>2. SentT("eventReview", a) /\ calls' = Append(Over(i), Call("eventReview", a)) /\ UNCHANGED page
      BY <2>2, <3>1 DEF SentT, TakeAndAsk
    <3>3. TypedCalls' /\ Len(calls') \in Nat /\ Len(calls') >= Len(calls)
      BY <3>2, TypedGoOn DEF Asked, AllOps, ReviewOps
    <3>4. NoneApproves
      BY <3>2, ApproveGoOn DEF TypedCalls
    <3>5. Len(calls') = Len(calls) + 1
      <4>1. DOMAIN calls' = DOMAIN calls \cup {Len(calls) + 1}
        BY <3>2, OveredAndAppended DEF TypedCalls
      <4>2. DOMAIN calls' = 1..Len(calls') /\ DOMAIN calls = 1..Len(calls) /\ Len(calls) \in Nat
        BY <3>3, CallsLen DEF TypedCalls, CallsTyped
      <4> QED
        BY <3>3, <4>1, <4>2
    <3>6. /\ reviewView'.mount = Len(calls) + 2 /\ reviewView'.shown = reviewView.shown
          /\ reviewView'.chief = reviewView.chief /\ reviewView'.previewed = reviewView.previewed
          /\ reviewView'.drafts = reviewView.drafts
      BY <2>2 DEF DraftsOK
    <3>7. ReviewViewT'
      BY <3>6 DEF ReviewViewT, ShownT, DraftT, DecisionT
    <3> QED
      BY <1>1, <3>3, <3>4, <3>5, <3>6, <3>7, ReviewDbSame, MountStays
  <2> QED
    BY <1>3, <2>1, <2>2 DEF ShowQueue
<1>4. CASE ShowReview(i)
  <2>1. PICK d : d = calls[i].data
    OBVIOUS
  <2>2. ShownT(d)
    BY <1>4, <2>1, ReplyIsTyped DEF ShowReview, ReplyT, ReviewReplies
  <2>3. PICK r : r = calls[i].arg.reg
    OBVIOUS
  <2>4. \/ reviewView' = reviewView
        \/ reviewView' = [reviewView EXCEPT !.shown = d]
        \/ reviewView' = [reviewView EXCEPT !.shown = d, !.drafts[r] = Null, !.previewed = @ \ {r}]
    BY <1>4, <2>1, <2>3 DEF ShowReview
  <2>5. CASE reviewView' = reviewView
    BY <1>1, <1>2, <1>4, <2>5, ReviewDbSame, ReviewViewSame, MountStays DEF ShowReview
  <2>6. CASE reviewView' # reviewView
    <3>1. /\ reviewView'.mount = reviewView.mount /\ reviewView'.shown = d
          /\ reviewView'.chief = reviewView.chief /\ reviewView'.previewed \subseteq reviewView.previewed
          /\ \/ reviewView'.drafts = reviewView.drafts
             \/ reviewView'.drafts = [reviewView.drafts EXCEPT ![r] = Null]
      <4>1. CASE reviewView' = [reviewView EXCEPT !.shown = d]
        BY <4>1 DEF DraftsOK
      <4>2. CASE reviewView' = [reviewView EXCEPT !.shown = d, !.drafts[r] = Null, !.previewed = @ \ {r}]
        BY <4>2 DEF DraftsOK
      <4> QED
        BY <2>4, <2>6, <4>1, <4>2
    <3>2. \A q \in Attendees : reviewView'.drafts[q] \in {Null, reviewView.drafts[q]}
      BY <3>1 DEF DraftsOK
    <3>3. ShownT(reviewView.shown)'
      BY <2>2, <3>1 DEF ShownT
    <3>4. ReviewViewT'
      BY <3>1, <3>2, <3>3 DEF ReviewViewT, DraftT, DecisionT
    <3> QED
      BY <1>1, <1>2, <1>4, <3>1, <3>3, <3>4, ReviewDbSame, MountStays DEF ShowReview
  <2> QED
    BY <2>5, <2>6
<1>5. CASE ShowApproved(i)
  <2>1. CASE ~ReviewMounted(i)
    BY <1>1, <1>2, <1>5, <2>1, ReviewDbSame, ReviewViewSame, MountStays DEF ShowApproved
  <2>2. CASE ReviewMounted(i)
    <3>1. ShownT(reviewView.shown)
      BY <1>5, <2>2 DEF ShowApproved, ReviewMounted, Answered, MountT, Approving
    <3>2. PICK s : s = [reviewView.shown EXCEPT !.state = "APPROVED"]
      OBVIOUS
    <3>3. ShownT(s)
      BY <3>1, <3>2 DEF ShownT, ReviewStates
    <3>4. /\ reviewView'.mount = reviewView.mount /\ reviewView'.shown = s
          /\ reviewView'.chief = reviewView.chief /\ reviewView'.previewed = reviewView.previewed
          /\ reviewView'.drafts = reviewView.drafts
      BY <1>5, <2>2, <3>2 DEF ShowApproved, DraftsOK
    <3>5. ShownT(reviewView.shown)'
      BY <3>3, <3>4 DEF ShownT
    <3>6. ReviewViewT'
      BY <3>4, <3>5 DEF ReviewViewT, DraftT, DecisionT
    <3> QED
      BY <1>1, <1>2, <1>5, <3>4, <3>5, <3>6, ReviewDbSame, MountStays DEF ShowApproved
  <2> QED
    BY <2>1, <2>2
<1>6. CASE ShowScore(i)
  <2>1. CASE reviewView' = reviewView
    BY <1>1, <1>2, <1>6, <2>1, ReviewDbSame, ReviewViewSame, MountStays DEF ShowScore
  <2>2. CASE reviewView' # reviewView
    <3>1. PICK r : /\ r = calls[i].arg.reg /\ calls[i].op = "previewScore" /\ Answered(i, "previewScore")
                   /\ reviewView' = [reviewView EXCEPT !.previewed = @ \cup {r}]
      BY <1>6, <2>2 DEF ShowScore, Answered
    <3>2. r \in Attendees
      BY <3>1, ReplyIsTyped DEF SentT
    <3>3. /\ reviewView'.mount = reviewView.mount /\ reviewView'.shown = reviewView.shown
          /\ reviewView'.chief = reviewView.chief /\ reviewView'.previewed = reviewView.previewed \cup {r}
          /\ reviewView'.drafts = reviewView.drafts
      BY <3>1 DEF DraftsOK
    <3>4. ReviewViewT' /\ (ShownT(reviewView.shown) => ShownT(reviewView.shown)')
      BY <3>2, <3>3 DEF ReviewViewT, ShownT, DraftT, DecisionT
    <3> QED
      BY <1>1, <1>2, <1>6, <3>3, <3>4, ReviewDbSame, MountStays DEF ShowScore
  <2> QED
    BY <2>1, <2>2
<1>7. CASE ReviewFails(i)
  BY <1>1, <1>2, <1>7, ReviewDbSame, ReviewViewSame, MountStays DEF ReviewFails, reviewVars
<1> QED
  BY <1>3, <1>4, <1>5, <1>6, <1>7 DEF ReviewReceives

-----------------------------------------------------------------------------
LEMMA ReviewAnswerT ==
  ASSUME TypedCalls, ReviewTypes, UNCHANGED <<page, reviewView>>, NEW i \in DOMAIN calls,
         NEW o, Waits(i, o), Refused(i) \/ \E d : Done(i, d) /\ ReplyT(o, d)
  PROVE  TypedCalls' /\ ReviewViewT' /\ MountT(Len(calls))'
<1>2. AskedNone
  BY DoneT, RefusedT
<1>3. NoneApproves
  <2>1. ASSUME NEW d, Done(i, d)
        PROVE  NoneApproves
    BY <2>1, ApproveAnswer DEF Done, Waits, TypedCalls
  <2>2. ASSUME Refused(i)
        PROVE  NoneApproves
    BY <2>2, ApproveAnswer DEF Refused, RefusedAs, Waits, TypedCalls
  <2> QED
    BY <2>1, <2>2
<1> QED
  BY <1>2, <1>3, ReviewViewSame, MountStays DEF AskedNone, ReviewTypes

LEMMA ReviewServeT ==
  ASSUME TypedCalls, ReviewTypes, ReviewInv, ReviewInv', NEW i \in DOMAIN calls, ReviewServes(i)
  PROVE  TypedCalls' /\ ReviewTypes'
<1> USE DEF ReviewTypes
<1>1. UNCHANGED <<page, reviewView>>
  BY DEF ReviewServes, ServeReviewReads, ServeDecision, ServeRefresh, ServeReopen, ServeApprove,
         ServeOthersReview, ReviewRefused, ReviewChanges, reviewVars
<1>2. ASSUME NEW o, Waits(i, o), ReviewRefused(i)
      PROVE  TypedCalls' /\ ReviewTypes'
  BY <1>1, <1>2, ReviewAnswerT, ReviewDbSame DEF ReviewRefused, reviewVars
<1>3. /\ DOMAIN reviewDb = {"state", "corrected", "active", "mark", "item", "awards", "confirmed"}
      /\ DOMAIN reviewDb.item = Attendees
  BY DEF ReviewInv, ReviewDbOK, ItemsNameRoles
<1>4. ASSUME NEW o \in ReviewOps, Waits(i, o), NEW db, ReviewChanges(i, db), ReviewDbT'
      PROVE  TypedCalls' /\ ReviewTypes'
  <2>1. reviewDb' = db /\ Done(i, ReviewOf(db))
    BY <1>4 DEF ReviewChanges
  <2>2. db.active \subseteq Attendees /\ db.state \in ReviewStates /\ ItemsT(db)
    BY <1>4, <2>1 DEF ReviewInv, ReviewDbOK, ReviewDbT, ItemsT
  <2>3. PICK d : d = ReviewOf(db)
    OBVIOUS
  <2>4. ShownT(d)
    BY <2>2, <2>3, ReviewOfT
  <2>5. ReplyT(o, d)
    BY <2>4 DEF ReplyT, ReviewOps, PersonReplies, Sess, EventReplies
  <2> QED
    BY <1>1, <1>4, <2>1, <2>3, <2>4, <2>5, ReviewAnswerT
<1>5. CASE ServeReviewReads(i)
  <2>1. UNCHANGED reviewDb
    BY <1>5 DEF ServeReviewReads, reviewVars
  <2>2. PICK d : d = ReviewOf(reviewDb)
    OBVIOUS
  <2>3. ReplyT("eventReview", d)
    BY <2>2, ReviewOfT DEF ReviewInv, ReviewDbOK, ReviewDbT, ReplyT, PersonReplies, Sess,
       EventReplies
  <2>4. \A x : ReplyT("pendingReviews", x) /\ ReplyT("suggestions", x) /\ ReplyT("previewScore", x)
    BY DEF ReplyT, PersonReplies, Sess, EventReplies, ReviewReplies
  <2>5. PICK o : Waits(i, o) /\ (Refused(i) \/ \E x : Done(i, x) /\ ReplyT(o, x))
    BY <1>5, <2>2, <2>3, <2>4 DEF ServeReviewReads
  <2> QED
    BY <1>1, <2>1, <2>5, ReviewAnswerT, ReviewDbSame
<1>6. CASE ServeDecision(i)
  <2>1. Waits(i, "updateReview")
    BY <1>6 DEF ServeDecision
  <2>2. ASSUME NEW r, NEW new, r = calls[i].arg.reg, new = calls[i].arg.more, reviewDb.item[r] # Null,
               ReviewChanges(i, [reviewDb EXCEPT !.item[r] = Decided(@, new, reviewDb.mark[r], i)])
        PROVE  ReviewDbT'
    <3>1. DecisionT(new)
      BY <2>1, <2>2, ReadyT DEF SentT
    <3>2. i \in Nat
      BY CallsLen DEF TypedCalls
    <3>3. PICK x : x = Decided(reviewDb.item[r], new, reviewDb.mark[r], i)
      OBVIOUS
    <3>4. r \in Attendees => x \in ItemRow
      <4>1. r \in Attendees => reviewDb.item[r] \in ItemRow /\ reviewDb.mark[r] \in BOOLEAN
        BY <2>2 DEF ReviewDbT, ItemsT
      <4> QED
        BY <3>1, <3>2, <3>3, <4>1 DEF Decided, ItemRow, DecisionT, Matches
    <3>5. /\ reviewDb'.item = [reviewDb.item EXCEPT ![r] = x]
          /\ reviewDb'.state = reviewDb.state /\ reviewDb'.corrected = reviewDb.corrected
          /\ reviewDb'.mark = reviewDb.mark /\ reviewDb'.confirmed = reviewDb.confirmed
      BY <1>3, <2>2, <3>3 DEF ReviewChanges
    <3>6. \A q \in Attendees : reviewDb'.item[q] = IF q = r THEN x ELSE reviewDb.item[q]
      BY <1>3, <3>5
    <3> QED
      BY <3>4, <3>5, <3>6 DEF ReviewDbT, ItemsT
  <2>3. CASE ReviewRefused(i)
    BY <1>2, <2>1, <2>3
  <2> QED
    BY <1>4, <1>6, <2>1, <2>2, <2>3 DEF ServeDecision, ReviewOps
<1>7. CASE ServeRefresh(i)
  <2>1. Waits(i, "refresh")
    BY <1>7 DEF ServeRefresh
  <2>2. CASE ReviewRefused(i)
    BY <1>2, <2>1, <2>2
  <2>3. PICK f : f = [r \in Attendees |->
             IF reviewDb.item[r] # Null /\ reviewDb.item[r].reviewed = 0
                /\ reviewDb.item[r].seen # reviewDb.mark[r]
             THEN [reviewDb.item[r] EXCEPT !.attend = reviewDb.mark[r], !.seen = reviewDb.mark[r]]
             ELSE reviewDb.item[r]]
    OBVIOUS
  <2>4. CASE ReviewChanges(i, [reviewDb EXCEPT !.item = f])
    <3>1. ASSUME NEW r \in Attendees
          PROVE  f[r] = Null \/ f[r] \in ItemRow
      <4>1. reviewDb.mark[r] \in BOOLEAN /\ (reviewDb.item[r] = Null \/ reviewDb.item[r] \in ItemRow)
        BY DEF ReviewDbT, ItemsT
      <4>2. PICK x, m : x = reviewDb.item[r] /\ m = reviewDb.mark[r]
        OBVIOUS
      <4>3. x \in ItemRow => [x EXCEPT !.attend = m, !.seen = m] \in ItemRow
        BY <4>1, <4>2 DEF ItemRow
      <4> QED
        BY <2>3, <4>1, <4>2, <4>3
    <3>2. /\ reviewDb'.item = f
          /\ reviewDb'.state = reviewDb.state /\ reviewDb'.corrected = reviewDb.corrected
          /\ reviewDb'.mark = reviewDb.mark /\ reviewDb'.confirmed = reviewDb.confirmed
      BY <1>3, <2>4 DEF ReviewChanges
    <3>3. ReviewDbT'
      BY <3>1, <3>2 DEF ReviewDbT, ItemsT
    <3> QED
      BY <1>4, <2>1, <2>4, <3>3 DEF ReviewOps
  <2> QED
    BY <1>7, <2>2, <2>3, <2>4 DEF ServeRefresh
<1>8. CASE ServeReopen(i)
  <2>1. Waits(i, "reopen")
    BY <1>8 DEF ServeReopen
  <2>2. CASE ReviewRefused(i)
    BY <1>2, <2>1, <2>2
  <2>3. CASE ReviewChanges(i, [reviewDb EXCEPT !.state = "PENDING"])
    <3>1. ReviewDbT'
      BY <1>3, <2>3 DEF ReviewChanges, ReviewDbT, ItemsT, ReviewStates
    <3> QED
      BY <1>4, <2>1, <2>3, <3>1 DEF ReviewOps
  <2> QED
    BY <1>8, <2>2, <2>3 DEF ServeReopen
<1>9. CASE ServeApprove(i)
  <2>1. Waits(i, "approve")
    BY <1>9 DEF ServeApprove
  <2>2. CASE ReviewRefused(i)
    BY <1>2, <2>1, <2>2
  <2>3. CASE ReviewChanges(i, Approved(reviewDb))
    <3>1. /\ reviewDb'.state = "APPROVED" /\ reviewDb'.corrected = TRUE
          /\ reviewDb'.item = reviewDb.item /\ reviewDb'.mark = reviewDb.mark
          /\ reviewDb'.confirmed \subseteq Attendees
      BY <1>3, <2>3 DEF ReviewChanges, Approved
    <3>2. ReviewDbT'
      BY <3>1 DEF ReviewDbT, ItemsT, ReviewStates
    <3> QED
      BY <1>4, <2>1, <2>3, <3>2 DEF ReviewOps
  <2> QED
    BY <1>9, <2>2, <2>3 DEF ServeApprove
<1>10. CASE ServeOthersReview(i)
  <2>1. CASE Waits(i, "prepare") /\ ReviewChanges(i, Prepared(reviewDb))
    <3>1. /\ reviewDb'.state \in {"PENDING", reviewDb.state} /\ reviewDb'.corrected = reviewDb.corrected
          /\ reviewDb'.mark = reviewDb.mark /\ reviewDb'.confirmed = reviewDb.confirmed
          /\ reviewDb'.item = [r \in Attendees |-> IF r \in reviewDb.active /\ reviewDb.item[r] = Null
                                                   THEN Snapshot(reviewDb, r) ELSE reviewDb.item[r]]
      BY <1>3, <2>1 DEF ReviewChanges, Prepared
    <3>2. ASSUME NEW r \in Attendees
          PROVE  reviewDb'.item[r] = Null \/ reviewDb'.item[r] \in ItemRow
      <4>1. CASE r \in reviewDb.active /\ reviewDb.item[r] = Null
        <5>1. PICK x : x = reviewDb'.item[r] /\ x = Snapshot(reviewDb, r)
          BY <3>1, <4>1
        <5>2. x # Null => x.role \in RoleNames
          BY <5>1 DEF ReviewInv, ReviewDbOK, ItemsNameRoles, HasRole
        <5>3. reviewDb.mark[r] \in BOOLEAN
          BY DEF ReviewDbT
        <5> QED
          BY <5>1, <5>2, <5>3 DEF Snapshot, ItemRow, Matches, Choices
      <4>2. CASE ~(r \in reviewDb.active /\ reviewDb.item[r] = Null)
        BY <3>1, <4>2 DEF ReviewDbT, ItemsT
      <4> QED
        BY <4>1, <4>2
    <3>3. ReviewDbT'
      BY <3>1, <3>2 DEF ReviewDbT, ItemsT, ReviewStates
    <3> QED
      BY <1>4, <2>1, <3>3 DEF ReviewOps
  <2>2. ASSUME NEW r, Waits(i, "mark"), ReviewChanges(i, [reviewDb EXCEPT !.mark[r] = TRUE])
        PROVE  TypedCalls' /\ ReviewTypes'
    <3>1. ReviewDbT'
      BY <1>3, <2>2 DEF ReviewChanges, ReviewDbT, ItemsT
    <3> QED
      BY <1>4, <2>2, <3>1 DEF ReviewOps
  <2>3. ASSUME NEW o \in ReviewOps, Waits(i, o), NEW s, ReviewChanges(i, [reviewDb EXCEPT !.active = s])
        PROVE  TypedCalls' /\ ReviewTypes'
    <3>1. ReviewDbT'
      BY <1>3, <2>3 DEF ReviewChanges, ReviewDbT, ItemsT
    <3> QED
      BY <1>4, <2>3, <3>1
  <2> QED
    BY <1>10, <2>1, <2>2, <2>3 DEF ServeOthersReview, ReviewOps
<1> QED
  BY <1>5, <1>6, <1>7, <1>8, <1>9, <1>10 DEF ReviewServes

LEMMA ReviewNextT ==
  ASSUME TypedCalls, ReviewTypes, ReviewInv, ReviewInv', ReviewNext
  PROVE  TypedCalls' /\ ReviewTypes'
<1>1. ASSUME NEW i \in DOMAIN calls, LoseCall(i), UNCHANGED reviewVars
      PROVE  TypedCalls' /\ ReviewTypes'
  <2>1. NoneApproves
    <3>1. calls[i].phase # "over" /\ calls[i].by = "page"
          /\ calls' = Became(i, calls[i].arg, "done", FALSE, Null)
      BY <1>1 DEF LoseCall
    <3> QED
      BY <3>1, ApproveTurn DEF TypedCalls
  <2> QED
    BY <1>1, <2>1, TypedLoss, ReviewDbSame, ReviewViewSame, MountStays DEF AskedNone,
       reviewVars, ReviewTypes
<1> QED
  BY <1>1, ReviewClickT, OtherReviewerT, ReviewReceiveT, ReviewServeT DEF ReviewNext, ReviewInv

LEMMA ReviewStartT ==
  ASSUME ReviewStart
  PROVE  ReviewDbT /\ ReviewViewT /\ reviewView.mount \in {0, 1}
<1>1. PICK x : x = NewReview
  OBVIOUS
<1>2. /\ DOMAIN x = {"state", "corrected", "active", "mark", "item", "awards", "confirmed"}
      /\ x.state = "NOT_STARTED" /\ x.corrected = FALSE
      /\ x.active = Registered /\ x.mark \in [Attendees -> BOOLEAN]
      /\ x.item = [r \in Attendees |-> Null] /\ x.awards = [r \in Attendees |-> <<>>]
      /\ x.confirmed = {}
  BY <1>1 DEF NewReview
<1>3. PICK y : y = Prepared(x)
  OBVIOUS
<1>4. /\ DOMAIN y = DOMAIN x /\ y.state = "PENDING" /\ y.corrected = FALSE
      /\ y.active = Registered /\ y.mark = x.mark /\ y.confirmed = {}
      /\ y.item = [r \in Attendees |-> IF r \in x.active /\ x.item[r] = Null
                                       THEN Snapshot(x, r) ELSE x.item[r]]
  BY <1>2, <1>3 DEF Prepared
<1>5. FirstRole \in RoleNames
  BY ReviewBasics DEF FirstRole
<1>6. \A r \in Attendees : Snapshot(x, r) \in ItemRow
  BY <1>2, <1>5 DEF Snapshot, ItemRow, Matches, Choices
<1>7. ItemsT(x) /\ ItemsT(y)
  BY <1>2, <1>4, <1>6 DEF ItemsT
<1>8. PICK z : z = Approved(y)
  OBVIOUS
<1>9. z.state = "APPROVED" /\ z.corrected = TRUE /\ z.active = Registered /\ z.mark = x.mark
      /\ z.item = y.item /\ z.confirmed \subseteq Attendees
  BY <1>2, <1>4, <1>8 DEF Approved
<1>10. reviewDb \in {x, y, z}
  BY <1>1, <1>3, <1>8 DEF ReviewStart
<1>11. ReviewDbT /\ reviewDb.active = Registered
  <2>1. ItemsT(reviewDb)
    <3>1. ItemsT(z)
      BY <1>7, <1>9 DEF ItemsT
    <3> QED
      BY <1>7, <1>10, <3>1
  <2>2. /\ reviewDb.state \in ReviewStates /\ reviewDb.corrected \in BOOLEAN
        /\ reviewDb.active = Registered /\ reviewDb.mark = x.mark
        /\ reviewDb.confirmed \subseteq Attendees
    BY <1>2, <1>4, <1>9, <1>10 DEF ReviewStates
  <2> QED
    BY <1>2, <2>1, <2>2 DEF ReviewDbT
<1>12. PICK d : d = ReviewOf(reviewDb)
  OBVIOUS
<1>13. ShownT(d)
  BY <1>11, <1>12, ReviewOfT, ReviewBasics DEF ReviewDbT
<1>14. PICK chief \in BOOLEAN : reviewView \in {[EmptyView(chief) EXCEPT !.mount = 1, !.shown = d], EmptyView(chief)}
  BY <1>12, ReviewBasics DEF ReviewStart
<1>15. /\ reviewView.chief \in BOOLEAN /\ reviewView.mount \in {0, 1}
       /\ reviewView.shown = d \/ reviewView.shown = Null
       /\ reviewView.drafts = NoDrafts /\ reviewView.previewed = {}
  <2>1. PICK e : e = EmptyView(chief) /\ reviewView \in {[e EXCEPT !.mount = 1, !.shown = d], e}
    BY <1>14
  <2>2. /\ DOMAIN e = {"chief", "mount", "shown", "drafts", "previewed"}
        /\ e.chief = chief /\ e.mount = 0 /\ e.shown = Null /\ e.drafts = NoDrafts /\ e.previewed = {}
    BY <2>1 DEF EmptyView
  <2>3. CASE reviewView = e
    BY <2>2, <2>3
  <2>4. CASE reviewView = [e EXCEPT !.mount = 1, !.shown = d]
    BY <2>2, <2>4
  <2> QED
    BY <2>1, <2>3, <2>4
<1>16. ReviewViewT
  BY <1>13, <1>15 DEF ReviewViewT, NoDrafts
<1> QED
  BY <1>11, <1>15, <1>16

-----------------------------------------------------------------------------
(* Scoring. *)
EditorShape == [mode: {"none", "create", "existing"}, id: Versions \cup {Null},
                state: VersionStates, sound: BOOLEAN, waits: Nat]
ScoringDbT ==
  /\ policies \subseteq Policies
  /\ version \in [Versions -> VersionRow]
  /\ season \in SeasonRow
  /\ moment \in [ScoredEvents -> Instants]
  /\ awards \subseteq AwardRow
  /\ status \in [Statuses -> StatusStates]
RefsT == refs \in [policies: SUBSET Policies, season: SeasonRow, publishable: SUBSET Policies]
\* The editor of a new version belongs to the policy that is open.
DeskT(d) ==
  /\ DOMAIN d = {"policy", "rows", "editor"}
  /\ d.policy \in Policies \cup {Null}
  /\ d.rows \subseteq [id: Versions, state: VersionStates]
  /\ d.editor \in EditorShape
  /\ d.editor.mode = "create" => d.policy \in Policies
PickerFields == {"found", "person", "rows", "adding", "play", "outcome"}
PickT(x) == DOMAIN x = PickerFields /\ x.found \subseteq People /\ x.person \in People \cup {Null}
PickerT == DOMAIN picker = Panels /\ \A k \in Panels : PickT(picker[k])
ScoringTypes == ScoringDbT /\ RefsT /\ DeskT(desk) /\ seasonForm \in BOOLEAN /\ PickerT

LEMMA ScoringTypesTell == ScoringTypes => ScoringTypeOK
BY DEF ScoringTypes, ScoringTypeOK, ScoringDbT, RefsT, DeskT, PickerT, PickT, EditorShape

LEMMA ScoringDbSame == ASSUME ScoringDbT, UNCHANGED scoringServer PROVE ScoringDbT'
BY DEF ScoringDbT, scoringServer
LEMMA RefsSame == ASSUME RefsT, UNCHANGED refs PROVE RefsT'
BY DEF RefsT
LEMMA DeskSame == ASSUME DeskT(desk), UNCHANGED desk PROVE DeskT(desk)'
BY DEF DeskT
LEMMA PickerSame == ASSUME PickerT, UNCHANGED picker PROVE PickerT'
BY DEF PickerT, PickT
LEMMA ScoringSame == ASSUME ScoringTypes, UNCHANGED scoringVars PROVE ScoringTypes'
BY ScoringDbSame, RefsSame, DeskSame, PickerSame DEF ScoringTypes, scoringVars, scoringView

Freely == {"references", "createPolicy", "versions", "people", "listStatuses", "assignStatus",
           "retireStatus", "participations", "preview", "retireVersion"}
LEMMA FreelySent == \A o \in Freely : o \in ScoringOps /\ o \in AllOps /\ \A a : SentT(o, a)
BY DEF Freely, ScoringOps, AllOps, SentT

LEMMA ScoringAskT ==
  ASSUME TypedCalls, UNCHANGED page, NEW o \in ScoringOps, NEW a, SentT(o, a),
         calls' = Append(calls, Call(o, a)) \/ calls' = Append(calls, OthersCall(o, a))
  PROVE  TypedCalls' /\ Len(calls') \in Nat
BY TypedAsk DEF Asked, AllOps

LEMMA FreeAskT ==
  ASSUME TypedCalls, UNCHANGED page, NEW o \in Freely, NEW a,
         calls' = Append(calls, Call(o, a)) \/ calls' = Append(calls, OthersCall(o, a))
  PROVE  TypedCalls' /\ Len(calls') \in Nat
BY ScoringAskT, FreelySent

\* The values of the editor change, or it closes, while its policy stays.
LEMMA VersionEditorT ==
  ASSUME DeskT(desk), NEW e \in EditorShape, desk' = [desk EXCEPT !.editor = e],
         e.mode = "create" => desk.policy \in Policies
  PROVE  DeskT(desk)'
BY DEF DeskT

LEMMA EditorCallT ==
  ASSUME TypedCalls, ScoringTypes, NEW o \in ScoringOps, NEW a, EditorCall(o, a), SentT(o, a)
  PROVE  TypedCalls' /\ ScoringTypes'
<1>1. TypedCalls' /\ Len(calls') \in Nat
  BY ScoringAskT DEF EditorCall
<1>2. PICK e : e = [desk.editor EXCEPT !.waits = Len(calls')]
  OBVIOUS
<1>3. e \in EditorShape /\ e.mode = desk.editor.mode
  BY <1>1, <1>2 DEF ScoringTypes, DeskT, EditorShape
<1>4. desk' = [desk EXCEPT !.editor = e]
  BY <1>2 DEF EditorCall
<1>5. DeskT(desk)'
  BY <1>3, <1>4, VersionEditorT DEF ScoringTypes, DeskT
<1> QED
  BY <1>1, <1>5, ScoringDbSame, RefsSame, PickerSame DEF EditorCall, ScoringTypes

LEMMA PickedT ==
  ASSUME PickerT, NEW k, NEW x, PickT(x), picker' = [picker EXCEPT ![k] = x]
  PROVE  PickerT'
<1>1. DOMAIN picker' = Panels /\ \A j \in Panels : picker'[j] \in {x, picker[j]}
  BY DEF PickerT
<1> QED
  BY <1>1 DEF PickerT, PickT

LEMMA ScoringClickT ==
  ASSUME TypedCalls, ScoringTypes, ScoringClicks
  PROVE  TypedCalls' /\ ScoringTypes'
<1> USE DEF ScoringTypes
<1>1. ASSUME UNCHANGED <<page, calls>>
      PROVE  TypedCalls'
  BY <1>1, TypedRest DEF AskedNone
<1>2. CASE CreatePolicy \/ (\E k \in Panels : SearchPeople(k)) \/ AssignStatus \/ \E s \in Statuses : RetireStatus(s)
  <2>1. ASSUME NEW o \in Freely, NEW a, calls' = Append(calls, Call(o, a)), UNCHANGED <<page, scoringVars>>
        PROVE  TypedCalls' /\ ScoringTypes'
    BY <2>1, FreeAskT, ScoringSame
  <2>2. CASE CreatePolicy
    BY <2>1, <2>2 DEF CreatePolicy, Freely
  <2>3. CASE \E k \in Panels : SearchPeople(k)
    BY <2>1, <2>3 DEF SearchPeople, Freely
  <2>4. CASE AssignStatus
    BY <2>1, <2>4 DEF AssignStatus, Freely
  <2>5. CASE \E s \in Statuses : RetireStatus(s)
    BY <2>1, <2>5 DEF RetireStatus, Freely
  <2> QED
    BY <1>2, <2>2, <2>3, <2>4, <2>5
<1>3. CASE NewDraft
  <2>1. PICK e : e = [NoEditor EXCEPT !.mode = "create"]
    OBVIOUS
  <2>2. e \in EditorShape
    BY <2>1 DEF EditorShape, NoEditor, VersionStates
  <2>3. DeskT(desk)'
    BY <1>3, <2>1, <2>2, VersionEditorT DEF NewDraft, DeskT
  <2> QED
    BY <1>1, <1>3, <2>3, ScoringDbSame, RefsSame, PickerSame DEF NewDraft, shell
<1>4. CASE EditValues
  <2>1. PICK e : e = [desk.editor EXCEPT !.sound = ~@] /\ desk' = [desk EXCEPT !.editor = e]
    BY <1>4 DEF EditValues
  <2>2. e \in EditorShape /\ e.mode = desk.editor.mode
    BY <2>1 DEF EditorShape, DeskT
  <2>3. DeskT(desk)'
    BY <2>1, <2>2, VersionEditorT DEF DeskT
  <2> QED
    BY <1>1, <1>4, <2>3, ScoringDbSame, RefsSame, PickerSame DEF EditValues, shell
<1>5. NoEditor \in EditorShape /\ NoEditor.mode = "none"
  BY DEF NoEditor, EditorShape, VersionStates
<1>6. CASE CloseEditor
  <2>1. DeskT(desk)'
    BY <1>5, <1>6, VersionEditorT DEF CloseEditor
  <2> QED
    BY <1>1, <1>6, <2>1, ScoringDbSame, RefsSame, PickerSame DEF CloseEditor, shell
<1>7. CASE SaveVersion
  <2>1. CASE desk.editor.mode = "create"
    <3>1. PICK a : a = [policy |-> desk.policy, sound |-> desk.editor.sound]
      OBVIOUS
    <3>2. SentT("createVersion", a)
      BY <2>1, <3>1 DEF SentT, DeskT, EditorShape
    <3> QED
      BY <1>7, <2>1, <3>1, <3>2, EditorCallT DEF SaveVersion, ScoringOps
  <2>2. CASE desk.editor.mode # "create"
    <3>1. PICK a : a = [policy |-> desk.policy, id |-> desk.editor.id, sound |-> desk.editor.sound]
      OBVIOUS
    <3>2. SentT("saveVersion", a)
      BY <3>1 DEF SentT, DeskT, EditorShape
    <3> QED
      BY <1>7, <2>2, <3>1, <3>2, EditorCallT DEF SaveVersion, ScoringOps
  <2> QED
    BY <2>1, <2>2
<1>8. CASE RetireVersion
  BY <1>8, FreelySent, EditorCallT DEF RetireVersion, Freely
<1>9. ASSUME NEW span \in Periods, PublishVersion(span)
      PROVE  TypedCalls' /\ ScoringTypes'
  <2>1. PICK a : a = [policy |-> desk.policy, id |-> desk.editor.id, span |-> span]
    OBVIOUS
  <2>2. SentT("publish", a)
    BY <2>1, ScoringBasics DEF SentT
  <2> QED
    BY <1>9, <2>1, <2>2, EditorCallT DEF PublishVersion, ScoringOps
<1>10. CASE OpenSeasonForm \/ CloseSeasonForm
  BY <1>1, <1>10, ScoringDbSame, RefsSame, DeskSame, PickerSame DEF OpenSeasonForm,
     CloseSeasonForm, shell
<1>11. ASSUME NEW p \in Policies, OpenPolicy(p)
       PROVE  TypedCalls' /\ ScoringTypes'
  <2>1. TypedCalls'
    BY <1>11, FreeAskT DEF OpenPolicy, Freely
  <2>2. DeskT(desk)'
    BY <1>11 DEF OpenPolicy, DeskT
  <2> QED
    BY <1>11, <2>1, <2>2, ScoringDbSame, RefsSame, PickerSame DEF OpenPolicy
<1>12. ASSUME NEW p \in Policies, NEW t \in Instants, AssignSeason(p, t)
       PROVE  TypedCalls' /\ ScoringTypes'
  <2>1. PICK a : a = [policy |-> p, from |-> t]
    OBVIOUS
  <2>2. SentT("assignSeason", a)
    BY <2>1 DEF SentT, SeasonRow
  <2>3. TypedCalls'
    BY <1>12, <2>1, <2>2, ScoringAskT DEF AssignSeason, ScoringOps
  <2> QED
    BY <1>12, <2>3, ScoringSame DEF AssignSeason
<1>13. ASSUME NEW v \in Versions, OpenVersion(v)
       PROVE  TypedCalls' /\ ScoringTypes'
  <2>1. SentT("version", v)
    BY DEF SentT
  <2>2. TypedCalls'
    BY <1>13, <2>1, ScoringAskT DEF OpenVersion, ScoringOps
  <2> QED
    BY <1>13, <2>2, ScoringSame DEF OpenVersion
<1>14. ASSUME NEW k \in Panels, NEW p \in People, SelectPerson(k, p)
       PROVE  TypedCalls' /\ ScoringTypes'
  <2>1. PICK x : x = [picker[k] EXCEPT !.person = p, !.adding = FALSE, !.play = Null, !.outcome = Null]
                 /\ picker' = [picker EXCEPT ![k] = x]
    BY <1>14 DEF SelectPerson
  <2>2. PickT(x)
    BY <2>1 DEF PickerT, PickT, PickerFields
  <2>3. PICK o, a : o \in Freely /\ calls' = Append(calls, Call(o, a))
    BY <1>14 DEF SelectPerson, Freely
  <2> QED
    BY <1>14, <2>1, <2>2, <2>3, PickedT, FreeAskT, ScoringDbSame, RefsSame, DeskSame
       DEF SelectPerson
<1>15. ASSUME NEW k \in Panels, NEW x, PickT(x), picker' = [picker EXCEPT ![k] = x],
              UNCHANGED <<page, calls, scoringServer, refs, desk, seasonForm>>
       PROVE  TypedCalls' /\ ScoringTypes'
  BY <1>1, <1>15, PickedT, ScoringDbSame, RefsSame, DeskSame
<1>16. ASSUME NEW k \in Panels, ClearPerson(k)
       PROVE  TypedCalls' /\ ScoringTypes'
  <2>1. PICK x : x = [NoOneChosen EXCEPT !.found = picker[k].found]
    OBVIOUS
  <2>2. PickT(x)
    BY <2>1 DEF PickerT, PickT, PickerFields, NoOneChosen
  <2> QED
    BY <1>15, <1>16, <2>1, <2>2 DEF ClearPerson, shell
<1>17. ASSUME NEW open, OpenStatusForm(open)
       PROVE  TypedCalls' /\ ScoringTypes'
  <2>1. PICK x : x = [picker["statuses"] EXCEPT !.adding = open] /\ picker' = [picker EXCEPT !["statuses"] = x]
    BY <1>17 DEF OpenStatusForm
  <2>2. PickT(x)
    BY <2>1 DEF PickerT, PickT, PickerFields, Panels
  <2> QED
    BY <1>15, <1>17, <2>1, <2>2 DEF OpenStatusForm, Panels
<1>18. ASSUME NEW x, SelectPlay(x)
       PROVE  TypedCalls' /\ ScoringTypes'
  <2>1. PICK y : y = [picker["simulator"] EXCEPT !.play = x, !.outcome = Null]
                 /\ picker' = [picker EXCEPT !["simulator"] = y]
    BY <1>18 DEF SelectPlay
  <2>2. PickT(y)
    BY <2>1 DEF PickerT, PickT, PickerFields, Panels
  <2> QED
    BY <1>15, <1>18, <2>1, <2>2 DEF SelectPlay, Panels, shell
<1>19. CASE Calculate
  <2>1. PICK y : y = [picker["simulator"] EXCEPT !.outcome = Null]
                 /\ picker' = [picker EXCEPT !["simulator"] = y]
    BY <1>19 DEF Calculate
  <2>2. PickT(y)
    BY <2>1 DEF PickerT, PickT, PickerFields, Panels
  <2>3. TypedCalls'
    BY <1>19, FreeAskT DEF Calculate, Freely
  <2> QED
    BY <1>19, <2>1, <2>2, <2>3, PickedT, ScoringDbSame, RefsSame, DeskSame DEF Calculate
<1> QED
  BY <1>2, <1>3, <1>4, <1>6, <1>7, <1>8, <1>9, <1>10, <1>11, <1>12, <1>13, <1>14, <1>16, <1>17,
     <1>18, <1>19
     DEF ScoringClicks

LEMMA OtherScoringT ==
  ASSUME TypedCalls, ScoringTypes, OtherScoring
  PROVE  TypedCalls' /\ ScoringTypes'
<1>1. UNCHANGED <<page, scoringVars>>
  BY DEF OtherScoring
<1>2. ASSUME NEW o \in ScoringOps, NEW a, SentT(o, a), calls' = Append(calls, OthersCall(o, a))
      PROVE  TypedCalls'
  BY <1>1, <1>2, ScoringAskT
<1>3. ASSUME NEW o \in Freely, NEW a, calls' = Append(calls, OthersCall(o, a))
      PROVE  TypedCalls'
  BY <1>1, <1>3, FreeAskT
<1>4. ASSUME NEW v, NEW sound \in BOOLEAN,
             calls' = Append(calls, OthersCall("saveVersion", [id |-> v, sound |-> sound]))
      PROVE  TypedCalls'
  <2>1. PICK a : a = [id |-> v, sound |-> sound]
    OBVIOUS
  <2>2. SentT("saveVersion", a)
    BY <2>1 DEF SentT
  <2> QED
    BY <1>2, <1>4, <2>1, <2>2 DEF ScoringOps
<1>5. ASSUME NEW v, NEW span \in Periods,
             calls' = Append(calls, OthersCall("publish", [id |-> v, span |-> span]))
      PROVE  TypedCalls'
  <2>1. PICK a : a = [id |-> v, span |-> span]
    OBVIOUS
  <2>2. SentT("publish", a)
    BY <2>1, ScoringBasics DEF SentT
  <2> QED
    BY <1>2, <1>5, <2>1, <2>2 DEF ScoringOps
<1>6. ASSUME NEW e \in ScoredEvents, calls' = Append(calls, OthersCall("award", e))
      PROVE  TypedCalls'
  <2>1. SentT("award", e)
    BY DEF SentT
  <2> QED
    BY <1>2, <1>6, <2>1 DEF ScoringOps
<1>7. ASSUME NEW p \in policies, NEW t \in Instants,
             calls' = Append(calls, OthersCall("assignSeason", [policy |-> p, from |-> t]))
      PROVE  TypedCalls'
  <2>1. PICK a : a = [policy |-> p, from |-> t]
    OBVIOUS
  <2>2. SentT("assignSeason", a)
    BY <2>1 DEF SentT, SeasonRow, ScoringTypes, ScoringDbT
  <2> QED
    BY <1>2, <1>7, <2>1, <2>2 DEF ScoringOps
<1>8. ASSUME NEW e, NEW t \in Instants,
             calls' = Append(calls, OthersCall("moveEvent", [event |-> e, to |-> t]))
      PROVE  TypedCalls'
  <2>1. PICK a : a = [event |-> e, to |-> t]
    OBVIOUS
  <2>2. SentT("moveEvent", a)
    BY <2>1 DEF SentT
  <2> QED
    BY <1>2, <1>8, <2>1, <2>2 DEF ScoringOps
<1>9. ASSUME calls' = Append(calls, OthersCall("assignSeason", [policy |-> Null, from |-> 0]))
      PROVE  TypedCalls'
  <2>1. PICK a : a = [policy |-> Null, from |-> 0]
    OBVIOUS
  <2>2. SentT("assignSeason", a)
    BY <2>1 DEF SentT
  <2> QED
    BY <1>2, <1>9, <2>1, <2>2 DEF ScoringOps
<1>10. TypedCalls'
  BY <1>3, <1>4, <1>5, <1>6, <1>7, <1>8, <1>9 DEF OtherScoring, Freely
<1> QED
  BY <1>1, <1>10, ScoringSame

LEMMA ScoringReceiveT ==
  ASSUME TypedCalls, ScoringTypes, NEW i \in DOMAIN calls, ScoringReceives(i)
  PROVE  TypedCalls' /\ ScoringTypes'
<1> USE DEF ScoringTypes
<1>1. ASSUME calls' = Over(i), UNCHANGED page
      PROVE  TypedCalls'
  BY <1>1, TypedTake DEF AskedNone
<1>2. ASSUME NEW o \in ScoringOps, NEW a, SentT(o, a), calls' = Append(Over(i), Call(o, a)), UNCHANGED page
      PROVE  TypedCalls'
  BY <1>2, TypedGoOn DEF Asked, AllOps
<1>3. ASSUME NEW o \in Freely, NEW a, calls' = Append(Over(i), Call(o, a)), UNCHANGED page
      PROVE  TypedCalls'
  BY <1>2, <1>3, FreelySent
<1>4. CASE LookUpVersions(i)
  <2>1. PICK d : d = calls[i].data
    OBVIOUS
  <2>2. ListsT(d)
    BY <1>4, <2>1, ReplyIsTyped DEF LookUpVersions, ReplyT
  <2>3. PICK a : a = [after |-> calls[i].arg.after, made |-> calls[i].arg.made, lists |-> d]
    OBVIOUS
  <2>4. a.lists = d
    BY <2>3
  <2>5. SentT("publishable", a)
    BY <2>2, <2>4 DEF SentT
  <2> QED
    BY <1>2, <1>4, <2>1, <2>3, <2>5, ScoringSame DEF LookUpVersions, ScoringOps
<1>5. CASE CommitReferences(i)
  <2>1. calls[i].data \subseteq Policies /\ ListsT(calls[i].arg.lists)
    BY <1>5, ReplyIsTyped DEF CommitReferences, ReplyT, SentT
  <2>2. RefsT'
    BY <1>5, <2>1 DEF CommitReferences, RefsT, ListsT
  <2> QED
    BY <1>1, <1>5, <2>2, ScoringDbSame, DeskSame, PickerSame DEF CommitReferences
<1>6. CASE ReferencesFail(i) \/ ChangeFails(i) \/ StatusesFail(i)
  BY <1>1, <1>6, ScoringSame DEF ReferencesFail, ChangeFails, StatusesFail
<1>7. CASE PolicyCreated(i)
  BY <1>3, <1>7, ScoringSame DEF PolicyCreated, Reload, Freely
<1>8. CASE ShowVersions(i)
  <2>1. calls[i].data \subseteq [id: Versions, state: VersionStates]
    BY <1>8, ReplyIsTyped DEF ShowVersions, ReplyT
  <2>2. DeskT(desk)'
    BY <1>8, <2>1 DEF ShowVersions, DeskT
  <2> QED
    BY <1>1, <1>8, <2>2, ScoringDbSame, RefsSame, PickerSame DEF ShowVersions
<1>9. CASE ShowVersion(i)
  <2>1. calls[i].data \in VersionRow /\ calls[i].arg \in Versions
    BY <1>9, ReplyIsTyped DEF ShowVersion, ReplyT, SentT
  <2>2. PICK b, n : /\ b = (IF desk.editor.mode = "none" THEN calls[i].data.sound ELSE desk.editor.sound)
                    /\ n = (IF desk.editor.mode = "none" THEN 0 ELSE desk.editor.waits)
    OBVIOUS
  <2>3. b \in BOOLEAN /\ n \in Nat
    BY <2>1, <2>2 DEF VersionRow, DeskT, EditorShape
  <2>4. PICK e : e = [mode |-> "existing", id |-> calls[i].arg, state |-> calls[i].data.state,
                      sound |-> b, waits |-> n]
    OBVIOUS
  <2>5. e \in EditorShape /\ e.mode = "existing"
    BY <2>1, <2>3, <2>4 DEF EditorShape, VersionRow
  <2>6. desk' = [desk EXCEPT !.editor = e]
    BY <1>9, <2>2, <2>4 DEF ShowVersion, DeskT
  <2>7. DeskT(desk)'
    BY <2>5, <2>6, VersionEditorT
  <2> QED
    BY <1>1, <1>9, <2>7, ScoringDbSame, RefsSame, PickerSame DEF ShowVersion
<1>10. NoEditor \in EditorShape /\ NoEditor.mode = "none"
  BY DEF NoEditor, EditorShape, VersionStates
<1>11. CASE EditorSaved(i)
  <2>1. DeskT(desk)'
    BY <1>10, <1>11, VersionEditorT DEF EditorSaved
  <2>2. TypedCalls'
    BY <1>3, <1>11 DEF EditorSaved, Freely
  <2> QED
    BY <1>11, <2>1, <2>2, ScoringDbSame, RefsSame, PickerSame DEF EditorSaved
<1>12. CASE EditorFails(i)
  <2>1. PICK e : e = [desk.editor EXCEPT !.waits = 0]
    OBVIOUS
  <2>2. e \in EditorShape /\ e.mode = desk.editor.mode
    BY <2>1 DEF DeskT, EditorShape
  <2>3. UNCHANGED desk \/ desk' = [desk EXCEPT !.editor = e]
    BY <1>12, <2>1 DEF EditorFails
  <2>4. DeskT(desk)'
    BY <2>2, <2>3, VersionEditorT, DeskSame DEF DeskT
  <2> QED
    BY <1>1, <1>12, <2>4, ScoringDbSame, RefsSame, PickerSame DEF EditorFails
<1>13. CASE SeasonAssigned(i)
  <2>1. TypedCalls'
    BY <1>3, <1>13 DEF SeasonAssigned, Reload, Freely
  <2> QED
    BY <1>13, <2>1, ScoringDbSame, RefsSame, DeskSame, PickerSame DEF SeasonAssigned
<1>14. ASSUME NEW k, NEW x, k \in Panels => PickT(x), picker' = [picker EXCEPT ![k] = x]
       PROVE  PickerT'
  <2>1. /\ DOMAIN picker' = Panels
        /\ \A j \in Panels : picker'[j] = picker[j] \/ (j = k /\ picker'[j] = x)
    BY <1>14 DEF PickerT
  <2> QED
    BY <1>14, <2>1 DEF PickerT, PickT
<1>15. CASE ShowPeople(i)
  <2>1. PICK k, x : /\ k = calls[i].arg /\ x = [picker[k] EXCEPT !.found = People]
                    /\ picker' = [picker EXCEPT ![k] = x]
    BY <1>15 DEF ShowPeople
  <2>2. k \in Panels => PickT(x)
    BY <2>1 DEF PickerT, PickT, PickerFields
  <2>3. PickerT'
    BY <1>14, <2>1, <2>2
  <2> QED
    BY <1>1, <1>15, <2>3, ScoringDbSame, RefsSame, DeskSame DEF ShowPeople
<1>16. CASE StatusChanged(i)
  <2>1. PICK x : /\ x = [picker["statuses"] EXCEPT !.adding = FALSE]
                 /\ UNCHANGED picker \/ picker' = [picker EXCEPT !["statuses"] = x]
    BY <1>16 DEF StatusChanged
  <2>2. PickT(x)
    BY <2>1 DEF PickerT, PickT, PickerFields, Panels
  <2>3. PickerT'
    BY <1>14, <2>1, <2>2, PickerSame
  <2>4. TypedCalls'
    BY <1>3, <1>16 DEF StatusChanged, Freely
  <2> QED
    BY <1>16, <2>3, <2>4, ScoringDbSame, RefsSame, DeskSame DEF StatusChanged
<1>17. CASE ShowStatuses(i) \/ ShowParticipations(i)
  <2>1. PICK k \in Panels, d \in {calls[i].data} : picker' = [picker EXCEPT ![k].rows = d]
    BY <1>17 DEF ShowStatuses, ShowParticipations, Panels
  <2>2. PICK x : x = [picker[k] EXCEPT !.rows = d] /\ picker' = [picker EXCEPT ![k] = x]
    BY <2>1
  <2>3. PickT(x)
    BY <2>2 DEF PickerT, PickT, PickerFields
  <2>4. PickerT'
    BY <1>14, <2>2, <2>3
  <2> QED
    BY <1>1, <1>17, <2>4, ScoringDbSame, RefsSame, DeskSame DEF ShowStatuses, ShowParticipations
<1>18. CASE ShowPreview(i)
  <2>1. PICK d : picker' = [picker EXCEPT !["simulator"].outcome = d]
    BY <1>18 DEF ShowPreview
  <2>2. PICK x : x = [picker["simulator"] EXCEPT !.outcome = d] /\ picker' = [picker EXCEPT !["simulator"] = x]
    BY <2>1
  <2>3. PickT(x)
    BY <2>2 DEF PickerT, PickT, PickerFields, Panels
  <2>4. PickerT'
    BY <1>14, <2>2, <2>3
  <2> QED
    BY <1>1, <1>18, <2>4, ScoringDbSame, RefsSame, DeskSame DEF ShowPreview
<1> QED
  BY <1>4, <1>5, <1>6, <1>7, <1>8, <1>9, <1>11, <1>12, <1>13, <1>15, <1>16, <1>17, <1>18
     DEF ScoringReceives

LEMMA ScoringServeT ==
  ASSUME TypedCalls, ScoringTypes, ~InUse(PeoplePanels), NEW i \in DOMAIN calls, ScoringServes(i)
  PROVE  TypedCalls' /\ ScoringTypes'
<1> USE DEF ScoringTypes
<1>1. UNCHANGED <<page, scoringView>>
  BY DEF ScoringServes, ServeReferences, ServePublishable, ServeCreatePolicy, ServeVersions,
     ServeVersion, ServeCreateVersion, ServeSaveVersion, ProbePublish, ServePublish, ProbeRetire,
     ServeRetire, ServeAssignSeason, BeginAward, ServeAward, ServeMoveEvent, ServePeople,
     ServeAssignStatus, ServeRetireStatus, ServeStatuses, ServeParticipations, ServePreview,
     scoringVars
<1>2. RefsT' /\ DeskT(desk)' /\ seasonForm' \in BOOLEAN /\ PickerT'
  BY <1>1, RefsSame, DeskSame, PickerSame DEF scoringView
<1>3. ASSUME NEW o, Waits(i, o) \/ IsOpen(i, o), NEW d, ReplyT(o, d), Done(i, d)
      PROVE  TypedCalls'
  BY <1>1, <1>3, DoneT DEF AskedNone
<1>4. ASSUME NEW o, Waits(i, o) \/ IsOpen(i, o), Refused(i)
      PROVE  TypedCalls'
  BY <1>1, <1>4, RefusedT DEF AskedNone
<1>5. ASSUME NEW o, Waits(i, o), o \notin EventReplies, NEW d, Began(i, d)
      PROVE  TypedCalls'
  BY <1>1, <1>5, ReadyT, TypedBegin DEF OpenT, AskedNone
<1>6. \A o \in ScoringOps \ {"references", "publishable", "versions", "version"} : \A d : ReplyT(o, d)
  BY DEF ScoringOps, ReplyT, PersonReplies, Sess, EventReplies, ReviewReplies
<1>7. UNCHANGED scoringServer => ScoringDbT'
  BY ScoringDbSame
<1>8. CASE ServeReferences(i)
  <2>1. PICK d : d = [policies |-> policies, season |-> season]
    OBVIOUS
  <2>2. ReplyT("references", d)
    BY <2>1 DEF ScoringDbT, ReplyT, ListsT, PersonReplies, Sess, EventReplies, ReviewReplies
  <2> QED
    BY <1>2, <1>3, <1>7, <1>8, <2>1, <2>2 DEF ServeReferences, scoringVars
<1>9. CASE ServePublishable(i)
  <2>1. PICK d : d = {p \in calls[i].arg.lists.policies : Published(p, version)}
    OBVIOUS
  <2>2. d \subseteq Policies
    BY <1>9, <2>1, ReadyT DEF ServePublishable, SentT, ListsT
  <2>3. ReplyT("publishable", d)
    BY <2>2 DEF ReplyT, PersonReplies, Sess, EventReplies, ReviewReplies
  <2> QED
    BY <1>2, <1>3, <1>7, <1>9, <2>1, <2>3 DEF ServePublishable, scoringVars
<1>10. CASE ServeVersions(i)
  <2>1. PICK d : d = PolicyRows(calls[i].arg)
    OBVIOUS
  <2>2. d \subseteq [id: Versions, state: VersionStates]
    BY <2>1 DEF PolicyRows, ScoringDbT, VersionRow
  <2>3. ReplyT("versions", d)
    BY <2>2 DEF ReplyT, PersonReplies, Sess, EventReplies, ReviewReplies
  <2> QED
    BY <1>2, <1>3, <1>7, <1>10, <2>1, <2>3 DEF ServeVersions, scoringVars
<1>11. CASE ServeVersion(i)
  <2>1. PICK d : d = version[calls[i].arg]
    OBVIOUS
  <2>2. d \in VersionRow
    BY <1>11, <2>1, ReadyT DEF ServeVersion, ScoringDbT, SentT
  <2>3. ReplyT("version", d)
    BY <2>2 DEF ReplyT, PersonReplies, Sess, EventReplies, ReviewReplies
  <2> QED
    BY <1>2, <1>3, <1>7, <1>11, <2>1, <2>3 DEF ServeVersion, scoringVars
<1>12. CASE ServeCreatePolicy(i)
  <2>1. TypedCalls'
    BY <1>3, <1>4, <1>6, <1>12 DEF ServeCreatePolicy, ScoringOps
  <2>2. ScoringDbT'
    BY <1>12 DEF ServeCreatePolicy, ScoringDbT
  <2> QED
    BY <1>2, <2>1, <2>2
<1>13. ASSUME NEW v, NEW x, v \in Versions => x \in VersionRow,
              version' = [version EXCEPT ![v] = x], UNCHANGED <<policies, season, moment, awards, status>>
       PROVE  ScoringDbT'
  <2>1. \A w \in Versions : version'[w] = version[w] \/ (w = v /\ version'[w] = x)
    BY <1>13 DEF ScoringDbT
  <2>2. version' \in [Versions -> VersionRow]
    BY <1>13, <2>1 DEF ScoringDbT
  <2> QED
    BY <1>13, <2>2 DEF ScoringDbT
<1>14. UNCHANGED <<version, policies, season, moment, awards, status>> => ScoringDbT'
  BY DEF ScoringDbT
<1>15. \A v \in Versions : version[v] \in VersionRow
  BY DEF ScoringDbT
<1>16. CASE ServeCreateVersion(i)
  <2>1. calls[i].arg.policy \in Policies /\ calls[i].arg.sound \in BOOLEAN
    BY <1>16, ReadyT DEF ServeCreateVersion, SentT
  <2>2. PICK v, x : /\ x = [policy |-> calls[i].arg.policy, state |-> "DRAFT",
                            sound |-> calls[i].arg.sound, span |-> {}]
                    /\ version' = [version EXCEPT ![v] = x]
    BY <1>16 DEF ServeCreateVersion
  <2>3. x \in VersionRow
    BY <2>1, <2>2 DEF VersionRow, VersionStates
  <2>4. ScoringDbT'
    BY <1>13, <1>16, <2>2, <2>3 DEF ServeCreateVersion
  <2>5. TypedCalls'
    BY <1>3, <1>6, <1>16 DEF ServeCreateVersion, ScoringOps
  <2> QED
    BY <1>2, <2>4, <2>5
<1>17. CASE ServeSaveVersion(i)
  <2>1. TypedCalls'
    BY <1>3, <1>4, <1>6, <1>17 DEF ServeSaveVersion, ScoringOps
  <2>2. CASE UNCHANGED version
    BY <1>2, <1>14, <1>17, <2>1, <2>2 DEF ServeSaveVersion
  <2>3. CASE version' = [version EXCEPT ![calls[i].arg.id].sound = calls[i].arg.sound]
    <3>1. PICK v, b : v = calls[i].arg.id /\ b = calls[i].arg.sound
      OBVIOUS
    <3>2. b \in BOOLEAN
      BY <1>17, <3>1, ReadyT DEF ServeSaveVersion, SentT
    <3>3. PICK x : x = [version[v] EXCEPT !.sound = b] /\ version' = [version EXCEPT ![v] = x]
      BY <2>3, <3>1
    <3>4. v \in Versions => x \in VersionRow
      BY <1>15, <3>2, <3>3 DEF VersionRow
    <3> QED
      BY <1>2, <1>13, <1>17, <2>1, <3>3, <3>4 DEF ServeSaveVersion
  <2> QED
    BY <1>17, <2>2, <2>3 DEF ServeSaveVersion
<1>18. CASE ProbePublish(i) \/ ProbeRetire(i) \/ BeginAward(i)
  <2>1. TypedCalls'
    BY <1>5, <1>18 DEF ProbePublish, ProbeRetire, BeginAward, EventReplies
  <2> QED
    BY <1>2, <1>7, <1>18, <2>1 DEF ProbePublish, ProbeRetire, BeginAward, scoringVars
<1>19. CASE ServePublish(i)
  <2>1. TypedCalls'
    BY <1>3, <1>4, <1>6, <1>19 DEF ServePublish, ScoringOps
  <2>2. CASE UNCHANGED version
    BY <1>2, <1>14, <1>19, <2>1, <2>2 DEF ServePublish
  <2>3. CASE version' # version
    <3>1. PICK v, s : v = calls[i].arg.id /\ s = calls[i].arg.span
      OBVIOUS
    <3>2. s \subseteq Instants
      BY <1>19, <3>1, ReadyT DEF ServePublish, SentT
    <3>3. PICK x : x = [version[v] EXCEPT !.state = "PUBLISHED", !.span = s]
                   /\ version' = [version EXCEPT ![v] = x]
      BY <1>19, <2>3, <3>1 DEF ServePublish
    <3>4. v \in Versions => x \in VersionRow
      BY <1>15, <3>2, <3>3 DEF VersionRow, VersionStates
    <3> QED
      BY <1>2, <1>13, <1>19, <2>1, <3>3, <3>4 DEF ServePublish
  <2> QED
    BY <2>2, <2>3
<1>20. CASE ServeRetire(i)
  <2>1. TypedCalls'
    BY <1>3, <1>4, <1>6, <1>20 DEF ServeRetire, ScoringOps
  <2>2. CASE UNCHANGED version
    BY <1>2, <1>14, <1>20, <2>1, <2>2 DEF ServeRetire
  <2>3. CASE version' # version
    <3>1. PICK v, row : v = calls[i].arg.id /\ row = version[v]
      OBVIOUS
    <3>2. PICK x : /\ version' = [version EXCEPT ![v] = x]
                   /\ x \in {CutOff(row), [row EXCEPT !.state = "CANCELLED"]}
      BY <1>20, <2>3, <3>1 DEF ServeRetire
    <3>3. v \in Versions => x \in VersionRow
      <4>1. CASE x = CutOff(row)
        BY <1>15, <3>1, <4>1 DEF VersionRow, VersionStates, CutOff
      <4>2. CASE x = [row EXCEPT !.state = "CANCELLED"]
        BY <1>15, <3>1, <4>2 DEF VersionRow, VersionStates
      <4> QED
        BY <3>2, <4>1, <4>2
    <3> QED
      BY <1>2, <1>13, <1>20, <2>1, <3>2, <3>3 DEF ServeRetire
  <2> QED
    BY <2>2, <2>3
<1>21. CASE ServeAssignSeason(i)
  <2>1. TypedCalls'
    BY <1>3, <1>4, <1>6, <1>21 DEF ServeAssignSeason, ScoringOps
  <2>2. PICK a : a = calls[i].arg
    OBVIOUS
  <2>3. a.policy \in Policies \cup {Null} /\ a.from \in Instants \cup {0}
    BY <1>21, <2>2, ReadyT DEF ServeAssignSeason, SentT
  <2>4. PICK x : x = [policy |-> a.policy, from |-> a.from, edition |-> season.edition + 1]
    OBVIOUS
  <2>5. x \in SeasonRow
    BY <2>3, <2>4 DEF SeasonRow, ScoringDbT
  <2>6. season' = x \/ UNCHANGED season
    BY <1>21, <2>2, <2>4 DEF ServeAssignSeason
  <2>7. ScoringDbT'
    BY <1>21, <2>5, <2>6 DEF ServeAssignSeason, ScoringDbT
  <2> QED
    BY <1>2, <2>1, <2>7
<1>22. CASE ServeAward(i)
  <2>1. TypedCalls'
    BY <1>3, <1>6, <1>22 DEF ServeAward, ScoringOps
  <2>2. PICK e : e = calls[i].arg
    OBVIOUS
  <2>3. e \in ScoredEvents
    BY <1>22, <2>2, ReadyT DEF ServeAward, SentT
  <2>4. UNCHANGED awards \/ \E a \in AwardRow : awards' = awards \cup {a}
    <3>1. CASE awards' = awards \cup {[event |-> e, engine |-> "V1", version |-> Null, moved |-> FALSE]}
      BY <2>3, <3>1 DEF AwardRow
    <3>2. ASSUME NEW v \in Versions,
                 awards' = awards \cup {[event |-> e, engine |-> "V2", version |-> v, moved |-> FALSE]}
          PROVE  \E a \in AwardRow : awards' = awards \cup {a}
      BY <2>3, <3>2 DEF AwardRow
    <3> QED
      BY <1>22, <2>2, <3>1, <3>2 DEF ServeAward
  <2>5. ScoringDbT'
    BY <1>22, <2>4 DEF ServeAward, ScoringDbT
  <2> QED
    BY <1>2, <2>1, <2>5
<1>23. CASE ServePeople(i)
  <2>1. ReplyT("people", Null)
    BY <1>6 DEF ScoringOps
  <2> QED
    BY <1>2, <1>3, <1>7, <1>23, <2>1 DEF ServePeople, scoringVars
<1>24. CASE ServeAssignStatus(i)
  <2>1. TypedCalls'
    BY <1>3, <1>4, <1>6, <1>24 DEF ServeAssignStatus, ScoringOps
  <2>2. ScoringDbT'
    BY <1>24 DEF ServeAssignStatus, ScoringDbT, StatusStates
  <2> QED
    BY <1>2, <2>1, <2>2
<1>25. CASE ServeRetireStatus(i)
  <2>1. TypedCalls'
    BY <1>3, <1>4, <1>6, <1>25 DEF ServeRetireStatus, ScoringOps
  <2>2. ScoringDbT'
    BY <1>25 DEF ServeRetireStatus, ScoringDbT, StatusStates
  <2> QED
    BY <1>2, <2>1, <2>2
<1>26. CASE ServeStatuses(i) \/ ServeParticipations(i) \/ ServePreview(i)
  <2>1. TypedCalls'
    BY <1>3, <1>4, <1>6, <1>26 DEF ServeStatuses, ServeParticipations, ServePreview, ScoringOps
  <2> QED
    BY <1>2, <1>7, <1>26, <2>1 DEF ServeStatuses, ServeParticipations, ServePreview, scoringVars
<1>27. CASE ServeMoveEvent(i)
  <2>1. TypedCalls'
    BY <1>3, <1>4, <1>6, <1>27 DEF ServeMoveEvent, ScoringOps
  <2>2. PICK e, to : e = calls[i].arg.event /\ to = calls[i].arg.to
    OBVIOUS
  <2>3. to \in Instants
    BY <1>27, <2>2, ReadyT DEF ServeMoveEvent, SentT
  <2>4. moment' = [moment EXCEPT ![e] = to] \/ UNCHANGED moment
    BY <1>27, <2>2 DEF ServeMoveEvent
  <2>5. moment' \in [ScoredEvents -> Instants]
    BY <2>3, <2>4 DEF ScoringDbT
  <2>6. ASSUME NEW a \in awards, NEW b \in BOOLEAN
        PROVE  [a EXCEPT !.moved = b] \in AwardRow
    BY <2>6 DEF ScoringDbT, AwardRow
  <2>7. \A a \in awards : (a.moved \/ (a.event = e /\ moment[e] # to)) \in BOOLEAN
    BY DEF ScoringDbT, AwardRow
  <2>8. \/ UNCHANGED awards
        \/ awards' = {[a EXCEPT !.moved = @ \/ (a.event = e /\ moment[e] # to)] : a \in awards}
    BY <1>27, <2>2 DEF ServeMoveEvent
  <2>9. awards' \subseteq AwardRow
    <3>1. CASE UNCHANGED awards
      BY <3>1 DEF ScoringDbT
    <3>2. CASE awards' = {[a EXCEPT !.moved = @ \/ (a.event = e /\ moment[e] # to)] : a \in awards}
      <4>1. ASSUME NEW x \in awards'
            PROVE  x \in AwardRow
        <5>1. PICK a \in awards : x = [a EXCEPT !.moved = @ \/ (a.event = e /\ moment[e] # to)]
          BY <3>2, <4>1
        <5>2. PICK b : b = (a.moved \/ (a.event = e /\ moment[e] # to))
          OBVIOUS
        <5>3. b \in BOOLEAN
          BY <2>7, <5>2
        <5>4. x = [a EXCEPT !.moved = b]
          BY <5>1, <5>2
        <5> QED
          BY <2>6, <5>3, <5>4
      <4> QED
        BY <4>1
    <3> QED
      BY <2>8, <3>1, <3>2
  <2>10. ScoringDbT'
    BY <1>27, <2>5, <2>9 DEF ServeMoveEvent, ScoringDbT
  <2> QED
    BY <1>2, <2>1, <2>10
<1> QED
  BY <1>8, <1>9, <1>10, <1>11, <1>12, <1>16, <1>17, <1>18, <1>19, <1>20, <1>21, <1>22, <1>23, <1>24,
     <1>25, <1>26, <1>27 DEF ScoringServes

LEMMA ScoringNextT ==
  ASSUME TypedCalls, ScoringTypes, ~InUse(PeoplePanels), ScoringNext
  PROVE  TypedCalls' /\ ScoringTypes'
<1>1. ASSUME NEW i \in DOMAIN calls, LoseCall(i), UNCHANGED scoringVars
      PROVE  TypedCalls' /\ ScoringTypes'
  BY <1>1, TypedLoss, ScoringSame DEF AskedNone
<1> QED
  BY <1>1, ScoringClickT, OtherScoringT, ScoringReceiveT, ScoringServeT DEF ScoringNext

LEMMA ScoringStartT ==
  ASSUME ScoringStart
  PROVE  ScoringTypes
<1>1. NoSeasonPolicy \in SeasonRow /\ NoEditor \in EditorShape /\ NoEditor.mode = "none"
  BY DEF NoSeasonPolicy, SeasonRow, NoEditor, EditorShape, VersionStates
<1>2. ScoringDbT
  BY <1>1, ScoringBasics, FirstVersions, FirstAwards DEF ScoringStart, ScoringDbT, StatusStates
<1>3. \A p : PolicyRows(p) \subseteq [id: Versions, state: VersionStates]
  BY <1>2 DEF PolicyRows, ScoringDbT, VersionRow
<1>4. RefsT
  BY <1>1, <1>2 DEF ScoringStart, RefsT, ScoringDbT
<1>5. PICK n : n = NoEditor
  OBVIOUS
<1>6. DeskT(desk)
  BY <1>1, <1>2, <1>3, <1>5 DEF ScoringStart, DeskT, ScoringDbT
<1>7. PickerT
  <2>1. PICK x, y : x = NoOneChosen /\ y = [x EXCEPT !.found = People]
    OBVIOUS
  <2>2. PickT(x) /\ PickT(y)
    BY <2>1 DEF PickT, PickerFields, NoOneChosen
  <2> QED
    BY <2>1, <2>2 DEF ScoringStart, PickerT
<1> QED
  BY <1>2, <1>4, <1>6, <1>7 DEF ScoringStart, ScoringTypes

-----------------------------------------------------------------------------
(* The console: the page that is mounted keeps its types, and what the     *)
(* other pages hold stays as it started.                                   *)
PagesTyped ==
  /\ ScoringTypes /\ RegTypes /\ PeopleTypes /\ EventTypes
  /\ ReviewDbT /\ ReviewViewT /\ ReviewDbOK
ShellTyped == page \in Pages /\ busy \in BOOLEAN /\ faults \in 0..MaxFaults[page]
TypesInv ==
  /\ ConsoleInv /\ TypedCalls /\ PagesTyped /\ ShellTyped
  /\ InUse(ReviewPanels) => MountT(Len(calls))

LEMMA RegSame == ASSUME RegTypes, UNCHANGED regVars PROVE RegTypes'
BY RegDbSame, ViewSame DEF RegTypes, regVars

LEMMA PeopleSame == ASSUME PeopleTypes, UNCHANGED peopleVars PROVE PeopleTypes'
<1>1. PeopleDbT'
  BY DEF PeopleTypes, PeopleDbT, peopleVars
<1> QED
  BY <1>1 DEF PeopleTypes, peopleVars

LEMMA EventSame == ASSUME EventTypes, UNCHANGED eventVars PROVE EventTypes'
<1>1. RowsT' /\ LooseT'
  BY DEF EventTypes, eventVars, RowsT, LooseT
<1>2. ScreenT'
  BY ConsoleSame, EditorSame, ScreenIsTyped DEF EventTypes, ScreenT, eventVars
<1> QED
  BY <1>1, <1>2 DEF EventTypes

LEMMA ReviewSame ==
  ASSUME ReviewDbT, ReviewViewT, ReviewDbOK, UNCHANGED reviewVars
  PROVE  ReviewDbT' /\ ReviewViewT' /\ ReviewDbOK'
<1>1. ReviewDbOK'
  BY DEF ReviewDbOK, ItemsNameRoles, AwardsStand, reviewVars
<1> QED
  BY <1>1, ReviewDbSame, ReviewViewSame DEF reviewVars

LEMMA ShellStays ==
  ASSUME ShellTyped, UNCHANGED page, ShellGoes
  PROVE  ShellTyped'
<1>1. MaxFaults[page] \in Nat
  BY CallBounds DEF ShellTyped
<1> QED
  BY <1>1 DEF ShellTyped, ShellGoes

LEMMA TypesStart ==
  ASSUME ConsoleInit
  PROVE  TypesInv
<1>1. page \in Pages /\ ScoringStart /\ RegStart /\ PeopleStart /\ EventStart /\ ReviewStart
  BY DEF ConsoleInit, CallsInit
<1>2. /\ ~InUse(ScoringPanels) => ScoringFirst = <<>>
      /\ ~InUse(EventPanels) => EventFirst = <<>>
  BY DEF ScoringFirst, EventFirst, Uses, InUse, ScoringPanels, EventPanels
<1>3. PICK s, e : s = ScoringFirst /\ e = EventFirst /\ calls = s \o e
  BY DEF ConsoleInit, Mounted
<1>4. PICK a : Reload("mount", Null) = Call("references", a)
  BY DEF Reload
<1>5. /\ s = <<>> \/ s = <<Call("references", a)>>
      /\ e = <<>> \/ e = <<Call("session", Null)>>
  BY <1>3, <1>4 DEF ScoringFirst, EventFirst
<1>6. /\ e = <<>> => calls = s
      /\ s = <<>> => calls = e
  BY <1>3, <1>5, NothingFirst
<1>7. PICK o, b : o \in {"references", "session"} /\ (calls = <<>> \/ calls = <<Call(o, b)>>)
  <2>1. s = <<>> \/ e = <<>>
    BY <1>1, <1>2, <1>3, ThePage
  <2>2. calls = <<>> \/ calls = <<Call("references", a)>> \/ calls = <<Call("session", Null)>>
    BY <1>5, <1>6, <2>1
  <2> QED
    BY <2>2
<1>8. TypedCalls
  <2>1. PICK c : c = Call(o, b)
    OBVIOUS
  <2>2. c.op = o /\ c.phase = "sent"
    BY <2>1, CallFields
  <2>3. o \in AllOps /\ SentT(o, c.arg)
    BY <1>7 DEF AllOps, ScoringOps, EventOps, SentT
  <2>4. CallT(c)
    BY <2>2, <2>3 DEF CallT
  <2>5. \A i \in DOMAIN calls : calls[i] = c
    BY <1>7, <2>1
  <2> QED
    BY <1>7, <2>4, <2>5, FirstCall DEF TypedCalls
<1>9. PagesTyped
  BY <1>1, ScoringStartT, RegStartT, PeopleStartT, EventStartT, ReviewStartT, ReviewStarts
     DEF PagesTyped
<1>10. ShellTyped
  <2>1. faults = 0 /\ busy = FALSE
    BY DEF ConsoleInit, CallsInit, Mounted
  <2>2. MaxFaults[page] \in Nat
    BY <1>1, CallBounds
  <2>3. faults \in 0..MaxFaults[page]
    BY <2>1, <2>2
  <2>4. busy \in BOOLEAN
    BY <2>1
  <2> QED
    BY <1>1, <2>3, <2>4 DEF ShellTyped
<1>11. InUse(ReviewPanels) => MountT(Len(calls))
  <2>1. SUFFICES ASSUME InUse(ReviewPanels) PROVE MountT(Len(calls))
    OBVIOUS
  <2>2. calls = <<>>
    BY <1>1, <1>2, <1>3, <1>6, <2>1, ThePage
  <2>3. Len(calls) = 0 /\ DOMAIN calls = {}
    BY <2>2
  <2> QED
    BY <1>1, <2>3, ReviewStartT DEF MountT
<1> QED
  BY <1>8, <1>9, <1>10, <1>11, ConsoleStarts DEF TypesInv

LEMMA TypesStepKeep ==
  ASSUME TypesInv, ConsoleNext
  PROVE  TypesInv'
<1>1. ConsoleInv /\ ConsoleInv' /\ TypedCalls /\ PagesTyped
  BY ConsoleStepKeeps DEF TypesInv
<1>2. UNCHANGED page /\ ShellTyped'
  BY ScoringStays, RegStays, PeopleStays, EventStays, ReviewStays, ShellStays DEF ConsoleNext,
     TypesInv
<1>3. (InUse(EventPanels) <=> InUse(EventPanels)') /\ (InUse(ReviewPanels) <=> InUse(ReviewPanels)')
  BY <1>2 DEF InUse, EventPanels, ReviewPanels
<1>4. page \in Pages
  BY <1>1 DEF ConsoleInv
<1>5. CASE /\ InUse(ScoringPanels) /\ ScoringNext
           /\ UNCHANGED <<regVars, peopleVars, eventVars, reviewVars>>
  <2>1. TypedCalls' /\ ScoringTypes'
    BY <1>1, <1>4, <1>5, ThePage, ScoringNextT DEF PagesTyped
  <2>2. PagesTyped'
    BY <1>1, <1>5, <2>1, RegSame, PeopleSame, EventSame, ReviewSame DEF PagesTyped
  <2> QED
    BY <1>1, <1>2, <1>3, <1>4, <1>5, <2>1, <2>2, ThePage DEF TypesInv
<1>6. CASE /\ InUse(RegPanels) /\ RegNext
           /\ UNCHANGED <<scoringVars, peopleVars, eventVars, reviewVars>>
  <2>1. TypedCalls' /\ RegTypes'
    BY <1>1, <1>6, RegNextT DEF PagesTyped
  <2>2. PagesTyped'
    BY <1>1, <1>6, <2>1, ScoringSame, PeopleSame, EventSame, ReviewSame DEF PagesTyped
  <2> QED
    BY <1>1, <1>2, <1>3, <1>4, <1>6, <2>1, <2>2, ThePage DEF TypesInv
<1>7. CASE /\ InUse(PeoplePanels) /\ PeopleNext
           /\ UNCHANGED <<scoringVars, regVars, eventVars, reviewVars>>
  <2>1. TypedCalls' /\ PeopleTypes'
    BY <1>1, <1>7, PeopleNextT DEF PagesTyped, ConsoleInv, PeopleInv
  <2>2. PagesTyped'
    BY <1>1, <1>7, <2>1, ScoringSame, RegSame, EventSame, ReviewSame DEF PagesTyped
  <2> QED
    BY <1>1, <1>2, <1>3, <1>4, <1>7, <2>1, <2>2, ThePage DEF TypesInv
<1>8. CASE /\ InUse(EventPanels) /\ EventNext
           /\ UNCHANGED <<scoringVars, regVars, peopleVars, reviewVars>>
  <2>1. EventInv /\ StreamsInv /\ StreamsInv'
    BY <1>1, <1>3, <1>8 DEF ConsoleInv
  <2>2. TypedCalls' /\ EventTypes'
    BY <1>1, <1>8, <2>1, EventNextT DEF PagesTyped
  <2>3. PagesTyped'
    BY <1>1, <1>8, <2>2, ScoringSame, RegSame, PeopleSame, ReviewSame DEF PagesTyped
  <2> QED
    BY <1>1, <1>2, <1>3, <1>4, <1>8, <2>2, <2>3, ThePage DEF TypesInv
<1>9. CASE /\ InUse(ReviewPanels) /\ ReviewNext
           /\ UNCHANGED <<scoringVars, regVars, peopleVars, eventVars>>
  <2>1. ReviewInv /\ ReviewInv' /\ ReviewTypes
    BY <1>1, <1>3, <1>9 DEF ConsoleInv, TypesInv, PagesTyped, ReviewTypes
  <2>2. TypedCalls' /\ ReviewTypes'
    BY <1>1, <1>9, <2>1, ReviewNextT
  <2>3. ReviewDbT' /\ ReviewViewT' /\ ReviewDbOK' /\ MountT(Len(calls))'
    BY <2>1, <2>2 DEF ReviewTypes, ReviewInv
  <2>4. PagesTyped'
    BY <1>1, <1>9, <2>3, ScoringSame, RegSame, PeopleSame, EventSame DEF PagesTyped
  <2> QED
    BY <1>1, <1>2, <2>2, <2>3, <2>4 DEF TypesInv
<1> QED
  BY <1>5, <1>6, <1>7, <1>8, <1>9 DEF ConsoleNext

LEMMA TypesRest ==
  ASSUME TypesInv, UNCHANGED consoleVars
  PROVE  TypesInv'
<1>1. /\ UNCHANGED scoringVars /\ UNCHANGED regVars /\ UNCHANGED peopleVars
      /\ UNCHANGED eventVars /\ UNCHANGED reviewVars
      /\ UNCHANGED <<page, calls>> /\ UNCHANGED <<busy, faults>>
  BY DEF consoleVars, shell
<1>2. ConsoleInv' /\ TypedCalls'
  BY <1>1, ConsoleRests, TypedRest DEF TypesInv, AskedNone
<1>3. PagesTyped'
  BY <1>1, ScoringSame, RegSame, PeopleSame, EventSame, ReviewSame DEF TypesInv, PagesTyped
<1>4. ShellTyped'
  BY <1>1 DEF TypesInv, ShellTyped
<1>5. InUse(ReviewPanels)' => MountT(Len(calls))'
  <2>1. (InUse(ReviewPanels) <=> InUse(ReviewPanels)') /\ (ShownT(reviewView.shown) => ShownT(reviewView.shown)')
    BY <1>1, ReviewViewSame DEF InUse, ReviewPanels, TypesInv, PagesTyped, reviewVars
  <2>2. MountT(Len(calls)) => MountT(Len(calls))'
    BY <1>1, <2>1 DEF MountT, Approving, reviewVars
  <2> QED
    BY <2>1, <2>2 DEF TypesInv
<1> QED
  BY <1>2, <1>3, <1>4, <1>5 DEF TypesInv

\* Whichever page is mounted, its calls are those the pages make, the losses
\* stay within their bound, and what every page and table holds is of its type:
\* whatever reply comes first, last or never, a list holds rows of its own
\* kind, a form what its panel edits, a review the items of its Event.
THEOREM ConsoleTyped == ConsoleSpec => []ConsoleTypeOK
<1>1. ConsoleInit => TypesInv
  BY TypesStart
<1>2. TypesInv /\ [ConsoleNext]_consoleVars => TypesInv'
  BY TypesStepKeep, TypesRest
<1>3. TypesInv => ConsoleTypeOK
  <2>1. SUFFICES ASSUME TypesInv PROVE ConsoleTypeOK
    OBVIOUS
  <2>2. ScoringTypeOK /\ RegTypeOK /\ PeopleTypeOK /\ EventTypeOK /\ ReviewTypeOK
    BY <2>1, ScoringTypesTell, RegTypesTell, PeopleTypesTell, EventTypesTell, ReviewTypesTell
       DEF TypesInv, PagesTyped
  <2>3. \A i \in DOMAIN calls : /\ calls[i].op \in AllOps
                                /\ calls[i].by \in {"page", "other"}
                                /\ calls[i].phase \in {"sent", "open", "done", "over"}
                                /\ calls[i].ok \in BOOLEAN
    <3>1. CallsTyped /\ \A i \in DOMAIN calls : CallT(calls[i])
      BY <2>1 DEF TypesInv, TypedCalls
    <3>2. PICK O, A, D : calls \in Seq(CallShape(O, A, D))
      BY <3>1 DEF CallsTyped
    <3>3. \A i \in DOMAIN calls : calls[i] \in CallShape(O, A, D)
      BY <3>2
    <3> QED
      BY <3>1, <3>3 DEF CallT, CallShape
  <2> QED
    BY <2>1, <2>2, <2>3 DEF ConsoleTypeOK, CallsOK, AllOps, TypesInv, ShellTyped
<1> QED
  BY <1>1, <1>2, <1>3, PTL DEF ConsoleSpec
=============================================================================
