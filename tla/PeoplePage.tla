------------------------------ MODULE PeoplePage ------------------------------
(***************************************************************************)
(* The global directory of people in the console: the list and the roster  *)
(* workbook, and the card of a Person with its contacts, roster metadata,  *)
(* comparison with a possible duplicate and publication                    *)
(* (AdminParticipants.tsx, AdminRosterMetadata.tsx, AdminPersonMerge.tsx,  *)
(* AdminMosActivePublication.tsx), before the endpoints they call.         *)
(*                                                                         *)
(* The card and its sections are mounted when a Person is selected, and    *)
(* stay mounted when a late reply selects another Person over it.          *)
(***************************************************************************)
EXTENDS AdminCalls

CONSTANTS
  Flagged,      \* marked as possible duplicates at first
  Clashing,     \* pairs of Persons whose scoring sequences collide
  Books,        \* roster workbooks
  Texts         \* contents of the roster metadata of a Person

ASSUME PeopleBasics == Flagged \subseteq People /\ Texts # {}

VARIABLES
  peopleDb,     \* server: contacts, metadata, aliases, flags, publication, history, workbooks
  directory,    \* page: the list and the roster workbook; `seen` is history
  card          \* page: the selected Person and the state of the card's sections

peopleVars == <<peopleDb, directory, card>>

PeoplePanels == {"directory", "person", "merge", "profile"}
FirstText == CHOOSE t \in Texts : TRUE

PeopleOps ==
  {"people", "person", "previewRoster", "importRoster", "updatePerson", "updateRosterMetadata",
   "candidates", "previewPersonMerge", "mergePerson", "dismissDuplicate", "studentProfile",
   "setProfileVisibility", "scored"}

\* What a check of a workbook found: it is clean when no row conflicts.
RosterPreview == [book: Books, clean: BOOLEAN]
PersonCard == [id: People, text: Texts, flagged: BOOLEAN]
Sections == {"contacts", "roster", "merge", "profile"}

PeopleTypeOK ==
  /\ peopleDb.contacts \in [People -> People]
  /\ peopleDb.text \in [People -> Texts]
  /\ peopleDb.alias \in [People -> People \cup {Null}]
  /\ peopleDb.flagged \subseteq People /\ peopleDb.public \subseteq People
  /\ peopleDb.history \in [People -> Nat]
  /\ peopleDb.books \subseteq Books
  /\ directory.rows \subseteq People
  /\ directory.book \in Books \cup {Null} /\ directory.preview \in RosterPreview \cup {Null}
  /\ directory.seen \subseteq Books
  /\ directory.asked \in Nat /\ directory.shown \in Nat
  /\ card.person = Null \/ card.person \in PersonCard
  /\ card.busy \subseteq Sections
  /\ card.draft \in Texts \cup {Null}

Live == {p \in People : peopleDb.alias[p] = Null}
CardOf(p) == [id |-> p, text |-> peopleDb.text[p], flagged |-> p \in peopleDb.flagged]
NoCard == [person |-> Null, mount |-> 0, form |-> Null, draft |-> Null, conflict |-> FALSE,
           busy |-> {}, found |-> {}, compared |-> Null, profile |-> Null,
           loadedFor |-> Null]

\* setSelected: a mounted card keeps its forms, sections and requests.
Select(p) ==
  IF card.person # Null THEN [card EXCEPT !.person = p]
  ELSE [NoCard EXCEPT !.person = p, !.mount = Len(calls) + 1, !.form = p.id, !.draft = p.text]

\* The page before and after a Person was opened.
PeopleStart ==
  /\ peopleDb = [contacts |-> [p \in People |-> p], text |-> [p \in People |-> FirstText],
                 alias |-> [p \in People |-> Null], flagged |-> Flagged, public |-> {},
                 history |-> [p \in People |-> 0], books |-> {}]
  /\ directory = [rows |-> People, asked |-> 0, shown |-> 0, book |-> Null, preview |-> Null,
                  seen |-> {}]
  /\ \/ card = NoCard
     \/ /\ InUse({"person", "merge", "profile"})
        /\ \E p \in People : card = [NoCard EXCEPT !.person = CardOf(p), !.form = p,
                                                  !.draft = FirstText]
PeopleInit == CallsInit /\ PeopleStart /\ Mounted(<<>>)

(***************************************************************************)
(* The list: of several loads only the last is shown, and only it ends the *)
(* waiting; opening a Person and the roster workbook share its busy flag.  *)
(***************************************************************************)
LoadPeople ==
  /\ Ask("people", Null)
  /\ directory' = [directory EXCEPT !.asked = Len(calls')]
  /\ busy' = TRUE

SearchPeopleList ==
  /\ Uses("directory") /\ card.person = Null
  /\ LoadPeople
  /\ UNCHANGED <<notice, peopleDb, card>>

\* Mutant: every answered load is shown.
PeopleArriveAnyOrder(i) ==
  /\ Answered(i, "people")
  /\ directory' = [directory EXCEPT !.rows = calls[i].data, !.shown = i]
  /\ busy' = FALSE
  /\ Take(i)
  /\ UNCHANGED <<notice, peopleDb, card>>

PeopleArrive(i) ==
  /\ Answered(i, "people") \/ Failed(i, "people")
  /\ IF i = directory.asked
     THEN /\ directory' = IF calls[i].ok THEN [directory EXCEPT !.rows = calls[i].data,
                                                                !.shown = i]
                                         ELSE directory
          /\ busy' = FALSE
     ELSE UNCHANGED <<directory, busy>>
  /\ Take(i)
  /\ UNCHANGED <<notice, peopleDb, card>>

OpenPerson(p) ==
  /\ card.person = Null /\ ~busy /\ p \in directory.rows
  /\ Uses("person") \/ Uses("merge")
  /\ Ask("person", [id |-> p, mount |-> 0])
  /\ busy' = TRUE
  /\ UNCHANGED <<notice, peopleVars>>

ShowPerson(i) ==
  /\ Answered(i, "person") /\ calls[i].arg.mount = 0
  /\ card' = Select(calls[i].data)
  /\ busy' = FALSE
  /\ Take(i)
  /\ UNCHANGED <<notice, peopleDb, directory>>

ListFails(i) ==
  /\ \/ Failed(i, "person") /\ calls[i].arg.mount = 0
     \/ Failed(i, "previewRoster") \/ Failed(i, "importRoster")
  /\ directory' = IF calls[i].op = "previewRoster" THEN [directory EXCEPT !.preview = Null]
                                                   ELSE directory
  /\ busy' = FALSE
  /\ Take(i)
  /\ UNCHANGED <<notice, peopleDb, card>>

ChooseBook(b) ==
  /\ Uses("directory") /\ card.person = Null /\ ~busy
  /\ directory' = [directory EXCEPT !.book = b, !.preview = Null]
  /\ UNCHANGED <<shell, peopleDb, card>>

PreviewRoster ==
  /\ card.person = Null /\ ~busy /\ directory.book # Null
  /\ Ask("previewRoster", [book |-> directory.book])
  /\ busy' = TRUE
  /\ UNCHANGED <<notice, peopleVars>>

\* The answer carries the hash of the workbook that was sent.  A workbook is
\* seen once the page showed a clean preview of it; no guard reads that.
ShowRosterPreview(i) ==
  /\ Answered(i, "previewRoster")
  /\ LET found == calls[i].data IN
     directory' = [directory EXCEPT !.preview = found,
                                    !.seen = IF found.clean THEN @ \cup {found.book} ELSE @]
  /\ busy' = FALSE
  /\ Take(i)
  /\ UNCHANGED <<notice, peopleDb, card>>

\* The hash of the preview goes with the file chosen now.
ImportRoster ==
  /\ card.person = Null /\ ~busy /\ directory.book # Null /\ directory.preview # Null
  /\ directory.preview.clean
  /\ Ask("importRoster", [book |-> directory.book, hash |-> directory.preview.book,
                          seen |-> directory.seen])
  /\ busy' = TRUE
  /\ UNCHANGED <<notice, peopleVars>>

\* void load(), and then the handler's finally.
RosterImported(i) ==
  /\ Answered(i, "importRoster")
  /\ TakeAndAsk(i, "people", Null)
  /\ directory' = [directory EXCEPT !.book = Null, !.preview = Null, !.asked = Len(calls')]
  /\ busy' = FALSE
  /\ UNCHANGED <<notice, peopleDb, card>>

(***************************************************************************)
(* The card.  Each section waits for its own calls; "back" looks at those  *)
(* of the contacts and of the metadata only.                               *)
(***************************************************************************)
BackToDirectory ==
  /\ card.person # Null /\ card.busy \cap {"contacts", "roster"} = {}
  /\ card' = NoCard
  /\ LoadPeople
  /\ UNCHANGED <<notice, peopleDb>>

SectionCall(s, op, arg) ==
  /\ card.person # Null /\ s \notin card.busy
  /\ Ask(op, [mount |-> card.mount, section |-> s, id |-> card.person.id, more |-> arg])
  /\ card' = [card EXCEPT !.busy = @ \cup {s}]
  /\ UNCHANGED <<busy, notice, peopleDb, directory>>

Here(i) == card.person # Null /\ calls[i].arg.mount = card.mount
Ended(i, c) == IF Here(i) THEN [c EXCEPT !.busy = @ \ {calls[i].arg.section}] ELSE c

SectionFails(i) ==
  /\ \/ \E op \in PeopleOps \ {"people", "person", "previewRoster", "importRoster"} : Failed(i, op)
     \/ Failed(i, "person") /\ calls[i].arg.mount # 0
  /\ card' = Ended(i, IF Here(i) /\ calls[i].op = "updateRosterMetadata"
                      THEN [card EXCEPT !.conflict = calls[i].data = "ROSTER_METADATA_CHANGED"]
                      ELSE card)
  /\ Take(i)
  /\ UNCHANGED <<busy, notice, peopleDb, directory>>

Dirty == card.draft # card.person.text

SavePerson ==
  /\ Uses("person") /\ card.person # Null /\ "roster" \notin card.busy /\ ~Dirty
  /\ SectionCall("contacts", "updatePerson", card.form)

\* The saved text is compared with the version of the Person shown now.
EditMetadata(t) ==
  /\ Uses("person") /\ card.person # Null /\ card.busy \cap {"contacts", "roster"} = {}
  /\ card' = [card EXCEPT !.draft = t]
  /\ UNCHANGED <<shell, peopleDb, directory>>

SaveMetadata ==
  /\ card.person # Null /\ Dirty /\ ~card.conflict /\ "contacts" \notin card.busy
  /\ SectionCall("roster", "updateRosterMetadata", [text |-> card.draft, base |-> card.person.text])

ReloadMetadata ==
  /\ card.person # Null /\ card.conflict /\ "contacts" \notin card.busy
  /\ SectionCall("roster", "person", Null)

\* onChanged of any section selects the Person of the reply, whoever is shown.
CardChanged(i) ==
  /\ \/ \E op \in {"updatePerson", "updateRosterMetadata", "mergePerson", "dismissDuplicate"} :
          Answered(i, op)
     \/ Answered(i, "person") /\ calls[i].arg.mount # 0
  /\ LET c == Ended(i, Select(calls[i].data))
     IN card' = CASE Here(i) /\ calls[i].arg.section = "roster" ->
                       [c EXCEPT !.draft = calls[i].data.text, !.conflict = FALSE]
                  [] Here(i) /\ calls[i].op = "mergePerson" ->
                       [c EXCEPT !.found = {}, !.compared = Null]
                  [] OTHER -> c
  /\ Take(i)
  /\ UNCHANGED <<busy, notice, peopleDb, directory>>

(* The comparison with another card. *)
SearchCandidates ==
  /\ Uses("merge") /\ card.person # Null
  /\ "merge" \notin card.busy
  /\ Ask("candidates", [mount |-> card.mount, section |-> "merge", id |-> card.person.id])
  /\ card' = [card EXCEPT !.busy = @ \cup {"merge"}, !.compared = Null]
  /\ UNCHANGED <<busy, notice, peopleDb, directory>>

ShowCandidates(i) ==
  /\ Answered(i, "candidates")
  /\ card' = Ended(i, IF Here(i) THEN [card EXCEPT !.found = calls[i].data \ {calls[i].arg.id}]
                                 ELSE card)
  /\ Take(i)
  /\ UNCHANGED <<busy, notice, peopleDb, directory>>

Compare(p) == p \in card.found /\ SectionCall("merge", "previewPersonMerge", p)

ShowComparison(i) ==
  /\ Answered(i, "previewPersonMerge")
  /\ card' = Ended(i, IF Here(i) THEN [card EXCEPT !.compared = calls[i].data] ELSE card)
  /\ Take(i)
  /\ UNCHANGED <<busy, notice, peopleDb, directory>>

\* The confirmation names the compared pair; the call takes the Person shown.
MergePerson ==
  /\ card.compared # Null
  /\ SectionCall("merge", "mergePerson", card.compared)

DismissDuplicate ==
  /\ Uses("merge") /\ card.person # Null /\ card.person.flagged
  /\ SectionCall("merge", "dismissDuplicate", Null)

(* Publication: its effect reads the profile whenever the Person changes. *)
LoadProfile ==
  /\ Uses("profile") /\ card.person # Null /\ card.loadedFor # card.person.id
  /\ Ask("studentProfile", [mount |-> card.mount, section |-> "load", id |-> card.person.id])
  /\ card' = [card EXCEPT !.loadedFor = card.person.id]
  /\ UNCHANGED <<busy, notice, peopleDb, directory>>

ChangeVisibility ==
  /\ card.profile # Null
  /\ SectionCall("profile", "setProfileVisibility", ~card.profile.public)

\* A load of another Person's profile is cancelled; a change is shown anyway.
ShowProfile(i) ==
  /\ Answered(i, "studentProfile") \/ Answered(i, "setProfileVisibility")
  /\ card' = Ended(i, IF /\ Here(i)
                         /\ \/ calls[i].op = "setProfileVisibility"
                            \/ calls[i].arg.id = card.person.id
                      THEN [card EXCEPT !.profile = calls[i].data] ELSE card)
  /\ Take(i)
  /\ UNCHANGED <<busy, notice, peopleDb, directory>>

(***************************************************************************)
(* The server: every change of a Person locks his row first.               *)
(***************************************************************************)
Collide(p, q) == {p, q} \in Clashing
Comparison(p, q) ==
  [target |-> p, source |-> q,
   order |-> IF Collide(p, q) THEN peopleDb.history[p] + peopleDb.history[q] ELSE Null]

ServePeopleReads(i) ==
  /\ \/ (Waits(i, "people") \/ Waits(i, "candidates")) /\ Done(i, Live)
     \/ /\ Waits(i, "person")
        /\ IF calls[i].arg.id \in Live THEN Done(i, CardOf(calls[i].arg.id)) ELSE Refused(i)
     \/ /\ Waits(i, "previewRoster")
        /\ \/ \E clean \in BOOLEAN : Done(i, [book |-> calls[i].arg.book, clean |-> clean])
           \/ Refused(i)
     \/ /\ Waits(i, "previewPersonMerge")
        /\ LET p == calls[i].arg.id
               q == calls[i].arg.more
           IN IF {p, q} \subseteq Live THEN Done(i, Comparison(p, q)) ELSE Refused(i)
     \/ /\ Waits(i, "studentProfile")
        /\ Done(i, [id |-> calls[i].arg.id, public |-> calls[i].arg.id \in peopleDb.public])
  /\ UNCHANGED <<page, faults, busy, notice, peopleVars>>

\* Mutant: the hash of the previewed workbook is not compared.
ServeImportRosterUnseen(i) ==
  /\ Waits(i, "importRoster")
  /\ peopleDb' = [peopleDb EXCEPT !.books = @ \cup {calls[i].arg.book}]
  /\ Done(i, Null)
  /\ UNCHANGED <<page, faults, busy, notice, directory, card>>

\* import_roster: the workbook must be the one whose hash was previewed, and a
\* student of it who exists by now is a conflict.
ServeImportRoster(i) ==
  /\ Waits(i, "importRoster")
  /\ \/ /\ calls[i].arg.hash = calls[i].arg.book
        /\ peopleDb' = [peopleDb EXCEPT !.books = @ \cup {calls[i].arg.book}]
        /\ Done(i, Null)
     \/ UNCHANGED peopleDb /\ Refused(i)
  /\ UNCHANGED <<page, faults, busy, notice, directory, card>>

\* The Person after the change is the reply of all of these.
PersonDone(i, db) ==
  LET p == calls[i].arg.id IN
  /\ peopleDb' = db
  /\ Done(i, [id |-> p, text |-> db.text[p], flagged |-> p \in db.flagged])
PersonRefused(i) == UNCHANGED peopleDb /\ Refused(i)

Merged(p, q) ==
  [peopleDb EXCEPT !.alias = [x \in People |-> IF x = q \/ @[x] = q THEN p ELSE @[x]],
                   !.flagged = @ \ {p, q},
                   !.history[p] = @ + 1]

ServePerson(i) ==
  LET p == calls[i].arg.id
      more == calls[i].arg.more
  IN /\ \/ /\ Waits(i, "updatePerson")
           /\ \/ p \in Live /\ PersonDone(i, [peopleDb EXCEPT !.contacts[p] = more])
              \/ p \notin Live /\ PersonRefused(i)
        \/ /\ Waits(i, "updateRosterMetadata")
           /\ \/ /\ p \in Live /\ more.base = peopleDb.text[p]
                 /\ PersonDone(i, [peopleDb EXCEPT !.text[p] = more.text])
              \/ p \notin Live /\ PersonRefused(i)
              \/ /\ p \in Live /\ more.base # peopleDb.text[p]
                 /\ UNCHANGED peopleDb /\ RefusedAs(i, "ROSTER_METADATA_CHANGED")
        \/ /\ Waits(i, "dismissDuplicate")
           /\ \/ p \in Live /\ PersonDone(i, [peopleDb EXCEPT !.flagged = @ \ {p}])
              \/ p \notin Live /\ PersonRefused(i)
        \/ /\ Waits(i, "mergePerson")
           /\ LET q == more.source
                  may == /\ p # q /\ {p, q} \subseteq Live
                         /\ more.order = Comparison(p, q).order
              IN \/ may /\ PersonDone(i, Merged(p, q))
                 \/ ~may /\ PersonRefused(i)
     /\ UNCHANGED <<page, faults, busy, notice, directory, card>>

ServeVisibility(i) ==
  /\ Waits(i, "setProfileVisibility")
  /\ LET p == calls[i].arg.id
         public == calls[i].arg.more
     IN /\ peopleDb' = [peopleDb EXCEPT !.public = IF public THEN @ \cup {p} ELSE @ \ {p}]
        /\ Done(i, [id |-> p, public |-> public])
  /\ UNCHANGED <<page, faults, busy, notice, directory, card>>

\* An approval adds a numbered participation to a Person's history.
ServeScored(i) ==
  /\ Waits(i, "scored")
  /\ peopleDb' = [peopleDb EXCEPT !.history[calls[i].arg.id] = @ + 1]
  /\ Done(i, Null)
  /\ UNCHANGED <<page, faults, busy, notice, directory, card>>

OtherPeople ==
  /\ MayClick
  /\ \E p \in People :
       \/ /\ Uses("merge") /\ Uses("others")
          /\ calls' = Append(calls, OthersCall("scored", [id |-> p]))
       \/ /\ Uses("others")
          /\ \E q \in Live \ {p} :
               /\ p \in Live
               /\ calls' = Append(calls, OthersCall("mergePerson",
                             [id |-> p, more |-> Comparison(p, q)]))
       \/ /\ Uses("person") /\ Uses("others")
          /\ \E t \in Texts :
               calls' = Append(calls, OthersCall("updateRosterMetadata",
                          [id |-> p, more |-> [text |-> t, base |-> peopleDb.text[p]]]))
  /\ UNCHANGED <<page, faults, busy, notice, peopleVars>>

PeopleClicks ==
  \/ SearchPeopleList \/ PreviewRoster \/ ImportRoster \/ BackToDirectory \/ SavePerson \/ SaveMetadata
  \/ ReloadMetadata \/ SearchCandidates \/ MergePerson \/ DismissDuplicate \/ LoadProfile
  \/ ChangeVisibility
  \/ \E p \in People : OpenPerson(p) \/ Compare(p)
  \/ \E b \in Books : ChooseBook(b)
  \/ \E t \in Texts : EditMetadata(t)

PeopleServes(i) ==
  ServePeopleReads(i) \/ ServeImportRoster(i) \/ ServePerson(i) \/ ServeVisibility(i)
  \/ ServeScored(i)

PeopleReceives(i) ==
  \/ PeopleArrive(i) \/ ShowPerson(i) \/ ListFails(i) \/ ShowRosterPreview(i)
  \/ RosterImported(i) \/ SectionFails(i) \/ CardChanged(i) \/ ShowCandidates(i)
  \/ ShowComparison(i) \/ ShowProfile(i)

PeopleNext ==
  \/ PeopleClicks \/ OtherPeople
  \/ \E i \in DOMAIN calls :
       \/ PeopleServes(i) \/ PeopleReceives(i)
       \/ LoseCall(i) /\ UNCHANGED peopleVars
(***************************************************************************)
(* Properties.                                                             *)
(***************************************************************************)
\* Every workbook that is imported was shown to the administrator, without a
\* conflict, before he clicked: the page sends the file chosen last with the
\* hash of the preview shown last, and another file may be chosen while a check
\* is under way, since the end of any load frees the input.
RosterImportIsPreviewed ==
  [][\A b \in peopleDb'.books \ peopleDb.books :
       \E i \in DOMAIN calls : /\ Waits(i, "importRoster") /\ calls[i].arg.book = b
                              /\ b \in calls[i].arg.seen]_peopleDb

\* Of several loads of the list the latest stays, in whatever order they end.
NewestListStays == [][directory'.shown >= directory.shown]_directory
=============================================================================
