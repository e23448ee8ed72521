----------------------------- MODULE Registration -----------------------------
(***************************************************************************)
(* Registering for Events: the public form, the on-site form and the       *)
(* commit of an Excel import, as transactions of MySQL at REPEATABLE READ. *)
(* A transaction reads plainly from the snapshot its first plain SELECT    *)
(* took, and reads what is committed where it says FOR UPDATE.  Beside it  *)
(* administrators annul registrations, merge duplicate Persons and edit    *)
(* capacities.                                                             *)
(*                                                                         *)
(* Everybody here bears one full name and is a student of the college: no  *)
(* others meet in the matching of Persons.  An import file has one row,    *)
(* and every Event stays open for registration.                            *)
(***************************************************************************)
EXTENDS FiniteSetsExt

CONSTANTS
  Events,
  Places,       \* what has a capacity of its own: an Event or a stream of one
  Streams,      \* the places that are streams
  EventOf,      \* the Event of a place
  Emails, Phones,
  Roster,       \* Persons the student roster may hold from the beginning
  People,       \* ids of Persons
  Regs,         \* ids of registrations
  Requests,     \* request ids and ids of import jobs
  Forms,        \* the requests that are sent, see FormType
  Txns,         \* server threads, one transaction each at a time
  MaxCapacity,  \* bound on the capacities an administrator sets
  MaxActs,      \* bound on what administrators do: annul, merge, edit
  Limit,        \* active registrations an Event may have at all, 5000
  Absent,       \* no row under this id
  None          \* no Person, no request, nothing read

Contacts == Emails \cup Phones
Sources == {"PUBLIC_FORM", "ONSITE", "EXCEL_IMPORT"}

\* A request: the request id (the job of an import), the contacts it bears,
\* and whether it names a study group of the roster.
FormType ==
  [source : Sources, place : Places, request : Requests \cup {None},
   ids : SUBSET Contacts, group : BOOLEAN, override : BOOLEAN]

PersonType ==
  [ids : SUBSET Contacts, alias : People \cup {None}, roster : BOOLEAN,
   review : BOOLEAN]
Hows == {"new", "twin", "contact", "alias", "roster", "choice"}
RegType ==
  [person : People, place : Places, active : BOOLEAN, form : Forms, how : Hows]
ReceiptType ==
  [key : [event : Events, source : Sources, request : Requests],
   reg : Regs \cup {None}]
ViewType ==
  [people : [People -> PersonType \cup {Absent}],
   regs : [Regs -> RegType \cup {Absent}],
   receipts : SUBSET ReceiptType,
   capacity : [Places -> 1..MaxCapacity]]

ASSUME PlacesAssumption == EventOf \in [Places -> Events] /\ Streams \subseteq Places
ASSUME ContactsAssumption == Emails \cap Phones = {}
ASSUME PeopleAssumption == Roster \subseteq People /\ None \notin People
ASSUME AbsentAssumption ==
  Absent \notin PersonType /\ Absent \notin RegType /\ None \notin ViewType
ASSUME FiniteAssumption == IsFiniteSet(Regs) /\ None \notin Regs
ASSUME FormsAssumption ==
  /\ Forms \subseteq FormType
  /\ None \notin Forms /\ None \notin Requests
  /\ \A f \in Forms :
       /\ f.source = "PUBLIC_FORM" => ~f.override
       /\ f.source = "EXCEL_IMPORT" => f.request # None
       /\ f.request = None => f.ids # {}
ASSUME BoundsAssumption ==
  MaxCapacity \in Nat \ {0} /\ Limit \in Nat \ {0} /\ MaxActs \in Nat

VARIABLES
  people,    \* persons, by id
  regs,      \* registrations, by id
  receipts,  \* registration_requests, and completed import_jobs
  capacity,  \* of each place
  acts,      \* what administrators did so far
  pc,        \* where each transaction is
  form,      \* the request it serves
  view,      \* what its plain SELECTs see
  pick,      \* the Person it resolved the request to
  rows       \* the persons rows its FOR UPDATE holds

dbVars == <<people, regs, receipts, capacity, acts>>
txnVars == <<pc, form, view, pick, rows>>
vars == <<dbVars, txnVars>>

-----------------------------------------------------------------------------
(* Reading the tables. *)

Persons(ppl) == {p \in People : ppl[p] # Absent}
Live(ppl) == {p \in Persons(ppl) : ppl[p].alias = None}
Root(ppl, p) == IF ppl[p].alias = None THEN p ELSE ppl[p].alias

Students(ppl) == {p \in Persons(ppl) : ppl[p].roster}

\* The rows find_or_create_person matches: a shared contact, and no roster
\* record at the row's primary.
Bearers(ppl, students, ids) ==
  {p \in Persons(ppl) : ppl[p].ids \cap ids # {} /\ Root(ppl, p) \notin students}

\* It reads persons FOR UPDATE; a subquery of it reads the roster, plainly.
Matched(t) == Bearers(people, Students(view[t].people), form[t].ids)
Leads(t) == {Root(people, p) : p \in Matched(t)}

RosterCandidates(ppl, f) ==
  IF f.group THEN {p \in Live(ppl) : ppl[p].roster} ELSE {}

Rows(rgs) == {r \in Regs : rgs[r] # Absent}
Active(rgs, e) ==
  {r \in Rows(rgs) : rgs[r].active /\ EventOf[rgs[r].place] = e}
ActiveAt(rgs, pl) == {r \in Rows(rgs) : rgs[r].active /\ rgs[r].place = pl}
ActiveOf(rgs, e, p) == {r \in Active(rgs, e) : rgs[r].person = p}

\* COALESCE(:email, email), COALESCE(:phone, phone)
SameKind(c, d) == (c \in Emails) = (d \in Emails)
Refreshed(old, new) ==
  new \cup {c \in old : \A d \in new : ~SameKind(c, d)}

Receipt(f) == [event |-> EventOf[f.place], source |-> f.source, request |-> f.request]
Received(rcs, f) == \E x \in rcs : x.key = Receipt(f)

Snapshot ==
  [people |-> people, regs |-> regs, receipts |-> receipts, capacity |-> capacity]
NoPick == [who |-> None, how |-> "new"]

\* Row locks: the Event from "keys" on, named locks on the contacts from
\* "resolve" on, the matched persons from the match on.
Holds(t, e) == pc[t] \in {"keys", "resolve", "commit"} /\ EventOf[form[t].place] = e
EventFree(e) == \A t \in Txns : ~Holds(t, e)
KeysUntilMatched(t) == IF pc[t] = "resolve" THEN form[t].ids ELSE {}
Keys(t) == IF pc[t] \in {"resolve", "commit"} THEN form[t].ids ELSE {}
RowsFree(t, ps) == \A u \in Txns \ {t} : rows[u] \cap ps = {}
Unlocked(ps) == \A u \in Txns : rows[u] \cap ps = {}

IsImport(t) == form[t].source = "EXCEL_IMPORT"

-----------------------------------------------------------------------------
Init ==
  /\ \E loaded \in SUBSET Roster :
       people = [p \in People |->
                 IF p \in loaded
                 THEN [ids |-> {}, alias |-> None, roster |-> TRUE, review |-> FALSE]
                 ELSE Absent]
  /\ regs = [r \in Regs |-> Absent]
  /\ receipts = {}
  /\ capacity = [pl \in Places |-> 1]
  /\ acts = 0
  /\ pc = [t \in Txns |-> "idle"]
  /\ form = [t \in Txns |-> None]
  /\ view = [t \in Txns |-> None]
  /\ pick = [t \in Txns |-> NoPick]
  /\ rows = [t \in Txns |-> {}]

(* The transaction ends: its locks and its snapshot are gone. *)
End(t) ==
  /\ pc' = [pc EXCEPT ![t] = "idle"]
  /\ form' = [form EXCEPT ![t] = None]
  /\ view' = [view EXCEPT ![t] = None]
  /\ pick' = [pick EXCEPT ![t] = NoPick]
  /\ rows' = [rows EXCEPT ![t] = {}]

Begin(t) ==
  /\ pc[t] = "idle"
  /\ \E f \in Forms :
       /\ f.source # "EXCEL_IMPORT"
       /\ form' = [form EXCEPT ![t] = f]
  /\ pc' = [pc EXCEPT ![t] = "lock"]
  /\ UNCHANGED <<dbVars, view, pick, rows>>

\* The job row is locked before anything is read, and the rows are classified
\* before the Event is locked: the snapshot is that of the classification.
OpenImport(t) ==
  /\ pc[t] = "idle"
  /\ \E f \in Forms :
       /\ f.source = "EXCEL_IMPORT"
       /\ ~Received(receipts, f)
       /\ \A u \in Txns : form[u] # None => Receipt(form[u]) # Receipt(f)
       /\ form' = [form EXCEPT ![t] = f]
  /\ view' = [view EXCEPT ![t] = Snapshot]
  /\ pc' = [pc EXCEPT ![t] = "lock"]
  /\ UNCHANGED <<dbVars, pick, rows>>

LockEventShared(t) ==
  /\ pc[t] = "lock"
  /\ view' = [view EXCEPT ![t] = IF IsImport(t) THEN @ ELSE Snapshot]
  /\ pc' = [pc EXCEPT ![t] = "keys"]
  /\ UNCHANGED <<dbVars, form, pick, rows>>

\* SELECT ... FROM events ... FOR UPDATE; the forms' first plain SELECT is next.
LockEvent(t) ==
  LET e == EventOf[form[t].place] IN
  /\ pc[t] = "lock"
  /\ EventFree(e)
  /\ view' = [view EXCEPT ![t] = IF IsImport(t) THEN @ ELSE Snapshot]
  /\ pc' = [pc EXCEPT ![t] = "keys"]
  /\ UNCHANGED <<dbVars, form, pick, rows>>

\* Category ALREADY_REGISTERED of a row of the file, by the snapshot.
KnownRow(t) ==
  \E p \in Live(view[t].people) :
    /\ view[t].people[p].ids \cap form[t].ids # {}
    /\ ActiveOf(view[t].regs, EventOf[form[t].place], p) # {}

\* GET_LOCK of every contact, in one order everywhere; the wait is bounded,
\* see Rollback.
TakeKeys(t) ==
  /\ pc[t] = "keys"
  /\ IsImport(t) => ~KnownRow(t)
  /\ \A u \in Txns \ {t} : Keys(u) \cap form[t].ids = {}
  /\ pc' = [pc EXCEPT ![t] = "resolve"]
  /\ UNCHANGED <<dbVars, form, view, pick, rows>>

ReplayedActive(t) ==
  /\ ~IsImport(t)
  /\ form[t].request # None
  /\ \E x \in view[t].receipts :
       x.key = Receipt(form[t]) /\ view[t].regs[x.reg].active
Replayed(t) == ~IsImport(t) /\ form[t].request # None /\ Received(view[t].receipts, form[t])

\* The request id is known: REQUEST_ALREADY_USED, or the registration it made.
Replay(t) ==
  /\ pc[t] = "resolve"
  /\ Replayed(t)
  /\ End(t)
  /\ UNCHANGED dbVars

ByRoster(t) ==
  /\ pc[t] = "resolve"
  /\ ~Replayed(t)
  /\ ~IsImport(t)
  /\ \E p \in People :
       /\ RosterCandidates(view[t].people, form[t]) = {p}
       /\ pick' = [pick EXCEPT ![t] = [who |-> p, how |-> "roster"]]
  /\ pc' = [pc EXCEPT ![t] = "commit"]
  /\ UNCHANGED <<dbVars, form, view, rows>>

ByContactUnlocked(t) ==
  LET found == Matched(t)
      roots == Leads(t) IN
  /\ pc[t] = "resolve"
  /\ ~Replayed(t)
  /\ IsImport(t) => Live(view[t].people) = {}
  /\ \A p \in People : RosterCandidates(view[t].people, form[t]) # {p}
  /\ \/ \E p \in People :
           /\ roots = {p}
           /\ pick' = [pick EXCEPT ![t] =
                [who |-> p, how |-> IF found \subseteq Live(people) THEN "contact" ELSE "alias"]]
     \/ /\ roots = {}
        /\ pick' = [pick EXCEPT ![t] = [who |-> None, how |-> "new"]]
     \/ /\ \E p, q \in roots : p # q
        /\ pick' = [pick EXCEPT ![t] = [who |-> None, how |-> "twin"]]
  /\ rows' = rows
  /\ pc' = [pc EXCEPT ![t] = "commit"]
  /\ UNCHANGED <<dbVars, form, view>>

\* A row of a file is NEW when the snapshot has nobody of the name, and a
\* match the administrator decides about otherwise.
ByContact(t) ==
  LET found == Matched(t)
      roots == Leads(t) IN
  /\ pc[t] = "resolve"
  /\ ~Replayed(t)
  /\ IsImport(t) => Live(view[t].people) = {}
  /\ \A p \in People : RosterCandidates(view[t].people, form[t]) # {p}
  /\ RowsFree(t, found)
  /\ \/ \E p \in People :
           /\ roots = {p}
           /\ pick' = [pick EXCEPT ![t] =
                [who |-> p, how |-> IF found \subseteq Live(people) THEN "contact" ELSE "alias"]]
     \/ /\ roots = {}
        /\ pick' = [pick EXCEPT ![t] = [who |-> None, how |-> "new"]]
     \/ /\ \E p, q \in roots : p # q
        /\ pick' = [pick EXCEPT ![t] = [who |-> None, how |-> "twin"]]
  /\ rows' = [rows EXCEPT ![t] = found]
  /\ pc' = [pc EXCEPT ![t] = "commit"]
  /\ UNCHANGED <<dbVars, form, view>>

\* USE_PERSON one of the candidates of the snapshot, or CREATE_NEW.
ByChoice(t) ==
  /\ pc[t] = "resolve"
  /\ IsImport(t)
  /\ \E p \in Live(view[t].people) \cup {None} :
       pick' = [pick EXCEPT ![t] =
                  [who |-> p, how |-> IF p = None THEN "twin" ELSE "choice"]]
  /\ pc' = [pc EXCEPT ![t] = "commit"]
  /\ UNCHANGED <<dbVars, form, view, rows>>

\* update_person where the code calls it: on site and in imports when a live
\* row was matched, on the public form when the registration is new - also
\* where find_or_create_person had spared the primary of a matched alias.
Updates(t, isNew) ==
  \/ pick[t].how = "contact" /\ form[t].source # "PUBLIC_FORM"
  \/ pick[t].how \in {"contact", "alias"} /\ form[t].source = "PUBLIC_FORM" /\ isNew

Contact(t, isNew) ==
  IF Updates(t, isNew)
  THEN [people EXCEPT ![pick[t].who].ids = Refreshed(@, form[t].ids)]
  ELSE people

Receive(t, r) ==
  receipts' = IF form[t].request = None THEN receipts
              ELSE receipts \cup {[key |-> Receipt(form[t]), reg |-> r]}

\* The Person has an active registration: no other is made.
Repeat(t) ==
  LET e == EventOf[form[t].place] IN
  /\ pc[t] = "commit"
  /\ ~IsImport(t)
  /\ RowsFree(t, {pick[t].who})
  /\ \E r \in ActiveOf(regs, e, pick[t].who) :
       /\ form[t].source = "ONSITE" => regs[r].place = form[t].place
       /\ Receive(t, r)
  /\ people' = Contact(t, FALSE)
  /\ End(t)
  /\ UNCHANGED <<regs, capacity, acts>>

\* The import's own look is a plain SELECT; the row counts as a duplicate.
RepeatImport(t) ==
  /\ pc[t] = "commit"
  /\ IsImport(t)
  /\ RowsFree(t, {pick[t].who})
  /\ ActiveOf(view[t].regs, EventOf[form[t].place], pick[t].who) # {}
  /\ people' = Contact(t, FALSE)
  /\ Receive(t, None)
  /\ End(t)
  /\ UNCHANGED <<regs, capacity, acts>>

\* An ALREADY_REGISTERED row, one with errors, or one the administrator skips.
SkipImport(t) ==
  /\ pc[t] = "keys"
  /\ IsImport(t)
  /\ Receive(t, None)
  /\ End(t)
  /\ UNCHANGED <<people, regs, capacity, acts>>

\* The Event's capacity is read with its lock, a stream's plainly; the
\* registrations are counted plainly.
Full(t) ==
  LET pl == form[t].place
      seats == IF pl \in Streams THEN view[t].capacity[pl] ELSE capacity[pl] IN
  Cardinality(ActiveAt(view[t].regs, pl)) >= seats

AtLimitSeen(t) == Cardinality(Active(view[t].regs, EventOf[form[t].place])) >= Limit
\* create_registration counts with FOR UPDATE.
AtLimit(t) == Cardinality(Active(regs, EventOf[form[t].place])) >= Limit

NewRow(t, p) ==
  [person |-> p, place |-> form[t].place, active |-> TRUE,
   form |-> form[t], how |-> pick[t].how]

Register(t) ==
  LET e == EventOf[form[t].place] IN
  /\ pc[t] = "commit"
  /\ RowsFree(t, {pick[t].who})
  /\ ActiveOf(regs, e, pick[t].who) = {}
  /\ IsImport(t) => ActiveOf(view[t].regs, e, pick[t].who) = {}
  /\ Full(t) => form[t].override
  /\ ~AtLimit(t)
  /\ \E r \in Regs \ Rows(regs), p \in People :
       /\ \/ pick[t].who = p /\ people' = Contact(t, TRUE)
          \/ /\ pick[t].who = None
             /\ people[p] = Absent
             /\ people' = [people EXCEPT ![p] =
                  [ids |-> form[t].ids, alias |-> None, roster |-> FALSE,
                   review |-> pick[t].how = "twin"]]
       /\ regs' = [regs EXCEPT ![r] = NewRow(t, p)]
       /\ Receive(t, r)
  /\ End(t)
  /\ UNCHANGED <<capacity, acts>>

\* A refusal, a lock wait that timed out, a deadlock's victim, a broken unique
\* key or a server that died: the transaction leaves no trace.
Rollback(t) ==
  /\ pc[t] # "idle"
  /\ End(t)
  /\ UNCHANGED dbVars

-----------------------------------------------------------------------------
(* Administrators. *)

Act == acts < MaxActs /\ acts' = acts + 1

\* Its last statement updates the Event's row.
Annul(r) ==
  /\ Act
  /\ r \in Rows(regs)
  /\ regs[r].active
  /\ EventFree(EventOf[regs[r].place])
  /\ regs' = [regs EXCEPT ![r].active = FALSE]
  /\ UNCHANGED <<people, receipts, capacity, txnVars>>

\* A roster row moves to the primary unless it has one of its own.
Primary(target, source) ==
  [people[target] EXCEPT !.review = FALSE, !.roster = @ \/ people[source].roster]
Tombstone(target, source) ==
  [people[source] EXCEPT !.alias = target, !.review = FALSE,
                         !.roster = @ /\ people[target].roster]

MergePeopleInChains(target, source) ==
  LET moved(p) == IF p = source THEN target ELSE p
      aliases == {p \in Persons(people) : people[p].alias = source} IN
  /\ Act
  /\ target # source
  /\ {target, source} \subseteq Live(people)
  /\ Unlocked({target, source} \cup aliases)
  /\ \A e \in Events : ActiveOf(regs, e, target) = {} \/ ActiveOf(regs, e, source) = {}
  /\ people' = [p \in People |->
       CASE p = target -> Primary(target, source)
         [] p = source -> Tombstone(target, source)
         [] OTHER -> people[p]]
  /\ regs' = [r \in Regs |->
       IF regs[r] = Absent THEN Absent ELSE [regs[r] EXCEPT !.person = moved(@)]]
  /\ UNCHANGED <<receipts, capacity, txnVars>>

\* Both rows and the aliases of the source are written, so nobody holds them.
MergePeople(target, source) ==
  LET moved(p) == IF p = source THEN target ELSE p
      aliases == {p \in Persons(people) : people[p].alias = source} IN
  /\ Act
  /\ target # source
  /\ {target, source} \subseteq Live(people)
  /\ Unlocked({target, source} \cup aliases)
  /\ \A e \in Events : ActiveOf(regs, e, target) = {} \/ ActiveOf(regs, e, source) = {}
  /\ people' = [p \in People |->
       CASE p = target -> Primary(target, source)
         [] p = source -> Tombstone(target, source)
         [] p \in aliases -> [people[p] EXCEPT !.alias = target]
         [] OTHER -> people[p]]
  /\ regs' = [r \in Regs |->
       IF regs[r] = Absent THEN Absent ELSE [regs[r] EXCEPT !.person = moved(@)]]
  /\ UNCHANGED <<receipts, capacity, txnVars>>

\* update_event of an Event without streams, save_stream of a stream.
SetCapacity(pl, c) ==
  /\ Act
  /\ EventFree(EventOf[pl])
  /\ c # capacity[pl]
  /\ c >= Cardinality(ActiveAt(regs, pl))
  /\ pl \in Streams =>
       c + MapThenSumSet(LAMBDA s : capacity[s],
             {s \in Streams \ {pl} : EventOf[s] = EventOf[pl]}) <= Limit
  /\ capacity' = [capacity EXCEPT ![pl] = c]
  /\ UNCHANGED <<people, regs, receipts, txnVars>>

-----------------------------------------------------------------------------
Request(t) ==
  \/ Begin(t) \/ OpenImport(t) \/ LockEvent(t) \/ TakeKeys(t) \/ Replay(t)
  \/ ByRoster(t) \/ ByContact(t) \/ ByChoice(t)
  \/ Repeat(t) \/ RepeatImport(t) \/ SkipImport(t) \/ Register(t) \/ Rollback(t)

Next ==
  \/ \E t \in Txns : Request(t)
  \/ \E r \in Regs : Annul(r)
  \/ \E target, source \in People : MergePeople(target, source)
  \/ \E pl \in Places, c \in 1..MaxCapacity : SetCapacity(pl, c)

Spec == Init /\ [][Next]_vars

-----------------------------------------------------------------------------
(* Properties. *)

\* The type of every variable, and what is there at each point of a
\* transaction; an alias leads to a primary in one step.
TablesOK ==
  /\ people \in [People -> PersonType \cup {Absent}]
  /\ regs \in [Regs -> RegType \cup {Absent}]
  /\ receipts \subseteq ReceiptType
  /\ capacity \in [Places -> 1..MaxCapacity]
  /\ acts \in 0..MaxActs
TxnsOK ==
  /\ pc \in [Txns -> {"idle", "lock", "keys", "resolve", "commit"}]
  /\ form \in [Txns -> Forms \cup {None}]
  /\ view \in [Txns -> ViewType \cup {None}]
  /\ pick \in [Txns -> [who : People \cup {None}, how : Hows]]
  /\ rows \in [Txns -> SUBSET People]
PointsOK ==
  \A t \in Txns :
    /\ form[t] = None <=> pc[t] = "idle"
    /\ pc[t] = "idle" => view[t] = None
    /\ pc[t] \in {"keys", "resolve", "commit"} => view[t] # None
    /\ pc[t] = "lock" => IsImport(t) = (view[t] # None)
    /\ pc[t] # "commit" => rows[t] = {}
    /\ pick[t].who # None => people[pick[t].who] # Absent
AliasesEnd ==
  \A p \in Persons(people) :
    people[p].alias # None => people[p].alias \in Live(people)
PersonsThere == \A r \in Rows(regs) : people[regs[r].person] # Absent
TypeOK == TablesOK /\ TxnsOK /\ PointsOK /\ AliasesEnd /\ PersonsThere

\* No Event ever has more active registrations than the hard limit, whatever
\* mix of forms, overrides and imports races for the last one.
HardLimit == \A e \in Events : Cardinality(Active(regs, e)) <= Limit

Fresh(r) == regs[r] = Absent /\ regs'[r] # Absent
KeepsCapacity(sources) ==
  \A r \in Regs :
    /\ Fresh(r)
    /\ regs'[r].form.source \in sources
    /\ ~regs'[r].form.override
    => Cardinality(ActiveAt(regs', regs'[r].place)) <= capacity[regs'[r].place]

\* A form sent without the override never takes a place beyond the capacity,
\* also while the administrators change it and imports overbook.
FormsKeepCapacity == [][KeepsCapacity({"PUBLIC_FORM", "ONSITE"})]_vars

\* A Person made without the mark for a review shares no contact with a
\* Person already there: two requests that bear one new contact at the same
\* time, for different Events, make one Person.
NoSilentTwin ==
  [][\A p \in People :
       people[p] = Absent /\ people'[p] # Absent /\ ~people'[p].review
       => Bearers(people, Students(people), people'[p].ids) = {}]_vars

\* A request id, however often it is sent, and an import job, however often it
\* is committed, make one registration at most.
OneRegistrationPerRequest ==
  \A r, s \in Rows(regs) :
    /\ regs[r].form.request # None
    /\ Receipt(regs[r].form) = Receipt(regs[s].form)
    => r = s

\* Somebody registered by his contacts has one active registration for an
\* Event, also after Persons were merged while requests were under way.
ByMatch == {"new", "twin", "contact", "alias"}
RegisteredOnce ==
  \A e \in Events : \A r, s \in Active(regs, e) :
    /\ {regs[r].how, regs[s].how} \subseteq ByMatch
    /\ Root(people, regs[r].person) = Root(people, regs[s].person)
    => r = s

\* docs/12-excel-import-export.md:69: the commit of an import checks the
\* capacity again.
ImportsKeepCapacity == [][KeepsCapacity({"EXCEL_IMPORT"})]_vars

=============================================================================
