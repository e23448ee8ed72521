--------------------------- MODULE AttendanceServer ---------------------------
(***************************************************************************)
(* POST /scanner/events/{id}/attendance/sync as the database sees it: one  *)
(* InnoDB transaction per item, a snapshot read before the locks, the      *)
(* Event row and the registration row locked in turn, a unique key on      *)
(* client_event_id, and administrators who annul registrations and edit    *)
(* the Event's dates meanwhile.  Writes of a transaction become visible in *)
(* one step, its commit.                                                   *)
(***************************************************************************)
EXTENDS AttendanceLedger, FiniteSets

CONSTANTS
  Workers,         \* server threads inside sync
  Admins,          \* server threads inside annul
  UnknownRegs,     \* registration ids that are not of this Event
  Windows,         \* admissible estimated times under some Event dates
  Batches,         \* request bodies: sets of items with distinct clients
  NoOne,           \* no lock holder
  NoItem,          \* no item or registration in hand
  MaxDateChanges   \* bound on edits of the Event's dates

Items == ItemOf(Regs \cup UnknownRegs)

ASSUME BatchesAssumption ==
  /\ Batches \subseteq SUBSET Items
  /\ \A b \in Batches : \A i, j \in b : i.client = j.client => i = j
ASSUME WindowsAssumption == Windows \subseteq SUBSET Times
ASSUME RegsAssumption == Regs \cap UnknownRegs = {}
ASSUME ThreadsAssumption ==
  /\ Workers \cap Admins = {}
  /\ NoOne \notin Workers \cup Admins
ASSUME NoItemAssumption == NoItem \notin Items /\ NoItem \notin Regs
ASSUME MaxDateChangesAssumption == MaxDateChanges \in Nat

VARIABLES
  window,      \* times within 24 hours of the Event's current dates
  dateChanges, \* edits of the dates so far
  eventLock,   \* holder of the events row lock
  rowLock,     \* holder of each registrations row lock
  pc,          \* where each thread is
  todo,        \* items of the request not yet looked at
  context,     \* the window read once, when the request began
  item,        \* the item in hand, NoItem between items
  seen,        \* the registration as read under its lock
  results,     \* [item, status] answers of the request so far
  target       \* the registration an administrator is annulling

eventVars == <<window, dateChanges>>
lockVars == <<eventLock, rowLock>>
requestVars == <<todo, context, item, seen, results>>
vars == <<ledgerVars, eventVars, lockVars, pc, requestVars, target>>

Threads == Workers \cup Admins

NoRegistration == [status |-> "MISSING", first |-> NoTime]

Confirmed == {"ACCEPTED", "ALREADY_PROCESSED", "REGISTRATION_ALREADY_ATTENDED"}
Rejected == {"INVALID_REGISTRATION", "REGISTRATION_ANNULLED",
             "INVALID_TIMESTAMP"}
Statuses == Confirmed \cup Rejected \cup {"CLIENT_EVENT_CONFLICT"}

WorkerPC == {"idle", "next", "event", "registration", "apply", "reread"}

HasItem(w) == pc[w] \in {"event", "registration", "apply", "reread"}

TypeOK ==
  /\ rows \subseteq [item : Items, duplicate : BOOLEAN]
  /\ regs \in [Regs -> Registration]
  /\ version \in Nat
  /\ window \in Windows
  /\ dateChanges \in 0..MaxDateChanges
  /\ eventLock \in Threads \cup {NoOne}
  /\ rowLock \in [Regs -> Threads \cup {NoOne}]
  /\ pc \in [Threads -> WorkerPC \cup {"bump"}]
  /\ todo \in [Workers -> SUBSET Items]
  /\ context \in [Workers -> Windows \cup {{}}]
  /\ item \in [Workers -> Items \cup {NoItem}]
  /\ seen \in [Workers -> Registration \cup {NoRegistration}]
  /\ results \in [Workers -> SUBSET [item : Items, status : Statuses]]
  /\ target \in [Admins -> Regs \cup {NoItem}]
  /\ \A w \in Workers :
       /\ pc[w] # "bump"
       /\ HasItem(w) => item[w] \in Items
       /\ pc[w] = "apply" => item[w].reg \in Regs
  /\ \A a \in Admins : pc[a] = "idle" \/ (pc[a] = "bump" /\ target[a] \in Regs)

Init ==
  /\ LedgerInit
  /\ window \in Windows
  /\ dateChanges = 0
  /\ eventLock = NoOne
  /\ rowLock = [r \in Regs |-> NoOne]
  /\ pc = [t \in Threads |-> "idle"]
  /\ todo = [w \in Workers |-> {}]
  /\ context = [w \in Workers |-> {}]
  /\ item = [w \in Workers |-> NoItem]
  /\ seen = [w \in Workers |-> NoRegistration]
  /\ results = [w \in Workers |-> {}]
  /\ target = [a \in Admins |-> NoItem]

-----------------------------------------------------------------------------
Goto(t, label) == pc' = [pc EXCEPT ![t] = label]

\* Commit, rollback and connection loss all drop the transaction's row locks.
ReleaseLocks(t) ==
  /\ eventLock' = IF eventLock = t THEN NoOne ELSE eventLock
  /\ rowLock' = [r \in Regs |-> IF rowLock[r] = t THEN NoOne ELSE rowLock[r]]

Answer(w, i, status) ==
  results' = [results EXCEPT ![w] = @ \cup {[item |-> i, status |-> status]}]

\* Mutant: an early return that leaves the transaction open.
FinishKeepingLocks(w, status) ==
  /\ Answer(w, item[w], status)
  /\ item' = [item EXCEPT ![w] = NoItem]
  /\ seen' = [seen EXCEPT ![w] = NoRegistration]
  /\ Goto(w, "next")
  /\ UNCHANGED <<eventVars, lockVars, todo, context, target>>

\* process_item returns: its transaction is over, its result joins the list.
Finish(w, status) ==
  /\ Answer(w, item[w], status)
  /\ ReleaseLocks(w)
  /\ item' = [item EXCEPT ![w] = NoItem]
  /\ seen' = [seen EXCEPT ![w] = NoRegistration]
  /\ Goto(w, "next")
  /\ UNCHANGED <<eventVars, todo, context, target>>

\* The request is over, with or without a reply.
EndRequest(w) ==
  /\ todo' = [todo EXCEPT ![w] = {}]
  /\ context' = [context EXCEPT ![w] = {}]
  /\ item' = [item EXCEPT ![w] = NoItem]
  /\ seen' = [seen EXCEPT ![w] = NoRegistration]
  /\ results' = [results EXCEPT ![w] = {}]
  /\ Goto(w, "idle")

\* Mutant: any repeat of the id counts as the same mark.
RepeatByIdOnly(i) == "ALREADY_PROCESSED"

\* A repeated client_event_id is the same mark only if every column agrees.
RepeatStatus(i) ==
  IF RecordedAs(i) THEN "ALREADY_PROCESSED" ELSE "CLIENT_EVENT_CONFLICT"

(***************************************************************************)
(* The route reads the Event row, dates included, once for the batch.      *)
(***************************************************************************)
Receive(w) ==
  /\ pc[w] = "idle"
  /\ \E batch \in Batches : todo' = [todo EXCEPT ![w] = batch]
  /\ context' = [context EXCEPT ![w] = window]
  /\ Goto(w, "next")
  /\ UNCHANGED <<ledgerVars, eventVars, lockVars, item, seen, results, target>>

\* The snapshot read that recognises a retry, before any lock is taken.
CheckRepeat(w) ==
  /\ pc[w] = "next"
  /\ \E i \in todo[w] :
       /\ todo' = [todo EXCEPT ![w] = @ \ {i}]
       /\ \/ /\ Recorded(i.client)
             /\ Answer(w, i, RepeatStatus(i))
             /\ UNCHANGED <<pc, item>>
          \/ /\ ~Recorded(i.client)
             /\ item' = [item EXCEPT ![w] = i]
             /\ Goto(w, "event")
             /\ UNCHANGED results
  /\ UNCHANGED <<ledgerVars, eventVars, lockVars, context, seen, target>>

LockEvent(w) ==
  /\ pc[w] = "event"
  /\ eventLock = NoOne
  /\ eventLock' = w
  /\ Goto(w, "registration")
  /\ UNCHANGED <<ledgerVars, eventVars, rowLock, requestVars, target>>

RegistrationMissing(w) ==
  /\ pc[w] = "registration"
  /\ item[w].reg \notin Regs
  /\ Finish(w, "INVALID_REGISTRATION")
  /\ UNCHANGED ledgerVars

\* Mutant: the registration is not looked for within the Event.
LockAnyRegistration(w) ==
  /\ pc[w] = "registration"
  /\ item[w].reg \in Regs => rowLock[item[w].reg] = NoOne
  /\ rowLock' = [r \in Regs |-> IF r = item[w].reg THEN w ELSE rowLock[r]]
  /\ seen' = [seen EXCEPT ![w] = IF item[w].reg \in Regs THEN regs[item[w].reg]
                                                       ELSE NoRegistration]
  /\ Goto(w, "apply")
  /\ UNCHANGED <<ledgerVars, eventVars, eventLock, todo, context, item, results,
                 target>>

LockRegistration(w) ==
  /\ pc[w] = "registration"
  /\ item[w].reg \in Regs
  /\ rowLock[item[w].reg] = NoOne
  /\ rowLock' = [rowLock EXCEPT ![item[w].reg] = w]
  /\ seen' = [seen EXCEPT ![w] = regs[item[w].reg]]
  /\ Goto(w, "apply")
  /\ UNCHANGED <<ledgerVars, eventVars, eventLock, todo, context, item, results,
                 target>>

\* Annulment is tested before the time; both leave the mark unrecorded.
RejectAnnulled(w) ==
  /\ pc[w] = "apply"
  /\ seen[w].status = "ANNULLED"
  /\ Finish(w, "REGISTRATION_ANNULLED")
  /\ UNCHANGED ledgerVars

RejectTimestamp(w) ==
  /\ pc[w] = "apply"
  /\ seen[w].status # "ANNULLED"
  /\ item[w].at \notin context[w]
  /\ Finish(w, "INVALID_TIMESTAMP")
  /\ UNCHANGED ledgerVars

\* Mutant: the status test is dropped.
AdmissibleAnnulled(w) == pc[w] = "apply" /\ item[w].at \in context[w]

Admissible(w) ==
  pc[w] = "apply" /\ seen[w].status # "ANNULLED" /\ item[w].at \in context[w]

\* Mutant: every mark rewrites first_attended_at.
InsertMarkLatestWins(w) ==
  LET i == item[w]
      duplicate == seen[w].first # NoTime
  IN  /\ Admissible(w)
      /\ ~Recorded(i.client)
      /\ rows' = rows \cup {[item |-> i, duplicate |-> duplicate]}
      /\ regs' = [regs EXCEPT ![i.reg].first = i.at]
      /\ version' = version + 1
      /\ Finish(w, IF duplicate THEN "REGISTRATION_ALREADY_ATTENDED"
                                ELSE "ACCEPTED")

\* Mutant: no unique key behind the early check.
InsertMarkNoKey(w) ==
  LET i == item[w]
      duplicate == seen[w].first # NoTime
  IN  /\ Admissible(w)
      /\ rows' = rows \cup {[item |-> i, duplicate |-> duplicate]}
      /\ regs' = IF duplicate THEN regs ELSE [regs EXCEPT ![i.reg].first = i.at]
      /\ version' = IF duplicate THEN version ELSE version + 1
      /\ Finish(w, IF duplicate THEN "REGISTRATION_ALREADY_ATTENDED"
                                ELSE "ACCEPTED")

InsertMark(w) ==
  LET i == item[w]
      duplicate == seen[w].first # NoTime
  IN  /\ Admissible(w)
      /\ ~Recorded(i.client)
      /\ rows' = rows \cup {[item |-> i, duplicate |-> duplicate]}
      /\ regs' = IF duplicate THEN regs ELSE [regs EXCEPT ![i.reg].first = i.at]
      /\ version' = IF duplicate THEN version ELSE version + 1
      /\ Finish(w, IF duplicate THEN "REGISTRATION_ALREADY_ATTENDED"
                                ELSE "ACCEPTED")

\* The unique key fires when the same mark was recorded after CheckRepeat.
InsertConflict(w) ==
  /\ Admissible(w)
  /\ Recorded(item[w].client)
  /\ ReleaseLocks(w)
  /\ Goto(w, "reread")
  /\ UNCHANGED <<ledgerVars, eventVars, requestVars, target>>

Reread(w) ==
  /\ pc[w] = "reread"
  /\ Finish(w, RepeatStatus(item[w]))
  /\ UNCHANGED ledgerVars

Reply(w) ==
  /\ pc[w] = "next"
  /\ todo[w] = {}
  /\ EndRequest(w)
  /\ UNCHANGED <<ledgerVars, eventVars, lockVars, target>>

-----------------------------------------------------------------------------
(***************************************************************************)
(* annul locks the registration first and updates the Event row last, the  *)
(* opposite order to process_item.                                         *)
(***************************************************************************)
AnnulLock(a) ==
  /\ pc[a] = "idle"
  /\ \E r \in Regs :
       /\ rowLock[r] = NoOne
       /\ regs[r].status = "ACTIVE"
       /\ rowLock' = [rowLock EXCEPT ![r] = a]
       /\ target' = [target EXCEPT ![a] = r]
  /\ Goto(a, "bump")
  /\ UNCHANGED <<ledgerVars, eventVars, eventLock, requestVars>>

EndAnnul(a) ==
  /\ ReleaseLocks(a)
  /\ target' = [target EXCEPT ![a] = NoItem]
  /\ Goto(a, "idle")
  /\ UNCHANGED <<rows, eventVars, requestVars>>

AnnulCommit(a) ==
  /\ pc[a] = "bump"
  /\ eventLock = NoOne
  /\ regs' = [regs EXCEPT ![target[a]].status = "ANNULLED"]
  /\ version' = version + 1
  /\ EndAnnul(a)

\* update_event holds the Event row from its first statement to its commit.
ChangeDates ==
  /\ eventLock = NoOne
  /\ dateChanges < MaxDateChanges
  /\ dateChanges' = dateChanges + 1
  /\ window' \in Windows \ {window}
  /\ version' = version + 1
  /\ UNCHANGED <<rows, regs, lockVars, pc, requestVars, target>>

-----------------------------------------------------------------------------
\* A transaction that ends without commit takes its request with it.
AbortWorker(w) ==
  /\ ReleaseLocks(w)
  /\ EndRequest(w)
  /\ UNCHANGED <<ledgerVars, eventVars, target>>

AbortAdmin(a) == EndAnnul(a) /\ UNCHANGED <<regs, version>>

\* A worker and an administrator each hold the row the other waits for:
\* InnoDB rolls one of them back, and neither handler retries.
DeadlockVictim(w, a) ==
  /\ pc[w] = "registration"
  /\ pc[a] = "bump"
  /\ item[w].reg = target[a]
  /\ AbortWorker(w) \/ AbortAdmin(a)

\* The process stops, or the connection drops, between any two statements.
CrashWorker(w) == pc[w] # "idle" /\ AbortWorker(w)

CrashAdmin(a) == pc[a] # "idle" /\ AbortAdmin(a)

-----------------------------------------------------------------------------
WorkerStep(w) ==
  \/ CheckRepeat(w) \/ LockEvent(w) \/ RegistrationMissing(w)
  \/ LockRegistration(w) \/ RejectAnnulled(w) \/ RejectTimestamp(w)
  \/ InsertMark(w) \/ InsertConflict(w) \/ Reread(w) \/ Reply(w)

Next ==
  \/ \E w \in Workers : Receive(w) \/ WorkerStep(w) \/ CrashWorker(w)
  \/ \E a \in Admins : AnnulLock(a) \/ AnnulCommit(a) \/ CrashAdmin(a)
  \/ ChangeDates
  \/ \E w \in Workers, a \in Admins : DeadlockVictim(w, a)

(***************************************************************************)
(* A thread that can run does, InnoDB grants a row lock to every waiter in *)
(* turn and breaks every lock cycle.  Nothing else is promised: requests   *)
(* need not come and nothing need crash.                                   *)
(***************************************************************************)
Fairness ==
  /\ \A w \in Workers : SF_vars(WorkerStep(w))
  /\ \A a \in Admins : SF_vars(AnnulCommit(a))
  /\ \A w \in Workers, a \in Admins : WF_vars(DeadlockVictim(w, a))

Spec == Init /\ [][Next]_vars /\ Fairness

-----------------------------------------------------------------------------
(***************************************************************************)
(* What the device may conclude from an answer: a mark answered with a     *)
(* confirmed status is stored exactly as sent (so it may be dropped from   *)
(* the device), ACCEPTED only if it is the primary attendance, and a       *)
(* conflict means that other data took the client_event_id.                *)
(* (process_item, sync_result, same_attendance_payload)                    *)
(***************************************************************************)
AnswersMatchLedger ==
  \A w \in Workers : \A a \in results[w] :
    /\ a.status \in Confirmed => RecordedAs(a.item)
    /\ a.status = "ACCEPTED" =>
         [item |-> a.item, duplicate |-> FALSE] \in rows
    /\ a.status = "REGISTRATION_ALREADY_ATTENDED" =>
         [item |-> a.item, duplicate |-> TRUE] \in rows
    /\ a.status = "CLIENT_EVENT_CONFLICT" =>
         Recorded(a.item.client) /\ ~RecordedAs(a.item)

(***************************************************************************)
(* Transactions, snapshots, retries and crashes add up to the atomic       *)
(* ledger: every step is one Record, one annulment, one edit or nothing.   *)
(***************************************************************************)
Ledger == INSTANCE AttendanceLedger
LedgerRefined == Ledger!LedgerSpec

(***************************************************************************)
(* Every request ends, answered or aborted, although annulment takes the   *)
(* same two row locks in the opposite order.                               *)
(***************************************************************************)
RequestEnds == \A w \in Workers : pc[w] # "idle" ~> pc[w] = "idle"

(***************************************************************************)
(* "Attendance item processing is idempotent by client_event_id"           *)
(* (docs/07-api-contracts.md:505): once a mark is recorded, submitting the *)
(* identical mark is never answered with a rejection.                      *)
(***************************************************************************)
IdempotentByClientEventId ==
  [][\A w \in Workers : \A a \in results'[w] \ results[w] :
       a.status \in Rejected => ~RecordedAs(a.item)]_vars
=============================================================================
