--------------------------- MODULE AttendanceLedger ---------------------------
(***************************************************************************)
(* What attendance processing promises, with every operation atomic: the   *)
(* attendance_events table of one Event, the first_attended_at column and  *)
(* the status of its registrations, and the Event's offline_data_version.  *)
(* AttendanceServer implements it with snapshots, row locks and retries;   *)
(* ScannerSync uses it as the server behind the Scanner's network.         *)
(***************************************************************************)
EXTENDS Naturals

CONSTANTS
  Clients,    \* client_event_id values
  Regs,       \* registrations of the Event
  Payloads,   \* the other columns same_attendance_payload compares
  Times,      \* estimated_scanned_at values
  NoTime      \* SQL NULL in first_attended_at

ASSUME NoTimeAssumption == NoTime \notin Times

VARIABLES
  rows,       \* attendance_events: [item, duplicate] records
  regs,       \* [status, first] of each registration
  version     \* events.offline_data_version

ledgerVars == <<rows, regs, version>>

\* A mark as the client submits it; its registration may be unknown here.
ItemOf(regSet) == [client : Clients, reg : regSet, payload : Payloads, at : Times]

Registration == [status : {"ACTIVE", "ANNULLED"}, first : Times \cup {NoTime}]

Recorded(client) == \E r \in rows : r.item.client = client

RecordedAs(i) == \E r \in rows : r.item = i

LedgerInit ==
  /\ rows = {}
  /\ regs = [r \in Regs |-> [status |-> "ACTIVE", first |-> NoTime]]
  /\ version = 1

(***************************************************************************)
(* A mark of an active registration is stored once; the first one stored   *)
(* fixes first_attended_at and publishes a new offline version.            *)
(***************************************************************************)
Record(i) ==
  /\ i.reg \in Regs
  /\ regs[i.reg].status = "ACTIVE"
  /\ ~Recorded(i.client)
  /\ LET duplicate == regs[i.reg].first # NoTime
     IN  /\ rows' = rows \cup {[item |-> i, duplicate |-> duplicate]}
         /\ regs' = IF duplicate THEN regs
                                 ELSE [regs EXCEPT ![i.reg].first = i.at]
         /\ version' = IF duplicate THEN version ELSE version + 1

\* A registration is annulled once and for good.
AnnulRegistration(r) ==
  /\ regs[r].status = "ACTIVE"
  /\ regs' = [regs EXCEPT ![r].status = "ANNULLED"]
  /\ version' = version + 1
  /\ UNCHANGED rows

\* Any other edit of the Event publishes a new version and touches no mark.
TouchEvent ==
  /\ version' = version + 1
  /\ UNCHANGED <<rows, regs>>

LedgerNext ==
  \/ \E i \in ItemOf(Regs) : Record(i)
  \/ \E r \in Regs : AnnulRegistration(r)
  \/ TouchEvent

LedgerSpec == LedgerInit /\ [][LedgerNext]_ledgerVars

(***************************************************************************)
(* The first mark accepted for a registration, and only it, is its primary *)
(* attendance: first_attended_at is that mark's time, and every other mark *)
(* of the registration is flagged as a repeat.  A client_event_id is       *)
(* stored at most once.                                                    *)
(***************************************************************************)
PrimaryRows(r) == {a \in rows : a.item.reg = r /\ ~a.duplicate}

OnePrimary ==
  \A r \in Regs :
    /\ \A a, b \in PrimaryRows(r) : a = b
    /\ \A a \in PrimaryRows(r) : regs[r].first = a.item.at
    /\ regs[r].first # NoTime => PrimaryRows(r) # {}

ClientRecordedOnce ==
  \A a, b \in rows : a.item.client = b.item.client => a = b
=============================================================================
