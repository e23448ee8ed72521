------------------------------ MODULE ReviewLedger ------------------------------
(***************************************************************************)
(* What the review of an Event promises: nobody's credit changes before a  *)
(* list is approved, an approval credits everyone on the list at once and  *)
(* exactly as decided, and it needs a decision about everyone.  ReviewPage *)
(* implements it with review items, participations and score rows.         *)
(***************************************************************************)
CONSTANTS Attendees, RoleNames, Nobody, Open

VARIABLES
  state,     \* of the review
  listed,    \* the registrations an approval is about
  decided,   \* what each of them is to get: a role, nothing, or Open
  credited   \* the standing awards of each, as [nr, role] records

ledgerVars == <<state, listed, decided, credited>>

\* Nothing is credited before the first approval; one may have been made.
LedgerInit ==
  /\ state \in {"NOT_STARTED", "PENDING", "APPROVED"}
  /\ listed \subseteq Attendees
  /\ \A r \in Attendees :
       credited[r] # {} => /\ state = "APPROVED"
                           /\ \E x \in credited[r] : credited[r] = {x} /\ x.role = decided[r]

\* Registrations come and go, marks arrive and decisions are made.
Decide ==
  /\ \/ state' = state
     \/ state = "NOT_STARTED" /\ state' = "PENDING"
     \/ state = "APPROVED" /\ state' = "PENDING"
  /\ UNCHANGED credited

\* Only what is decided otherwise than it was is awarded anew.
CreditedAs(r) ==
  LET kept == \E x \in credited[r] : x.role = decided[r] IN
  \/ decided[r] = Nobody /\ credited'[r] = {}
  \/ decided[r] # Nobody /\ kept /\ credited'[r] = credited[r]
  \/ /\ decided[r] # Nobody /\ ~kept
     /\ \E x \in credited'[r] : credited'[r] = {x} /\ x.role = decided[r]

Approve ==
  /\ state = "PENDING" /\ state' = "APPROVED"
  /\ \A r \in listed : decided[r] # Open
  /\ \A r \in Attendees : IF r \in listed THEN CreditedAs(r) ELSE credited'[r] = credited[r]

LedgerNext == Decide \/ Approve

LedgerSpec == LedgerInit /\ [][LedgerNext]_ledgerVars
=============================================================================
