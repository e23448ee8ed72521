------------------------ MODULE AttendanceLedgerProofs ------------------------
(***************************************************************************)
(* What the atomic ledger guarantees for any clients, registrations and    *)
(* times; every module that implements it inherits these facts.            *)
(***************************************************************************)
EXTENDS AttendanceLedger, TLAPS

LedgerTypeOK ==
  /\ regs \in [Regs -> Registration]
  /\ \A a \in rows : a.item \in ItemOf(Regs) /\ a.duplicate \in BOOLEAN

LedgerInv == LedgerTypeOK /\ OnePrimary /\ ClientRecordedOnce

LEMMA LedgerInvInit == LedgerInit => LedgerInv
BY DEF LedgerInit, LedgerInv, LedgerTypeOK, OnePrimary, ClientRecordedOnce,
       PrimaryRows, Registration

LEMMA RecordPreserves ==
  ASSUME LedgerInv, NEW i \in ItemOf(Regs), Record(i)
  PROVE  LedgerInv'
<1> DEFINE duplicate == regs[i.reg].first # NoTime
           new == [item |-> i, duplicate |-> duplicate]
<1>1. /\ i.reg \in Regs /\ i.at \in Times
      /\ new.item = i /\ new.duplicate = duplicate /\ duplicate \in BOOLEAN
      /\ rows' = rows \cup {new}
      /\ regs' = IF duplicate THEN regs ELSE [regs EXCEPT ![i.reg].first = i.at]
      /\ \A a \in rows : a.item.client # i.client
  BY DEF Record, Recorded, ItemOf
<1> HIDE DEF new
<1> USE NoTimeAssumption DEF LedgerInv, LedgerTypeOK, Registration
<1>2. LedgerTypeOK'
  BY <1>1
<1>3. ClientRecordedOnce'
  BY <1>1 DEF ClientRecordedOnce
<1>4. ASSUME NEW r \in Regs
      PROVE  /\ \A a, b \in PrimaryRows(r)' : a = b
             /\ \A a \in PrimaryRows(r)' : regs'[r].first = a.item.at
             /\ regs'[r].first # NoTime => PrimaryRows(r)' # {}
  <2>1. CASE r # i.reg \/ duplicate
    <3>1. PrimaryRows(r)' = PrimaryRows(r)
      BY <1>1, <2>1 DEF PrimaryRows
    <3>2. regs'[r].first = regs[r].first
      BY <1>1, <2>1
    <3> QED BY <3>1, <3>2 DEF OnePrimary
  <2>2. CASE r = i.reg /\ ~duplicate
    <3>1. PrimaryRows(r) = {}
      <4> SUFFICES ASSUME NEW a \in PrimaryRows(r) PROVE FALSE
        OBVIOUS
      <4>1. regs[r].first = a.item.at
        BY DEF OnePrimary
      <4>2. a.item.at \in Times
        BY DEF PrimaryRows, ItemOf
      <4> QED BY <4>1, <4>2, <2>2
    <3>2. PrimaryRows(r)' = {new}
      BY <1>1, <2>2, <3>1 DEF PrimaryRows
    <3>3. regs'[r].first = i.at
      BY <1>1, <2>2
    <3> QED BY <1>1, <3>2, <3>3
  <2> QED BY <2>1, <2>2
<1>5. OnePrimary'
  BY <1>4 DEF OnePrimary
<1> QED BY <1>2, <1>3, <1>5

LEMMA LedgerInvNext == LedgerInv /\ [LedgerNext]_ledgerVars => LedgerInv'
<1> SUFFICES ASSUME LedgerInv, [LedgerNext]_ledgerVars PROVE LedgerInv'
  OBVIOUS
<1> USE DEF LedgerInv, LedgerTypeOK, OnePrimary, ClientRecordedOnce, PrimaryRows
<1>1. ASSUME NEW i \in ItemOf(Regs), Record(i) PROVE LedgerInv'
  BY <1>1, RecordPreserves
<1>2. ASSUME NEW r \in Regs, AnnulRegistration(r) PROVE LedgerInv'
  <2>1. /\ regs' \in [Regs -> Registration]
        /\ rows' = rows
        /\ \A s \in Regs : regs'[s].first = regs[s].first
    BY <1>2 DEF AnnulRegistration, Registration
  <2> QED BY <2>1
<1>3. CASE TouchEvent
  BY <1>3 DEF TouchEvent
<1>4. CASE UNCHANGED ledgerVars
  BY <1>4 DEF ledgerVars
<1> QED BY <1>1, <1>2, <1>3, <1>4 DEF LedgerNext

(***************************************************************************)
(* The atomic ledger keeps one primary attendance per registration, whose  *)
(* time is first_attended_at, and one row per client_event_id.             *)
(***************************************************************************)
THEOREM LedgerCorrect == LedgerSpec => [](OnePrimary /\ ClientRecordedOnce)
<1>1. LedgerInv => OnePrimary /\ ClientRecordedOnce
  BY DEF LedgerInv
<1> QED BY <1>1, LedgerInvInit, LedgerInvNext, PTL DEF LedgerSpec
=============================================================================
