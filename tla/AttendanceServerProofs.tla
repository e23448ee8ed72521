------------------------ MODULE AttendanceServerProofs ------------------------
(***************************************************************************)
(* For any workers, administrators, marks and dates: the sync transactions *)
(* keep the attendance ledger consistent and implement AttendanceLedger.   *)
(***************************************************************************)
EXTENDS AttendanceServer, AttendanceLedgerProofs

\* Who holds which row lock, and what that says about a thread's position.
EventLockInv ==
  /\ \A a \in Admins : eventLock # a
  /\ \A w \in Workers : eventLock = w <=> pc[w] \in {"registration", "apply"}

RowLockInv ==
  /\ \A r \in Regs, w \in Workers :
       rowLock[r] = w <=> pc[w] = "apply" /\ item[w].reg = r
  /\ \A r \in Regs, a \in Admins :
       rowLock[r] = a <=> pc[a] = "bump" /\ target[a] = r

\* A registration read under its lock stays as it was read.
SeenIsCurrent ==
  \A w \in Workers : pc[w] = "apply" => seen[w] = regs[item[w].reg]

TargetIsActive ==
  \A a \in Admins : pc[a] = "bump" => regs[target[a]].status = "ACTIVE"

LockInv == EventLockInv /\ RowLockInv /\ SeenIsCurrent /\ TargetIsActive

USE BatchesAssumption, WindowsAssumption, RegsAssumption, ThreadsAssumption,
    NoItemAssumption, MaxDateChangesAssumption, NoTimeAssumption

LEMMA TypeInit == Init => TypeOK
BY DEF Init, TypeOK, LedgerInit, Registration, Threads, WorkerPC, HasItem

LEMMA TypeNext == TypeOK /\ [Next]_vars => TypeOK'
<1> SUFFICES ASSUME TypeOK, [Next]_vars PROVE TypeOK'
  OBVIOUS
<1> USE DEF TypeOK, Threads, WorkerPC, HasItem, Goto, ledgerVars, eventVars,
            lockVars, requestVars, Statuses, Confirmed, Rejected
<1>1. ASSUME NEW w \in Workers, Receive(w) PROVE TypeOK'
  BY <1>1 DEF Receive
<1>2. ASSUME NEW w \in Workers, CheckRepeat(w) PROVE TypeOK'
  BY <1>2 DEF CheckRepeat, Answer, RepeatStatus
<1>3. ASSUME NEW w \in Workers, LockEvent(w) PROVE TypeOK'
  BY <1>3 DEF LockEvent
<1>4. ASSUME NEW w \in Workers, RegistrationMissing(w) PROVE TypeOK'
  BY <1>4 DEF RegistrationMissing, Finish, Answer, ReleaseLocks
<1>5. ASSUME NEW w \in Workers, LockRegistration(w) PROVE TypeOK'
  BY <1>5 DEF LockRegistration
<1>6. ASSUME NEW w \in Workers, RejectAnnulled(w) PROVE TypeOK'
  BY <1>6 DEF RejectAnnulled, Finish, Answer, ReleaseLocks
<1>7. ASSUME NEW w \in Workers, RejectTimestamp(w) PROVE TypeOK'
  BY <1>7 DEF RejectTimestamp, Finish, Answer, ReleaseLocks
<1>8. ASSUME NEW w \in Workers, InsertMark(w) PROVE TypeOK'
  <2>1. item[w] \in Items /\ item[w].reg \in Regs
    BY <1>8 DEF InsertMark, Admissible
  <2>2. item[w].at \in Times
    BY <2>1 DEF Items, ItemOf
  <2>3. regs' \in [Regs -> Registration]
    BY <1>8, <2>1, <2>2 DEF InsertMark, Registration
  <2>4. rows' \subseteq [item : Items, duplicate : BOOLEAN]
    <3>1. \A d \in BOOLEAN :
            [item |-> item[w], duplicate |-> d] \in [item : Items, duplicate : BOOLEAN]
      BY <2>1
    <3> QED BY <1>8, <3>1 DEF InsertMark
  <2>5. version' \in Nat
    BY <1>8 DEF InsertMark
  <2>6. PICK s \in Statuses : Finish(w, s)
    BY <1>8 DEF InsertMark
  <2>7. results' \in [Workers -> SUBSET [item : Items, status : Statuses]]
    <3>1. [item |-> item[w], status |-> s] \in [item : Items, status : Statuses]
      BY <2>1, <2>6
    <3> QED BY <2>6, <3>1 DEF Finish, Answer
  <2>8. eventLock' \in Threads \cup {NoOne} /\ rowLock' \in [Regs -> Threads \cup {NoOne}]
    BY <2>6 DEF Finish, ReleaseLocks
  <2>9. /\ item' = [item EXCEPT ![w] = NoItem]
        /\ seen' = [seen EXCEPT ![w] = NoRegistration]
        /\ pc' = [pc EXCEPT ![w] = "next"]
        /\ UNCHANGED <<window, dateChanges, todo, context, target>>
    BY <2>6 DEF Finish
  <2> QED
    BY <2>3, <2>4, <2>5, <2>7, <2>8, <2>9
<1>9. ASSUME NEW w \in Workers, InsertConflict(w) PROVE TypeOK'
  BY <1>9 DEF InsertConflict, ReleaseLocks, Admissible
<1>10. ASSUME NEW w \in Workers, Reread(w) PROVE TypeOK'
  <2>1. RepeatStatus(item[w]) \in Statuses
    BY DEF RepeatStatus
  <2> QED
    BY <1>10, <2>1 DEF Reread, Finish, Answer, ReleaseLocks
<1>11. ASSUME NEW w \in Workers, Reply(w) PROVE TypeOK'
  BY <1>11 DEF Reply, EndRequest
<1>12. ASSUME NEW w \in Workers, CrashWorker(w) PROVE TypeOK'
  BY <1>12 DEF CrashWorker, AbortWorker, EndRequest, ReleaseLocks
<1>13. ASSUME NEW a \in Admins, AnnulLock(a) PROVE TypeOK'
  BY <1>13 DEF AnnulLock, ReleaseLocks
<1>14. ASSUME NEW a \in Admins, AnnulCommit(a) PROVE TypeOK'
  <2>1. regs' \in [Regs -> Registration]
    BY <1>14 DEF AnnulCommit, Registration
  <2> QED
    BY <1>14, <2>1 DEF AnnulCommit, EndAnnul, ReleaseLocks
<1>15. ASSUME NEW a \in Admins, CrashAdmin(a) PROVE TypeOK'
  BY <1>15 DEF CrashAdmin, AbortAdmin, EndAnnul, ReleaseLocks
<1>16. CASE ChangeDates
  BY <1>16 DEF ChangeDates
<1>17. ASSUME NEW w \in Workers, NEW a \in Admins, DeadlockVictim(w, a)
       PROVE  TypeOK'
  <2>1. CASE AbortWorker(w)
    BY <2>1 DEF AbortWorker, EndRequest, ReleaseLocks
  <2>2. CASE AbortAdmin(a)
    BY <2>2 DEF AbortAdmin, EndAnnul, ReleaseLocks
  <2> QED BY <1>17, <2>1, <2>2 DEF DeadlockVictim
<1>18. CASE UNCHANGED vars
  BY <1>18 DEF vars
<1> QED
  BY <1>1, <1>2, <1>3, <1>4, <1>5, <1>6, <1>7, <1>8, <1>9, <1>10, <1>11, <1>12, <1>13, <1>14, <1>15, <1>16, <1>17, <1>18 DEF Next, WorkerStep

(***************************************************************************)
(* Every variable keeps its type, and no thread reaches a point of the     *)
(* handlers without the item, registration or target that point needs.     *)
(***************************************************************************)
THEOREM TypeCorrect == Spec => []TypeOK
BY TypeInit, TypeNext, PTL DEF Spec

-----------------------------------------------------------------------------
LEMMA LockInit == Init => LockInv
BY DEF Init, LockInv, EventLockInv, RowLockInv, SeenIsCurrent, TargetIsActive,
       Threads

LEMMA LockNext == TypeOK /\ LockInv /\ [Next]_vars => LockInv'
<1> SUFFICES ASSUME TypeOK, LockInv, [Next]_vars PROVE LockInv'
  OBVIOUS
<1> USE DEF LockInv, EventLockInv, RowLockInv, SeenIsCurrent, TargetIsActive,
            TypeOK, Threads, WorkerPC, HasItem, Goto, ledgerVars, eventVars,
            lockVars, requestVars
<1>1. ASSUME NEW w \in Workers, Receive(w) PROVE LockInv'
  BY <1>1 DEF Receive
<1>2. ASSUME NEW w \in Workers, CheckRepeat(w) PROVE LockInv'
  BY <1>2 DEF CheckRepeat
<1>3. ASSUME NEW w \in Workers, LockEvent(w) PROVE LockInv'
  BY <1>3 DEF LockEvent
<1>4. ASSUME NEW w \in Workers, RegistrationMissing(w) PROVE LockInv'
  BY <1>4 DEF RegistrationMissing, Finish, ReleaseLocks
<1>5. ASSUME NEW w \in Workers, LockRegistration(w) PROVE LockInv'
  BY <1>5 DEF LockRegistration
<1>6. ASSUME NEW w \in Workers, RejectAnnulled(w) PROVE LockInv'
  BY <1>6 DEF RejectAnnulled, Finish, ReleaseLocks
<1>7. ASSUME NEW w \in Workers, RejectTimestamp(w) PROVE LockInv'
  BY <1>7 DEF RejectTimestamp, Finish, ReleaseLocks
<1>8. ASSUME NEW w \in Workers, InsertMark(w) PROVE LockInv'
  BY <1>8 DEF InsertMark, Finish, ReleaseLocks, Admissible
<1>9. ASSUME NEW w \in Workers, InsertConflict(w) PROVE LockInv'
  BY <1>9 DEF InsertConflict, ReleaseLocks, Admissible
<1>10. ASSUME NEW w \in Workers, Reread(w) PROVE LockInv'
  BY <1>10 DEF Reread, Finish, ReleaseLocks
<1>11. ASSUME NEW w \in Workers, Reply(w) PROVE LockInv'
  BY <1>11 DEF Reply, EndRequest
<1>12. ASSUME NEW w \in Workers, CrashWorker(w) PROVE LockInv'
  BY <1>12 DEF CrashWorker, AbortWorker, EndRequest, ReleaseLocks
<1>13. ASSUME NEW a \in Admins, AnnulLock(a) PROVE LockInv'
  BY <1>13 DEF AnnulLock
<1>14. ASSUME NEW a \in Admins, AnnulCommit(a) PROVE LockInv'
  BY <1>14 DEF AnnulCommit, EndAnnul, ReleaseLocks, Registration
<1>15. ASSUME NEW a \in Admins, CrashAdmin(a) PROVE LockInv'
  BY <1>15 DEF CrashAdmin, AbortAdmin, EndAnnul, ReleaseLocks
<1>16. CASE ChangeDates
  BY <1>16 DEF ChangeDates
<1>17. ASSUME NEW w \in Workers, NEW a \in Admins, DeadlockVictim(w, a)
       PROVE  LockInv'
  <2>1. CASE AbortWorker(w)
    BY <2>1 DEF AbortWorker, EndRequest, ReleaseLocks
  <2>2. CASE AbortAdmin(a)
    BY <2>2 DEF AbortAdmin, EndAnnul, ReleaseLocks
  <2> QED BY <1>17, <2>1, <2>2 DEF DeadlockVictim
<1>18. CASE UNCHANGED vars
  BY <1>18 DEF vars
<1> QED
  BY <1>1, <1>2, <1>3, <1>4, <1>5, <1>6, <1>7, <1>8, <1>9, <1>10, <1>11, <1>12, <1>13, <1>14, <1>15, <1>16, <1>17, <1>18 DEF Next, WorkerStep

-----------------------------------------------------------------------------
(***************************************************************************)
(* Only a commit changes the ledger, and under the two row locks what it   *)
(* read is what it changes.                                                *)
(***************************************************************************)
LEMMA StepRefines ==
  TypeOK /\ LockInv /\ [Next]_vars => [LedgerNext]_ledgerVars
<1> SUFFICES ASSUME TypeOK, LockInv, [Next]_vars
             PROVE  LedgerNext \/ UNCHANGED ledgerVars
  OBVIOUS
<1>1. ASSUME NEW w \in Workers, InsertMark(w) PROVE Record(item[w]) /\ item[w] \in ItemOf(Regs)
  <2>1. pc[w] = "apply" /\ item[w] \in Items /\ item[w].reg \in Regs
    BY <1>1 DEF InsertMark, Admissible, TypeOK, HasItem
  <2>2. seen[w] = regs[item[w].reg] /\ regs[item[w].reg] \in Registration
    BY <2>1 DEF LockInv, SeenIsCurrent, TypeOK
  <2>3. regs[item[w].reg].status = "ACTIVE"
    BY <1>1, <2>2 DEF InsertMark, Admissible, Registration
  <2>4. item[w] \in ItemOf(Regs)
    BY <2>1 DEF Items, ItemOf
  <2> QED
    BY <1>1, <2>1, <2>2, <2>3, <2>4 DEF InsertMark, Record
<1>2. ASSUME NEW a \in Admins, AnnulCommit(a)
      PROVE  target[a] \in Regs /\ AnnulRegistration(target[a])
  BY <1>2 DEF AnnulCommit, EndAnnul, AnnulRegistration, LockInv, TargetIsActive,
              TypeOK, HasItem
<1>3. CASE ChangeDates
  BY <1>3 DEF ChangeDates, TouchEvent, LedgerNext
<1>4. ASSUME NEW w \in Workers, NEW a \in Admins, DeadlockVictim(w, a)
      PROVE  UNCHANGED ledgerVars
  BY <1>4 DEF DeadlockVictim, AbortWorker, AbortAdmin, EndAnnul, ledgerVars
<1>5. ASSUME NEW w \in Workers,
             \/ Receive(w) \/ CheckRepeat(w) \/ LockEvent(w)
             \/ RegistrationMissing(w) \/ LockRegistration(w)
             \/ RejectAnnulled(w) \/ RejectTimestamp(w) \/ InsertConflict(w)
             \/ Reread(w) \/ Reply(w) \/ CrashWorker(w)
      PROVE  UNCHANGED ledgerVars
  BY <1>5 DEF Receive, CheckRepeat, LockEvent, RegistrationMissing,
              LockRegistration, RejectAnnulled, RejectTimestamp,
              InsertConflict, Reread, Reply, CrashWorker, AbortWorker
<1>6. ASSUME NEW a \in Admins, AnnulLock(a) \/ CrashAdmin(a)
      PROVE  UNCHANGED ledgerVars
  BY <1>6 DEF AnnulLock, CrashAdmin, AbortAdmin, EndAnnul, ledgerVars
<1>7. CASE UNCHANGED vars
  BY <1>7 DEF vars
<1> QED
  BY <1>1, <1>2, <1>3, <1>4, <1>5, <1>6, <1>7 DEF Next, WorkerStep, LedgerNext

LEMMA ServerImplementsLedger == Spec => LedgerSpec
<1>1. Init => LedgerInit
  BY DEF Init
<1> QED
  BY <1>1, TypeInit, TypeNext, LockInit, LockNext, StepRefines, PTL
  DEF Spec, LedgerSpec

(***************************************************************************)
(* Every behaviour of the sync transactions, whatever its interleavings,   *)
(* aborts and retries, is a behaviour of the atomic ledger.                *)
(***************************************************************************)
THEOREM ServerRefinesLedger == Spec => LedgerRefined
BY ServerImplementsLedger
DEF LedgerRefined, Ledger!LedgerSpec, LedgerSpec, Ledger!LedgerInit, LedgerInit,
    Ledger!LedgerNext, LedgerNext, Ledger!ledgerVars, ledgerVars,
    Ledger!Record, Record, Ledger!AnnulRegistration, AnnulRegistration,
    Ledger!TouchEvent, TouchEvent, Ledger!ItemOf, ItemOf, Ledger!Recorded, Recorded

(***************************************************************************)
(* So the sync transactions keep one primary attendance per registration   *)
(* and store a client_event_id once.                                       *)
(***************************************************************************)
THEOREM OnePrimaryHolds == Spec => []OnePrimary
BY ServerImplementsLedger, LedgerCorrect, PTL

THEOREM ClientRecordedOnceHolds == Spec => []ClientRecordedOnce
BY ServerImplementsLedger, LedgerCorrect, PTL

-----------------------------------------------------------------------------
\* What one answer says about the ledger; AnswersMatchLedger says it of all.
AnswerIsTrue(a) ==
  /\ a.status \in Confirmed => RecordedAs(a.item)
  /\ a.status = "ACCEPTED" => [item |-> a.item, duplicate |-> FALSE] \in rows
  /\ a.status = "REGISTRATION_ALREADY_ATTENDED" =>
       [item |-> a.item, duplicate |-> TRUE] \in rows
  /\ a.status = "CLIENT_EVENT_CONFLICT" =>
       Recorded(a.item.client) /\ ~RecordedAs(a.item)

\* A row is never removed, and the client_event_id it takes stays taken.
LEMMA TruthIsStable ==
  ASSUME [LedgerNext]_ledgerVars, NEW a, AnswerIsTrue(a)
  PROVE  AnswerIsTrue(a)'
<1>1. ASSUME NEW i \in ItemOf(Regs), Record(i) PROVE AnswerIsTrue(a)'
  <2>1. PICK d \in BOOLEAN : rows' = rows \cup {[item |-> i, duplicate |-> d]}
    BY <1>1 DEF Record
  <2>2. \A r \in rows : r.item.client # i.client
    BY <1>1 DEF Record, Recorded
  <2> QED BY <2>1, <2>2 DEF AnswerIsTrue, RecordedAs, Recorded
<1>2. CASE UNCHANGED rows
  BY <1>2 DEF AnswerIsTrue, RecordedAs, Recorded
<1> QED
  BY <1>1, <1>2 DEF LedgerNext, AnnulRegistration, TouchEvent, ledgerVars

\* A repeat is judged against the ledger of the moment.
LEMMA RepeatIsTrue ==
  ASSUME NEW i, Recorded(i.client)
  PROVE  AnswerIsTrue([item |-> i, status |-> RepeatStatus(i)])
BY DEF AnswerIsTrue, RepeatStatus, Confirmed

LEMMA RejectionIsTrue ==
  ASSUME NEW i, NEW s \in Rejected
  PROVE  AnswerIsTrue([item |-> i, status |-> s])
BY DEF AnswerIsTrue, Rejected, Confirmed

\* Nobody rereads a mark that is not recorded.
RereadInv == \A w \in Workers : pc[w] = "reread" => Recorded(item[w].client)

AnswerInv == RereadInv /\ AnswersMatchLedger

LEMMA AnswerInit == Init => AnswerInv
BY DEF Init, AnswerInv, RereadInv, AnswersMatchLedger, Threads

\* Each step adds to the answers of one worker at most one, and a true one.
LEMMA NewAnswersAreTrue ==
  ASSUME TypeOK, LockInv, AnswerInv, [Next]_vars,
         NEW v \in Workers, NEW a \in results'[v], a \notin results[v]
  PROVE  AnswerIsTrue(a)'
<1>1. [LedgerNext]_ledgerVars
  BY StepRefines
<1> DEFINE Added(w, s) ==
      results' = [results EXCEPT ![w] = @ \cup {[item |-> item[w], status |-> s]}]
<1>2. ASSUME NEW w \in Workers, NEW s, Added(w, s)
      PROVE  a = [item |-> item[w], status |-> s]
  BY <1>2 DEF TypeOK
<1>3. ASSUME NEW w \in Workers, CheckRepeat(w) PROVE AnswerIsTrue(a)'
  <2>1. PICK i \in todo[w] :
          /\ Recorded(i.client)
          /\ results' = [results EXCEPT ![w] =
                           @ \cup {[item |-> i, status |-> RepeatStatus(i)]}]
    BY <1>3 DEF CheckRepeat, Answer
  <2>2. a = [item |-> i, status |-> RepeatStatus(i)]
    BY <2>1 DEF TypeOK
  <2> QED BY <2>1, <2>2, <1>1, RepeatIsTrue, TruthIsStable
<1>4. ASSUME NEW w \in Workers, NEW s \in Rejected, Added(w, s) PROVE AnswerIsTrue(a)'
  <2>1. AnswerIsTrue([item |-> item[w], status |-> s])
    BY RejectionIsTrue
  <2> QED BY <1>1, <1>2, <1>4, <2>1, TruthIsStable
<1>5. ASSUME NEW w \in Workers, InsertMark(w) PROVE AnswerIsTrue(a)'
  <2> DEFINE duplicate == seen[w].first # NoTime
             s == IF duplicate THEN "REGISTRATION_ALREADY_ATTENDED" ELSE "ACCEPTED"
  <2>1. Added(w, s) /\ rows' = rows \cup {[item |-> item[w], duplicate |-> duplicate]}
    BY <1>5 DEF InsertMark, Finish, Answer
  <2>2. a = [item |-> item[w], status |-> s]
    BY <2>1, <1>2
  <2>3. CASE duplicate
    <3>1. /\ a.item = item[w] /\ a.status = "REGISTRATION_ALREADY_ATTENDED"
          /\ [item |-> a.item, duplicate |-> TRUE] \in rows'
      BY <2>1, <2>2, <2>3
    <3> QED BY <3>1 DEF AnswerIsTrue, RecordedAs
  <2>4. CASE ~duplicate
    <3>1. /\ a.item = item[w] /\ a.status = "ACCEPTED"
          /\ [item |-> a.item, duplicate |-> FALSE] \in rows'
      BY <2>1, <2>2, <2>4
    <3> QED BY <3>1 DEF AnswerIsTrue, RecordedAs
  <2> QED BY <2>3, <2>4
<1>6. ASSUME NEW w \in Workers, Reread(w) PROVE AnswerIsTrue(a)'
  <2>1. Recorded(item[w].client) /\ Added(w, RepeatStatus(item[w]))
    BY <1>6 DEF Reread, Finish, Answer, AnswerInv, RereadInv
  <2>2. AnswerIsTrue([item |-> item[w], status |-> RepeatStatus(item[w])])
    BY <2>1, RepeatIsTrue
  <2> QED BY <1>1, <1>2, <2>1, <2>2, TruthIsStable
<1>7. ASSUME NEW w \in Workers,
             RegistrationMissing(w) \/ RejectAnnulled(w) \/ RejectTimestamp(w)
      PROVE  AnswerIsTrue(a)'
  <2>1. \E s \in Rejected : Added(w, s)
    BY <1>7 DEF RegistrationMissing, RejectAnnulled, RejectTimestamp, Finish,
                Answer, Rejected
  <2> QED BY <2>1, <1>4
<1>8. ASSUME NEW w \in Workers, EndRequest(w) PROVE FALSE
  BY <1>8 DEF EndRequest, TypeOK
<1>9. results' # results
  OBVIOUS
<1>10. ASSUME NEW w \in Workers, NEW m \in Admins, DeadlockVictim(w, m) PROVE FALSE
  BY <1>10, <1>8, <1>9 DEF DeadlockVictim, AbortWorker, AbortAdmin, EndAnnul, requestVars
<1>11. ~ UNCHANGED requestVars
  BY <1>9 DEF requestVars
<1>12. ASSUME NEW w \in Workers,
              \/ Receive(w) \/ LockEvent(w) \/ LockRegistration(w)
              \/ InsertConflict(w) \/ Reply(w) \/ CrashWorker(w)
       PROVE  FALSE
  BY <1>8, <1>9, <1>12 DEF Receive, LockEvent, LockRegistration, InsertConflict,
                           Reply, CrashWorker, AbortWorker, requestVars
<1>13. ASSUME NEW m \in Admins, AnnulLock(m) \/ AnnulCommit(m) \/ CrashAdmin(m)
       PROVE  FALSE
  BY <1>11, <1>13 DEF AnnulLock, AnnulCommit, CrashAdmin, AbortAdmin, EndAnnul
<1>14. ~ ChangeDates /\ ~ UNCHANGED vars
  BY <1>11 DEF ChangeDates, vars
<1> HIDE DEF Added
<1> QED
  BY <1>3, <1>5, <1>6, <1>7, <1>10, <1>12, <1>13, <1>14 DEF Next, WorkerStep

LEMMA RereadNext ==
  ASSUME TypeOK, LockInv, RereadInv, [Next]_vars
  PROVE  RereadInv'
<1>1. \A c : Recorded(c) => Recorded(c)'
  BY StepRefines DEF LedgerNext, Record, AnnulRegistration, TouchEvent,
                     ledgerVars, Recorded
<1> SUFFICES ASSUME NEW v \in Workers, pc'[v] = "reread"
             PROVE  Recorded(item[v].client)'
  BY DEF RereadInv
<1> USE DEF TypeOK, Threads, Goto
<1>2. CASE pc[v] = "reread" /\ item'[v] = item[v]
  BY <1>1, <1>2 DEF RereadInv
<1>3. CASE InsertConflict(v)
  BY <1>3, <1>1 DEF InsertConflict, requestVars
<1>4. ASSUME NEW w \in Workers, WorkerStep(w), w # v \/ ~InsertConflict(w)
      PROVE  pc[v] = "reread" /\ item'[v] = item[v]
  BY <1>4 DEF WorkerStep, CheckRepeat, LockEvent, RegistrationMissing,
              LockRegistration, RejectAnnulled, RejectTimestamp, InsertMark,
              InsertConflict, Reread, Reply, Finish, EndRequest, requestVars
<1>5. ASSUME NEW w \in Workers, Receive(w) \/ AbortWorker(w)
      PROVE  pc[v] = "reread" /\ item'[v] = item[v]
  BY <1>5 DEF Receive, AbortWorker, EndRequest
<1>6. ASSUME NEW a \in Admins, AnnulLock(a) \/ AnnulCommit(a) \/ AbortAdmin(a)
      PROVE  pc[v] = "reread" /\ item'[v] = item[v]
  BY <1>6 DEF AnnulLock, AnnulCommit, AbortAdmin, EndAnnul, requestVars
<1>7. ASSUME ChangeDates \/ UNCHANGED vars
      PROVE  pc[v] = "reread" /\ item'[v] = item[v]
  BY <1>7 DEF ChangeDates, vars, requestVars
<1> QED
  BY <1>2, <1>3, <1>4, <1>5, <1>6, <1>7
  DEF Next, CrashWorker, CrashAdmin, DeadlockVictim

LEMMA AnswerNext ==
  TypeOK /\ LockInv /\ AnswerInv /\ [Next]_vars => AnswerInv'
<1> SUFFICES ASSUME TypeOK, LockInv, AnswerInv, [Next]_vars,
                    NEW v \in Workers, NEW a \in results'[v]
             PROVE  AnswerIsTrue(a)'
  BY RereadNext DEF AnswerInv, AnswersMatchLedger, AnswerIsTrue
<1>1. CASE a \in results[v]
  <2>1. AnswerIsTrue(a)
    BY <1>1 DEF AnswerInv, AnswersMatchLedger, AnswerIsTrue
  <2> QED BY <2>1, StepRefines, TruthIsStable
<1>2. CASE a \notin results[v]
  BY <1>2, NewAnswersAreTrue
<1> QED BY <1>1, <1>2

(***************************************************************************)
(* A device may act on any answer it is given: confirmed means stored as   *)
(* sent, a conflict means the client_event_id belongs to another mark.     *)
(***************************************************************************)
THEOREM AnswersMatchLedgerHolds == Spec => []AnswersMatchLedger
<1>1. AnswerInv => AnswersMatchLedger
  BY DEF AnswerInv
<1> QED
  BY <1>1, TypeInit, TypeNext, LockInit, LockNext, AnswerInit, AnswerNext, PTL
  DEF Spec
=============================================================================
