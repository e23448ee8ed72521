------------------------- MODULE EmailDeliveryProofs -------------------------
(***************************************************************************)
(* Proofs about EmailDelivery, for any number of registrations, links,     *)
(* mails, requests and workers, and of crashes.                            *)
(***************************************************************************)
EXTENDS EmailDelivery, TLAPS

\* What OneHolder needs to be inductive: no worker holds a row that a later
\* INSERT could take, and an idle worker holds none.
Numbered ==
  /\ \A w \in Workers : job[w] <= queued /\ (pc[w] = "idle" => job[w] = 0)
  /\ \A m \in Mails : mail[m] # NoMail => m <= queued

Inv == TypeOK /\ OneHolder /\ Numbered

\* What every step but a worker's does to the mails.
HeldKept ==
  /\ UNCHANGED <<workerVars, handed>>
  /\ queued <= queued'
  /\ \A m \in Mails :
       /\ mail[m].status = "SENDING" /\ ~mail[m].stale => mail'[m] \in {mail[m], NoMail}
       /\ mail[m] = NoMail /\ m <= queued => mail'[m] = NoMail
       /\ mail[m].status \in Terminal => mail'[m] \in {mail[m], NoMail}
       /\ mail'[m] # NoMail => m <= queued'

-----------------------------------------------------------------------------
LEMMA NoMailType == NoMail \in Mail
BY DEF NoMail, Mail

LEMMA CancelledFacts ==
  ASSUME TypeOK, NEW S
  PROVE  /\ Cancelled(S) \in [Mails -> Mail]
         /\ \A m \in Mails :
              \/ Cancelled(S)[m] = mail[m]
              \/ /\ mail[m].status = "QUEUED"
                 /\ Cancelled(S)[m] = [mail[m] EXCEPT !.status = "CANCELLED"]
         /\ \A m \in Mails :
              Cancelled(S)[m].status = "none" <=> Cancelled(S)[m].about = Nobody
BY DEF TypeOK, Cancelled, Mail, Statuses

LEMMA EnqueueFacts ==
  ASSUME TypeOK, NEW mails \in [Mails -> Mail], NEW i \in Intents,
         AddressOf(i) \in Addresses \cup {NoAddress},
         Enqueue(mails, i),
         \A m \in Mails : mails[m].status = "none" <=> mails[m].about = Nobody
  PROVE  /\ queued' = queued + 1
         /\ queued' \in 0..MaxMails
         /\ queued' \in Mails
         /\ mail' \in [Mails -> Mail]
         /\ \A m \in Mails : m # queued' => mail'[m] = mails[m]
         /\ mail'[queued'].about = i /\ mail'[queued'].status = "QUEUED"
         /\ \A m \in Mails : mail'[m].status = "none" <=> mail'[m].about = Nobody
<1> DEFINE new == [NoMail EXCEPT !.about = i, !.to = AddressOf(i), !.status = "QUEUED",
                                 !.due = TRUE]
<1>1. new \in Mail /\ new.about = i /\ new.status = "QUEUED"
  BY DEF NoMail, Mail, Statuses
<1>2. queued \in Nat /\ queued < MaxMails /\ queued' = queued + 1 /\ queued + 1 \in Mails
  BY BoundsAssumption DEF TypeOK, Enqueue, Mails
<1>3. mail' = [mails EXCEPT ![queued + 1] = new]
  BY DEF Enqueue
<1>4. i # Nobody
  BY NothingAssumption DEF Intents
<1> HIDE DEF new
<1> QED
  BY <1>1, <1>2, <1>3, <1>4, BoundsAssumption

LEMMA HolderMoves ==
  ASSUME Inv, TypeOK', HeldKept
  PROVE  Inv'
<1>1. OneHolder'
  BY DEF Inv, OneHolder, HeldKept, workerVars, TypeOK, Numbered
<1>2. Numbered'
  BY DEF Inv, HeldKept, workerVars, TypeOK, Numbered, Mails
<1> QED
  BY <1>1, <1>2 DEF Inv

\* Requests that cancel and queue nothing, or only cancel.
LEMMA CancelKeeps ==
  ASSUME Inv, NEW S, mail' = Cancelled(S),
         UNCHANGED <<handed, workerVars, queued, crashes>>,
         intent' \in [Intents -> {"none", "live", "over"}],
         address' \in [Tickets -> Addresses \cup {NoAddress}],
         clear' \subseteq Requests \X Tickets
  PROVE  TypeOK' /\ HeldKept
<1>1. /\ mail' \in [Mails -> Mail]
      /\ \A m \in Mails :
           \/ mail'[m] = mail[m]
           \/ /\ mail[m].status = "QUEUED"
              /\ mail'[m] = [mail[m] EXCEPT !.status = "CANCELLED"]
      /\ \A m \in Mails : mail'[m].status = "none" <=> mail'[m].about = Nobody
  BY CancelledFacts DEF Inv
<1>2. TypeOK'
  BY <1>1 DEF Inv, TypeOK, workerVars
<1>3. \A m \in Mails : mail[m].status = "QUEUED" => mail[m] # NoMail
  BY DEF NoMail
<1>4. HeldKept
  BY <1>1, <1>3 DEF HeldKept, Inv, TypeOK, workerVars, Terminal, Numbered, Mails
<1> QED
  BY <1>2, <1>4

\* Requests that queue a mail, having cancelled those about S.
LEMMA EnqueueKeeps ==
  ASSUME Inv, NEW mails, NEW S, mails \in {mail, Cancelled(S)},
         NEW i \in Intents, Enqueue(mails, i),
         UNCHANGED <<handed, workerVars, crashes>>,
         intent' \in [Intents -> {"none", "live", "over"}],
         address' \in [Tickets -> Addresses \cup {NoAddress}],
         clear' \subseteq Requests \X Tickets
  PROVE  TypeOK' /\ HeldKept
<1>1. /\ mails \in [Mails -> Mail]
      /\ \A m \in Mails :
           \/ mails[m] = mail[m]
           \/ /\ mail[m].status = "QUEUED"
              /\ mails[m] = [mail[m] EXCEPT !.status = "CANCELLED"]
      /\ \A m \in Mails : mails[m].status = "none" <=> mails[m].about = Nobody
  BY CancelledFacts DEF Inv, TypeOK
<1>2. AddressOf(i) \in Addresses \cup {NoAddress}
  BY DEF AddressOf
<1>3. /\ queued' = queued + 1
      /\ queued' \in 0..MaxMails
      /\ queued' \in Mails
      /\ mail' \in [Mails -> Mail]
      /\ \A m \in Mails : m # queued' => mail'[m] = mails[m]
      /\ \A m \in Mails : mail'[m].status = "none" <=> mail'[m].about = Nobody
  BY <1>1, <1>2, EnqueueFacts DEF Inv
<1>4. TypeOK'
  BY <1>3 DEF Inv, TypeOK, workerVars
<1>5. mail[queued'] = NoMail
  BY <1>3 DEF Inv, TypeOK, Numbered, Mails
<1>6. \A m \in Mails : mail[m] # NoMail => m <= queued'
  BY <1>3 DEF Inv, TypeOK, Numbered, Mails
<1>7. \A m \in Mails : mail[m].status \in {"QUEUED"} \cup Terminal \cup {"SENDING"} => mail[m] # NoMail
  BY DEF NoMail, Terminal
<1>8. \A m \in Mails : m <= queued => m # queued'
  BY <1>3 DEF Inv, TypeOK, Mails
<1>9. HeldKept
  <2>1. ASSUME NEW m \in Mails, m = queued'
        PROVE  mail[m] = NoMail /\ m <= queued' /\ ~(m <= queued)
    BY <1>5, <1>8, <2>1, <1>3 DEF Mails
  <2>2. ASSUME NEW m \in Mails, m # queued'
        PROVE  mail'[m] = mail[m] \/ (mail[m].status = "QUEUED" /\ mail'[m] = [mail[m] EXCEPT !.status = "CANCELLED"])
    BY <1>1, <1>3, <2>2
  <2>3. ASSUME NEW m \in Mails
        PROVE  /\ mail[m].status = "SENDING" /\ ~mail[m].stale => mail'[m] \in {mail[m], NoMail}
               /\ mail[m] = NoMail /\ m <= queued => mail'[m] = NoMail
               /\ mail[m].status \in Terminal => mail'[m] \in {mail[m], NoMail}
               /\ mail'[m] # NoMail => m <= queued'
    <3>1. CASE m = queued'
      BY <3>1, <2>1, <1>7
    <3>2. CASE m # queued'
      BY <3>2, <2>2, <1>6, <1>7 DEF Terminal
    <3> QED
      BY <3>1, <3>2
  <2>4. queued <= queued'
    BY <1>3 DEF Inv, TypeOK
  <2> QED
    BY <2>3, <2>4 DEF HeldKept, workerVars
<1> QED
  BY <1>4, <1>9

LEMMA RequestKeeps ==
  ASSUME Inv, Request
  PROVE  TypeOK' /\ HeldKept
<1> USE DEF Intents, Links
<1>0. TypeOK
  BY DEF Inv
<1>1. ASSUME NEW t \in Tickets, Register(t)
      PROVE  TypeOK' /\ HeldKept
  <2>1. CASE UNCHANGED <<address, mail, queued>>
    BY <1>0, <1>1, <2>1 DEF Register, TypeOK, HeldKept, Inv, Numbered, workerVars, Requests, NoMail, Terminal
  <2>2. CASE /\ \E a \in Addresses : address' = [address EXCEPT ![t] = a]
             /\ Enqueue(mail, t)
    BY <1>0, <1>1, <2>2, EnqueueKeeps DEF Register, TypeOK
  <2> QED
    BY <1>1, <2>1, <2>2 DEF Register
<1>2. ASSUME NEW t \in Tickets, RegisterAgain(t)
      PROVE  TypeOK' /\ HeldKept
  BY <1>0, <1>2, EnqueueKeeps DEF RegisterAgain, TypeOK
<1>3. ASSUME NEW t \in Tickets, SendTickets(t)
      PROVE  TypeOK' /\ HeldKept
  BY <1>0, <1>3, EnqueueKeeps DEF SendTickets, TypeOK
<1>4. ASSUME NEW t \in Tickets, ChangeEmail(t)
      PROVE  TypeOK' /\ HeldKept
  BY <1>0, <1>4, CancelKeeps DEF ChangeEmail, TypeOK
<1>5. ASSUME NEW t \in Tickets, Annul(t)
      PROVE  TypeOK' /\ HeldKept
  BY <1>0, <1>5, CancelKeeps DEF Annul, EndIntent, TypeOK
<1>6. ASSUME NEW t \in Tickets, NEW r \in Requests,
             LookForTicket(r, t) \/ ResendFails(r, t)
      PROVE  TypeOK' /\ HeldKept
  BY <1>0, <1>6 DEF LookForTicket, ResendFails, TypeOK, HeldKept, Inv, Numbered, sourceVars, workerVars
<1>7. ASSUME NEW t \in Tickets, NEW r \in Requests, ResendTicket(r, t)
      PROVE  TypeOK' /\ HeldKept
  BY <1>0, <1>7, EnqueueKeeps DEF ResendTicket, TypeOK
<1>8. ASSUME NEW i \in Resets, Forgot(i)
      PROVE  TypeOK' /\ HeldKept
  <2> DEFINE used == {r \in Resets : intent[r] # "none"}
  <2>1. Enqueue(Cancelled(used), i) /\ UNCHANGED <<address, clear, handed, workerVars, crashes>>
    BY <1>8 DEF Forgot
  <2>2. intent' \in [Intents -> {"none", "live", "over"}]
    BY <1>0, <1>8 DEF Forgot, TypeOK
  <2> HIDE DEF used
  <2>3. /\ address' \in [Tickets -> Addresses \cup {NoAddress}]
        /\ clear' \subseteq Requests \X Tickets
    BY <1>0, <2>1 DEF TypeOK
  <2>4. i \in Intents /\ Cancelled(used) \in {mail, Cancelled(used)}
    OBVIOUS
  <2> QED
    BY <2>1, <2>2, <2>3, <2>4, EnqueueKeeps
<1>9. ASSUME NEW i \in Invitations, Invite(i) \/ ResendInvitation(i)
      PROVE  TypeOK' /\ HeldKept
  BY <1>0, <1>9, EnqueueKeeps DEF Invite, ResendInvitation, TypeOK
<1>10. ASSUME NEW i \in Links, UseLink(i)
       PROVE  TypeOK' /\ HeldKept
  BY <1>0, <1>10, CancelKeeps DEF UseLink, EndIntent, TypeOK
<1>11. ASSUME NEW i \in Links, ExpireLink(i)
       PROVE  TypeOK' /\ HeldKept
  BY <1>0, <1>11 DEF ExpireLink, EndIntent, TypeOK, HeldKept, Inv, Numbered, workerVars
<1>12. ASSUME NEW i \in Intents, Purge(i)
       PROVE  TypeOK' /\ HeldKept
  <2>1. /\ mail' \in [Mails -> Mail]
        /\ \A m \in Mails : mail'[m] = mail[m] \/ mail'[m] = NoMail
    BY <1>0, <1>12, NoMailType DEF Purge, TypeOK
  <2>2. NoMail.status = "none" /\ NoMail.about = Nobody
    BY DEF NoMail
  <2>3. TypeOK'
    BY <1>0, <1>12, <2>1, <2>2 DEF Purge, EndIntent, TypeOK, workerVars
  <2>4. HeldKept
    BY <1>0, <1>12, <2>1 DEF Purge, HeldKept, Inv, TypeOK, Numbered, workerVars
  <2> QED
    BY <2>3, <2>4
<1> QED
  BY <1>1, <1>2, <1>3, <1>4, <1>5, <1>6, <1>7, <1>8, <1>9, <1>10, <1>11, <1>12 DEF Request

\* Steps that rewrite one row that is there.
LEMMA RowFacts ==
  ASSUME TypeOK, NEW m \in Mails, NEW r \in Mail,
         mail[m] # NoMail, mail[m].status # "none",
         r.about = mail[m].about, r.status # "none",
         mail' = [mail EXCEPT ![m] = r]
  PROVE  /\ mail' \in [Mails -> Mail]
         /\ mail'[m] = r
         /\ \A n \in Mails : n # m => mail'[n] = mail[n]
         /\ \A n \in Mails : mail'[n].status = "none" <=> mail'[n].about = Nobody
         /\ mail'[m] # NoMail
BY DEF TypeOK, NoMail

LEMMA TimeKeeps ==
  ASSUME Inv, NEW m \in Mails, BackoffEnds(m) \/ LeaseEnds(m)
  PROVE  TypeOK' /\ Inv'
<1> DEFINE r == IF BackoffEnds(m) THEN [mail[m] EXCEPT !.due = TRUE]
                ELSE [mail[m] EXCEPT !.stale = TRUE]
<1>1. /\ mail[m].status \in {"QUEUED", "SENDING"}
      /\ mail' = [mail EXCEPT ![m] = r]
      /\ UNCHANGED <<clear, sourceVars, handed, workerVars, queued, crashes>>
  BY DEF BackoffEnds, LeaseEnds
<1>2. r \in Mail /\ r.about = mail[m].about /\ r.status = mail[m].status
  BY DEF Inv, TypeOK, Mail
<1>3. mail[m] # NoMail
  BY <1>1 DEF NoMail
<1>4. mail[m].status = "SENDING" => \A w \in Workers : job[w] # m
  BY DEF BackoffEnds, LeaseEnds
<1> HIDE DEF r
<1>5. /\ mail' \in [Mails -> Mail]
      /\ mail'[m] = r
      /\ \A n \in Mails : n # m => mail'[n] = mail[n]
      /\ \A n \in Mails : mail'[n].status = "none" <=> mail'[n].about = Nobody
      /\ mail'[m] # NoMail
  BY <1>1, <1>2, <1>3, RowFacts DEF Inv
<1>6. TypeOK'
  BY <1>1, <1>5 DEF Inv, TypeOK, sourceVars, workerVars
<1>7. OneHolder'
  BY <1>1, <1>3, <1>4, <1>5 DEF Inv, TypeOK, OneHolder, workerVars
<1>8. Numbered'
  BY <1>1, <1>3, <1>5 DEF Inv, Numbered, workerVars
<1> QED
  BY <1>6, <1>7, <1>8 DEF Inv

LEMMA ClaimKeeps ==
  ASSUME Inv, NEW w \in Workers, Claim(w)
  PROVE  Inv'
<1>0. TypeOK /\ OneHolder /\ Numbered
  BY DEF Inv
<1>1. PICK m \in Mails :
        /\ Claimable(m)
        /\ mail' = [mail EXCEPT ![m].status = "SENDING", ![m].attempts = @ + 1,
                                ![m].due = TRUE, ![m].stale = FALSE]
        /\ job' = [job EXCEPT ![w] = m]
        /\ tries' = [tries EXCEPT ![w] = mail[m].attempts + 1]
  BY DEF Claim
<1>2. /\ pc[w] = "idle"
      /\ pc' = [pc EXCEPT ![w] = "claimed"]
      /\ UNCHANGED <<clear, sourceVars, handed, queued, crashes>>
  BY DEF Claim, Goto
<1> DEFINE r == [mail[m] EXCEPT !.status = "SENDING", !.attempts = @ + 1,
                                !.due = TRUE, !.stale = FALSE]
<1>3. /\ r \in Mail /\ r.about = mail[m].about /\ r.status = "SENDING" /\ ~r.stale
      /\ mail' = [mail EXCEPT ![m] = r]
  BY <1>0, <1>1 DEF TypeOK, Mail, Statuses
<1>4. /\ mail[m].status # "none" /\ mail[m] # NoMail /\ mail[m].attempts \in Nat
      /\ ~(mail[m].status = "SENDING" /\ ~mail[m].stale)
  BY <1>0, <1>1 DEF Claimable, NoMail, TypeOK, Mail
<1> HIDE DEF r
<1>5. /\ mail' \in [Mails -> Mail]
      /\ mail'[m] = r
      /\ \A n \in Mails : n # m => mail'[n] = mail[n]
      /\ \A n \in Mails : mail'[n].status = "none" <=> mail'[n].about = Nobody
      /\ mail'[m] # NoMail
  BY <1>0, <1>3, <1>4, RowFacts
<1>6. \A v \in Workers : job[v] # m
  BY <1>0, <1>4 DEF TypeOK, OneHolder, Numbered, Mails, Holding
<1>7. TypeOK'
  BY <1>0, <1>1, <1>2, <1>4, <1>5 DEF TypeOK, sourceVars, Holding
<1>8. OneHolder'
  BY <1>0, <1>1, <1>2, <1>3, <1>5, <1>6 DEF TypeOK, OneHolder, Holding
<1>9. Numbered'
  BY <1>0, <1>1, <1>2, <1>4, <1>5 DEF TypeOK, Numbered
<1> QED
  BY <1>7, <1>8, <1>9 DEF Inv

\* Recording an outcome, whatever it is, and letting go of the mail.
LEMMA RecordKeeps ==
  ASSUME Inv, NEW w \in Workers, pc[w] \in Holding,
         NEW status \in Statuses, NEW due \in BOOLEAN, Record(w, status, due)
  PROVE  Inv'
<1>0. TypeOK /\ OneHolder /\ Numbered
  BY DEF Inv
<1> DEFINE m == job[w]
           r == [mail[m] EXCEPT !.status = status, !.due = due]
<1>1. m \in Mails
  BY <1>0 DEF TypeOK
<1>2. /\ pc' = [pc EXCEPT ![w] = "idle"]
      /\ job' = [job EXCEPT ![w] = 0]
      /\ tries' = [tries EXCEPT ![w] = 0]
      /\ UNCHANGED <<clear, sourceVars, handed, queued, crashes>>
  BY DEF Record, Idle, Goto
<1>3. CASE mail[m] = NoMail
  <2>1. mail' = mail
    BY <1>3 DEF Record
  <2>2. TypeOK'
    BY <1>0, <1>2, <2>1 DEF TypeOK, sourceVars, Holding
  <2> QED
    BY <1>0, <1>2, <2>1, <2>2 DEF Inv, TypeOK, OneHolder, Numbered, Holding, Mails
<1>4. CASE mail[m] # NoMail
  <2>1. mail' = [mail EXCEPT ![m] = r]
    BY <1>4 DEF Record
  <2>2. mail[m].status = "SENDING" /\ \A v \in Workers \ {w} : job[v] # m
    BY <1>0, <1>4 DEF OneHolder
  <2>3. r \in Mail /\ r.about = mail[m].about /\ r.status # "none"
    <3>1. PICK x \in Mail : x = mail[m]
      BY <1>0, <1>1 DEF TypeOK
    <3>2. [x EXCEPT !.status = status, !.due = due] \in Mail
      BY DEF Mail
    <3>3. /\ [x EXCEPT !.status = status, !.due = due].about = x.about
          /\ [x EXCEPT !.status = status, !.due = due].status = status
      BY DEF Mail
    <3>4. status # "none"
      BY DEF Statuses
    <3> QED
      BY <3>1, <3>2, <3>3, <3>4
  <2> HIDE DEF m, r
  <2>4. /\ mail' \in [Mails -> Mail]
        /\ \A n \in Mails : n # m => mail'[n] = mail[n]
        /\ \A n \in Mails : mail'[n].status = "none" <=> mail'[n].about = Nobody
    BY <1>0, <1>1, <1>4, <2>1, <2>2, <2>3, RowFacts
  <2>5. TypeOK'
    BY <1>0, <1>2, <2>4 DEF TypeOK, sourceVars, Holding
  <2>6. OneHolder'
    BY <1>0, <1>2, <2>2, <2>4, <2>5 DEF TypeOK, OneHolder, Holding, Mails
  <2>7. Numbered'
    BY <1>0, <1>1, <1>2, <1>4, <2>4 DEF TypeOK, Numbered
  <2> QED
    BY <2>5, <2>6, <2>7 DEF Inv
<1> QED
  BY <1>3, <1>4

LEMMA WorkerKeeps ==
  ASSUME Inv, NEW w \in Workers, WorkerStep(w) \/ Crash(w)
  PROVE  Inv'
<1>0. TypeOK /\ OneHolder /\ Numbered
  BY DEF Inv
<1>1. CASE Claim(w)
  BY <1>1, ClaimKeeps
<1>2. CASE Load(w)
  <2>1. CASE Idle(w)
    BY <1>0, <1>2, <2>1 DEF Load, Idle, Goto, Inv, TypeOK, OneHolder, Numbered, Holding, Mails, sourceVars
  <2>2. CASE /\ Goto(w, IF Sendable(job[w]) THEN "send" ELSE "cancel")
             /\ UNCHANGED <<job, tries>>
    BY <1>0, <1>2, <2>2 DEF Load, Goto, Inv, TypeOK, OneHolder, Numbered, Holding, sourceVars
  <2> QED
    BY <1>2, <2>1, <2>2 DEF Load
<1>3. CASE RecordCancelled(w)
  BY <1>3, RecordKeeps DEF RecordCancelled, Holding, Statuses
<1>4. CASE Send(w)
  BY <1>0, <1>4 DEF Send, Goto, Inv, TypeOK, OneHolder, Numbered, Holding, sourceVars
<1>5. CASE RecordSent(w)
  BY <1>5, RecordKeeps DEF RecordSent, Holding, Statuses
<1>6. CASE RecordFailure(w)
  BY <1>6, RecordKeeps DEF RecordFailure, Holding, Statuses
<1>7. CASE Crash(w)
  BY <1>0, <1>7, BoundsAssumption
     DEF Crash, Idle, Goto, Inv, TypeOK, OneHolder, Numbered, Holding, Mails, sourceVars
<1> QED
  BY <1>1, <1>2, <1>3, <1>4, <1>5, <1>6, <1>7 DEF WorkerStep

LEMMA InvNext ==
  ASSUME Inv, [Next]_vars
  PROVE  Inv'
<1>1. CASE Request
  BY <1>1, RequestKeeps, HolderMoves
<1>2. CASE \E w \in Workers : WorkerStep(w) \/ Crash(w)
  BY <1>2, WorkerKeeps
<1>3. CASE \E m \in Mails : BackoffEnds(m) \/ LeaseEnds(m)
  BY <1>3, TimeKeeps
<1>4. CASE UNCHANGED vars
  BY <1>4 DEF Inv, TypeOK, OneHolder, Numbered, vars, sourceVars, workerVars
<1> QED
  BY <1>1, <1>2, <1>3, <1>4 DEF Next

LEMMA InvInit ==
  ASSUME Init
  PROVE  Inv
<1>1. TypeOK
  <2>1. NoMail.status = "none" /\ NoMail.about = Nobody
    BY DEF NoMail
  <2> QED
    BY <2>1, NoMailType, BoundsAssumption DEF Init, TypeOK, Holding
<1>2. OneHolder /\ Numbered
  BY BoundsAssumption DEF Init, OneHolder, Numbered, Holding
<1> QED
  BY <1>1, <1>2 DEF Inv

LEMMA InvAlways == Spec => []Inv
BY InvInit, InvNext, PTL DEF Spec

(***************************************************************************)
(* Every variable keeps its type, a worker in the middle of a message      *)
(* knows which, and a row is about something exactly while it exists.      *)
(***************************************************************************)
THEOREM TypeCorrect == Spec => []TypeOK
BY InvAlways, PTL DEF Inv

(***************************************************************************)
(* A mail in a worker's hands is in nobody else's, and SENDING with a      *)
(* fresh lease until its Event is purged. (_claim, process_once)           *)
(***************************************************************************)
THEOREM OneHolderHolds == Spec => []OneHolder
BY InvAlways, PTL DEF Inv

LEMMA FinalStep ==
  ASSUME Inv, [Next]_vars, NEW m \in Mails, mail[m].status \in Terminal
  PROVE  /\ mail'[m].status = mail[m].status \/ mail'[m] = NoMail
         /\ m \in handed' => m \in handed
<1>0. TypeOK /\ OneHolder
  BY DEF Inv
<1>1. CASE Request
  BY <1>1, RequestKeeps DEF HeldKept
<1>2. ASSUME NEW w \in Workers, pc[w] \in Holding
      PROVE  job[w] # m
  BY <1>0, <1>2 DEF OneHolder, NoMail, Terminal
<1>3. ASSUME NEW w \in Workers, Claim(w)
      PROVE  mail'[m] = mail[m] /\ handed' = handed
  BY <1>0, <1>3 DEF Claim, Claimable, Terminal, TypeOK
<1>4. ASSUME NEW w \in Workers, Load(w) \/ Crash(w)
      PROVE  mail'[m] = mail[m] /\ handed' = handed
  BY <1>4 DEF Load, Crash
<1>5. ASSUME NEW w \in Workers, RecordCancelled(w) \/ RecordSent(w) \/ RecordFailure(w)
      PROVE  mail'[m] = mail[m] /\ handed' = handed
  BY <1>0, <1>2, <1>5 DEF RecordCancelled, RecordSent, RecordFailure, Record, Holding, TypeOK
<1>6. ASSUME NEW w \in Workers, Send(w)
      PROVE  mail'[m] = mail[m] /\ (m \in handed' => m \in handed)
  BY <1>2, <1>6 DEF Send, Holding
<1>7. CASE \E n \in Mails : BackoffEnds(n) \/ LeaseEnds(n)
  BY <1>0, <1>7 DEF BackoffEnds, LeaseEnds, Terminal, TypeOK
<1>8. CASE UNCHANGED vars
  BY <1>8 DEF vars
<1> QED
  BY <1>1, <1>3, <1>4, <1>5, <1>6, <1>7, <1>8 DEF Next, WorkerStep

(***************************************************************************)
(* A mail's outcome is final, and it is not handed to SMTP again.          *)
(***************************************************************************)
THEOREM OutcomeIsFinalHolds == Spec => OutcomeIsFinal
<1>1. ASSUME Inv, [Next]_vars
      PROVE  [\A m \in Mails : mail[m].status \in Terminal =>
                /\ mail'[m].status = mail[m].status \/ mail'[m] = NoMail
                /\ m \in handed' => m \in handed]_vars
  BY <1>1, FinalStep
<1> QED
  BY <1>1, InvAlways, PTL DEF Spec, OutcomeIsFinal

-----------------------------------------------------------------------------
\* LiveLinkIsMailed, and what it needs to be inductive: no letter is about a
\* link that is not made yet, and a worker cancels no letter of a live link.
Waiting == {"QUEUED", "SENDING"}

Mailed(i) ==
  /\ \E m \in Mails : mail[m].about = i
  /\ \A m \in Mails : mail[m].about = i => mail[m].status # "CANCELLED"
  /\ \A m, n \in Mails :
       /\ mail[m].about = i /\ mail[m].status \in Waiting
       /\ mail[n].about = i /\ mail[n].status \in Waiting
       => m = n

LinkInv ==
  /\ \A i \in Links : intent[i] = "none" => \A m \in Mails : mail[m].about # i
  /\ \A w \in Workers :
       pc[w] = "cancel" /\ mail[job[w]].about \in Links
         => intent[mail[job[w]].about] = "over"
  /\ \A i \in Links : intent[i] = "live" => Mailed(i)

LEMMA MailedIsGoal ==
  ASSUME TypeOK, LinkInv
  PROVE  LiveLinkIsMailed
<1>1. ASSUME NEW m \in Mails, NEW i \in Links, mail[m].about = i
      PROVE  mail[m].status \in Statuses
  BY <1>1, NothingAssumption DEF TypeOK, Mail, Links
<1> QED
  BY <1>1 DEF LinkInv, LiveLinkIsMailed, Mailed, Waiting

\* A link whose letters a step leaves alone.
Alone(i) == \A m \in Mails : mail[m].about = i \/ mail'[m].about = i => mail'[m] = mail[m]

LEMMA AloneMailed ==
  ASSUME NEW i \in Links, Mailed(i), Alone(i)
  PROVE  Mailed(i)'
BY DEF Mailed, Alone

\* A step that leaves the workers alone, ends no link's "over", and leaves the
\* letters of the links that it does not touch alone.
LEMMA RequestLinks ==
  ASSUME Inv, LinkInv, HeldKept,
         \A i \in Links : intent[i] = "over" => intent'[i] = "over",
         \A i \in Links : intent'[i] = "none" => intent[i] = "none" /\ Alone(i),
         \A i \in Links : intent'[i] = "live" => Mailed(i)'
  PROVE  LinkInv'
<1>1. \A i \in Links : intent'[i] = "none" => \A m \in Mails : mail'[m].about # i
  BY DEF LinkInv, Alone
<1>2. ASSUME NEW w \in Workers, pc'[w] = "cancel", mail'[job'[w]].about \in Links
      PROVE  intent'[mail'[job'[w]].about] = "over"
  <2>1. pc[w] = "cancel" /\ job'[w] = job[w] /\ job[w] \in Mails
    BY <1>2 DEF HeldKept, workerVars, Inv, TypeOK, Holding
  <2>2. mail'[job[w]] # NoMail
    BY <1>2, <2>1, NothingAssumption DEF NoMail, Links
  <2>3. job[w] <= queued
    BY DEF Inv, Numbered
  <2>4. mail[job[w]] # NoMail
    BY <2>1, <2>2, <2>3 DEF HeldKept
  <2>5. mail[job[w]].status = "SENDING" /\ ~mail[job[w]].stale
    BY <2>1, <2>4 DEF Inv, OneHolder, Holding
  <2>6. mail'[job[w]] = mail[job[w]]
    BY <2>1, <2>2, <2>5 DEF HeldKept
  <2> QED
    BY <1>2, <2>1, <2>6 DEF LinkInv
<1> QED
  BY <1>1, <1>2 DEF LinkInv

LEMMA CancelledAlone ==
  ASSUME TypeOK, NEW S, NEW i \in Links, i \notin S, mail' = Cancelled(S)
  PROVE  Alone(i)
BY DEF TypeOK, Cancelled, Alone, Mail

LEMMA EnqueueAlone ==
  ASSUME Inv, NEW mails \in [Mails -> Mail], NEW j \in Intents, Enqueue(mails, j),
         AddressOf(j) \in Addresses \cup {NoAddress},
         \A m \in Mails : mails[m].status = "none" <=> mails[m].about = Nobody,
         \A m \in Mails : m > queued => mails[m] = mail[m],
         NEW i \in Links, i # j,
         \A m \in Mails : mail[m].about = i \/ mails[m].about = i => mails[m] = mail[m]
  PROVE  Alone(i)
<1>1. /\ queued' = queued + 1 /\ queued' \in Mails
      /\ mail'[queued'].about = j
      /\ \A m \in Mails : m # queued' => mail'[m] = mails[m]
  BY EnqueueFacts DEF Inv
<1>2. mail[queued'] = NoMail
  BY <1>1 DEF Inv, TypeOK, Numbered, Mails
<1>3. mail[queued'].about # i
  BY <1>2, NothingAssumption DEF NoMail, Links
<1> QED
  BY <1>1, <1>3 DEF Alone

\* A first letter, or one more when none is under way.
LEMMA NewLetterMailed ==
  ASSUME Inv, NEW mails \in [Mails -> Mail], NEW i \in Links, Enqueue(mails, i),
         AddressOf(i) \in Addresses \cup {NoAddress},
         \A m \in Mails : mails[m].status = "none" <=> mails[m].about = Nobody,
         \A m \in Mails : mails[m].about = i =>
           mails[m].status # "CANCELLED" /\ mails[m].status \notin Waiting
  PROVE  Mailed(i)'
<1>1. /\ queued' \in Mails
      /\ mail'[queued'].about = i /\ mail'[queued'].status = "QUEUED"
      /\ \A m \in Mails : m # queued' => mail'[m] = mails[m]
  BY EnqueueFacts DEF Inv, Links, Intents
<1> QED
  BY <1>1 DEF Mailed

LEMMA UntouchedLinks ==
  ASSUME Inv, LinkInv, HeldKept,
         \A i \in Links : intent'[i] = intent[i] /\ Alone(i)
  PROVE  LinkInv'
<1>1. \A i \in Links : intent'[i] = "live" => Mailed(i)'
  BY AloneMailed DEF LinkInv
<1> QED
  BY <1>1, RequestLinks

LEMMA RequestKeepsLinks ==
  ASSUME Inv, LinkInv, Request
  PROVE  LinkInv'
<1>0. TypeOK /\ TypeOK' /\ HeldKept
  BY RequestKeeps DEF Inv
<1>a. \A m \in Mails : mail[m].status = "none" <=> mail[m].about = Nobody
  BY <1>0 DEF TypeOK
<1>b. ASSUME NEW t \in Tickets
      PROVE  t \in Intents /\ \A i \in Links : i # t /\ i \notin {t}
  BY KindsAssumption DEF Links, Intents
<1>c. ASSUME NEW i \in Intents
      PROVE  AddressOf(i) \in Addresses \cup {NoAddress}
  BY <1>0 DEF AddressOf, TypeOK
<1>d. ASSUME NEW j \in Intents, Enqueue(mail, j), NEW i \in Links, i # j
      PROVE  Alone(i)
  BY <1>0, <1>a, <1>c, <1>d, EnqueueAlone DEF TypeOK
<1>1. ASSUME NEW t \in Tickets, Register(t)
      PROVE  LinkInv'
  <2>1. \A i \in Links : intent'[i] = intent[i]
    BY <1>0, <1>1, <1>b DEF Register, TypeOK, Links, Intents
  <2>2. \A i \in Links : Alone(i)
    <3>1. CASE UNCHANGED <<address, mail, queued>>
      BY <3>1 DEF Alone
    <3>2. CASE Enqueue(mail, t)
      BY <3>2, <1>b, <1>d
    <3> QED
      BY <1>1, <3>1, <3>2 DEF Register
  <2> QED
    BY <1>0, <2>1, <2>2, UntouchedLinks
<1>2. ASSUME NEW t \in Tickets, NEW r \in Requests,
             RegisterAgain(t) \/ SendTickets(t) \/ ResendTicket(r, t)
      PROVE  LinkInv'
  <2>1. Enqueue(mail, t) /\ UNCHANGED intent
    BY <1>2 DEF RegisterAgain, SendTickets, ResendTicket
  <2> QED
    BY <1>0, <1>b, <1>d, <2>1, UntouchedLinks
<1>3. ASSUME NEW t \in Tickets, ChangeEmail(t) \/ Annul(t)
      PROVE  LinkInv'
  <2>1. mail' = Cancelled({t}) /\ \A i \in Links : intent'[i] = intent[i]
    BY <1>0, <1>3, <1>b DEF ChangeEmail, Annul, EndIntent, TypeOK, Links, Intents
  <2> QED
    BY <1>0, <1>b, <2>1, CancelledAlone, UntouchedLinks
<1>4. ASSUME NEW t \in Tickets, NEW r \in Requests, LookForTicket(r, t) \/ ResendFails(r, t)
      PROVE  LinkInv'
  BY <1>0, <1>4, UntouchedLinks DEF LookForTicket, ResendFails, Alone, sourceVars
<1>5. ASSUME NEW j \in Resets, Forgot(j)
      PROVE  LinkInv'
  <2> DEFINE used == {r \in Resets : intent[r] # "none"}
             mails == Cancelled(used)
  <2>1. /\ intent[j] = "none" /\ j \in Links /\ j \in Intents
        /\ Enqueue(mails, j)
    BY <1>5 DEF Forgot, Links, Intents
  <2>2. /\ \A i \in Links \ {j} : intent'[i] = IF i \in Resets /\ intent[i] = "live" THEN "over" ELSE intent[i]
        /\ intent'[j] = "live"
    BY <1>0, <1>5 DEF Forgot, TypeOK, Links, Intents
  <2>3. /\ mails \in [Mails -> Mail]
        /\ \A m \in Mails : mails[m].status = "none" <=> mails[m].about = Nobody
        /\ \A m \in Mails : mails[m].about = mail[m].about
        /\ \A m \in Mails : mail[m].about \notin used => mails[m] = mail[m]
        /\ \A m \in Mails : mail[m] = NoMail => mails[m] = mail[m]
    <3>1. \A m \in Mails :
            mails[m] = IF mail[m].about \in used /\ mail[m].status = "QUEUED"
                       THEN [mail[m] EXCEPT !.status = "CANCELLED"] ELSE mail[m]
      BY DEF Cancelled
    <3>2. \A m \in Mails : mail[m] = NoMail => mail[m].status # "QUEUED"
      BY DEF NoMail
    <3>3. \A m \in Mails : mail[m] \in Mail
      BY <1>0 DEF TypeOK
    <3> HIDE DEF used
    <3>4. /\ mails \in [Mails -> Mail]
          /\ \A m \in Mails : mails[m].status = "none" <=> mails[m].about = Nobody
      BY <1>0, CancelledFacts
    <3> HIDE DEF mails
    <3>5. \A m \in Mails : mails[m].about = mail[m].about
      BY <3>1, <3>3 DEF Mail
    <3> QED
      BY <3>1, <3>2, <3>4, <3>5
  <2> HIDE DEF mails
  <2>4. ASSUME NEW m \in Mails, m > queued
        PROVE  mails[m] = mail[m]
    <3>1. mail[m] = NoMail
      BY <2>4, <1>0 DEF Inv, TypeOK, Numbered, Mails
    <3> QED
      BY <2>3, <3>1
  <2>5. \A i \in Links : i # j /\ i \notin used => Alone(i)
    BY <1>a, <1>c, <2>1, <2>3, <2>4, EnqueueAlone
  <2>6. Mailed(j)'
    BY <1>c, <2>1, <2>3, NewLetterMailed DEF LinkInv
  <2>7. ASSUME NEW i \in Links, intent'[i] = "live"
        PROVE  Mailed(i)'
    <3>1. CASE i # j
      <4>1. intent[i] = "live" /\ i \notin used
        BY <2>2, <2>7, <3>1
      <4> QED
        BY <2>5, <3>1, <4>1, AloneMailed DEF LinkInv
    <3> QED
      BY <2>6, <3>1
  <2>8. ASSUME NEW i \in Links, intent'[i] = "none"
        PROVE  intent[i] = "none" /\ Alone(i)
    <3>1. i # j /\ intent[i] = "none" /\ i \notin used
      BY <2>2, <2>8
    <3> QED
      BY <2>5, <3>1
  <2>9. \A i \in Links : intent[i] = "over" => intent'[i] = "over"
    BY <2>1, <2>2
  <2> QED
    BY <1>0, <2>7, <2>8, <2>9, RequestLinks
<1>6. ASSUME NEW j \in Invitations, Invite(j) \/ ResendInvitation(j)
      PROVE  LinkInv'
  <2>1. j \in Links /\ j \in Intents /\ Enqueue(mail, j)
    BY <1>6 DEF Invite, ResendInvitation, Links, Intents
  <2>2. /\ \A i \in Links \ {j} : intent'[i] = intent[i]
        /\ intent[j] # "over" /\ intent'[j] = "live"
    BY <1>0, <1>6 DEF Invite, ResendInvitation, TypeOK, Links, Intents
  <2>3. \A i \in Links \ {j} : Alone(i)
    BY <2>1, <1>d
  <2>4. \A m \in Mails : mail[m].about = j =>
          mail[m].status # "CANCELLED" /\ mail[m].status \notin Waiting
    BY <1>6, <2>1 DEF Invite, ResendInvitation, Underway, Waiting, LinkInv, Mailed
  <2>5. Mailed(j)'
    BY <1>0, <1>a, <1>c, <2>1, <2>4, NewLetterMailed DEF TypeOK
  <2>6. \A i \in Links : intent'[i] = "live" => Mailed(i)'
    BY <2>2, <2>3, <2>5, AloneMailed DEF LinkInv
  <2> QED
    BY <1>0, <2>2, <2>3, <2>6, RequestLinks
<1>7. ASSUME NEW j \in Links, UseLink(j) \/ ExpireLink(j)
      PROVE  LinkInv'
  <2>1. intent'[j] = "over" /\ \A i \in Links \ {j} : intent'[i] = intent[i]
    BY <1>0, <1>7 DEF UseLink, ExpireLink, EndIntent, TypeOK, Links, Intents
  <2>2. \A i \in Links \ {j} : Alone(i)
    <3>1. CASE mail' = Cancelled({j})
      BY <1>0, <3>1, CancelledAlone
    <3>2. CASE mail' = mail
      BY <3>2 DEF Alone
    <3> QED
      BY <1>7, <3>1, <3>2 DEF UseLink, ExpireLink
  <2>3. \A i \in Links : intent'[i] = "live" => Mailed(i)'
    BY <2>1, <2>2, AloneMailed DEF LinkInv
  <2> QED
    BY <1>0, <2>1, <2>2, <2>3, RequestLinks
<1>8. ASSUME NEW j \in Intents, Purge(j)
      PROVE  LinkInv'
  <2>1. \A i \in Links : intent'[i] = IF i = j THEN "over" ELSE intent[i]
    BY <1>0, <1>8 DEF Purge, EndIntent, TypeOK, Links, Intents
  <2>2. \A i \in Links : i # j => Alone(i)
    BY <1>8, NothingAssumption DEF Purge, Alone, NoMail, Links
  <2>3. \A i \in Links : intent'[i] = "live" => Mailed(i)'
    BY <2>1, <2>2, AloneMailed DEF LinkInv
  <2> QED
    BY <1>0, <2>1, <2>2, <2>3, RequestLinks
<1>9. Form \in Requests
  BY DEF Requests
<1> QED
  BY <1>1, <1>2, <1>3, <1>4, <1>5, <1>6, <1>7, <1>8, <1>9 DEF Request

\* A step on one row that keeps what it is about and does not cancel it, nor
\* puts it under way: the links have what they had.
LEMMA RowLinks ==
  ASSUME Inv, LinkInv, NEW n \in Mails, UNCHANGED intent,
         \A m \in Mails : m # n => mail'[m] = mail[m],
         mail'[n].about = mail[n].about,
         mail'[n].status = "CANCELLED" =>
           mail[n].status = "CANCELLED" \/ mail[n].about \notin Links
             \/ intent[mail[n].about] = "over",
         mail'[n].status \in Waiting => mail[n].status \in Waiting,
         \A w \in Workers : pc'[w] = "cancel" =>
           \/ pc[w] = "cancel" /\ job'[w] = job[w]
           \/ /\ mail'[job'[w]] # NoMail
              /\ mail'[job'[w]].about \in Links => intent[mail'[job'[w]].about] = "over"
  PROVE  LinkInv'
<1>1. \A m \in Mails : mail'[m].about = mail[m].about
  OBVIOUS
<1>2. \A m \in Mails : mail'[m].status \in Waiting => mail[m].status \in Waiting
  OBVIOUS
<1>3. \A i \in Links : intent'[i] = "none" => \A m \in Mails : mail'[m].about # i
  BY <1>1 DEF LinkInv
<1>4. ASSUME NEW w \in Workers, pc'[w] = "cancel", mail'[job'[w]].about \in Links
      PROVE  intent'[mail'[job'[w]].about] = "over"
  <2>1. CASE pc[w] = "cancel" /\ job'[w] = job[w]
    <3>1. job[w] \in Mails
      BY <2>1 DEF Inv, TypeOK, Holding
    <3>2. mail'[job'[w]].about = mail[job[w]].about
      BY <1>1, <2>1, <3>1
    <3> QED
      BY <1>4, <2>1, <3>2 DEF LinkInv
  <2>2. CASE mail'[job'[w]].about \in Links => intent[mail'[job'[w]].about] = "over"
    BY <1>4, <2>2
  <2> QED
    BY <1>4, <2>1, <2>2
<1>5. ASSUME NEW i \in Links, intent'[i] = "live"
      PROVE  Mailed(i)'
  <2>1. Mailed(i)
    BY <1>5 DEF LinkInv
  <2>2. \A m \in Mails : mail'[m].about = i => mail'[m].status # "CANCELLED"
    BY <1>1, <1>5, <2>1 DEF Mailed
  <2> QED
    BY <1>1, <1>2, <2>1, <2>2 DEF Mailed
<1> QED
  BY <1>3, <1>4, <1>5 DEF LinkInv

\* A step that rewrites no row, and sends no worker to "cancel".
LEMMA NoRowLinks ==
  ASSUME Inv, LinkInv, UNCHANGED <<intent, mail>>,
         \A w \in Workers : pc'[w] = "cancel" => pc[w] = "cancel" /\ job'[w] = job[w]
  PROVE  LinkInv'
BY DEF LinkInv, Mailed

LEMMA RecordLinks ==
  ASSUME Inv, LinkInv, NEW w \in Workers, pc[w] \in Holding,
         NEW status \in Statuses, NEW due \in BOOLEAN, Record(w, status, due),
         status = "CANCELLED" => pc[w] = "cancel"
  PROVE  LinkInv'
<1> DEFINE m == job[w]
<1>1. m \in Mails /\ mail[m] \in Mail
  BY DEF Inv, TypeOK
<1>2. /\ UNCHANGED intent
      /\ \A v \in Workers : pc'[v] = "cancel" => pc[v] = "cancel" /\ job'[v] = job[v]
  BY DEF Record, Idle, Goto, sourceVars, Inv, TypeOK
<1>3. CASE mail[m] = NoMail
  BY <1>2, <1>3, NoRowLinks DEF Record
<1>4. CASE mail[m] # NoMail
  <2>1. mail[m].status = "SENDING"
    BY <1>4 DEF Inv, OneHolder
  <2>2. /\ \A n \in Mails : n # m => mail'[n] = mail[n]
        /\ mail'[m].about = mail[m].about /\ mail'[m].status = status
    BY <1>1, <1>4 DEF Record, Inv, TypeOK, Mail
  <2>3. pc[w] = "cancel" => mail[m].about \notin Links \/ intent[mail[m].about] = "over"
    BY DEF LinkInv
  <2> QED
    BY <1>1, <1>2, <2>1, <2>2, <2>3, RowLinks DEF Waiting
<1> QED
  BY <1>3, <1>4

LEMMA WorkerKeepsLinks ==
  ASSUME Inv, LinkInv, NEW w \in Workers, WorkerStep(w) \/ Crash(w)
  PROVE  LinkInv'
<1>0. TypeOK /\ OneHolder
  BY DEF Inv
<1>1. CASE Claim(w)
  <2>1. PICK m \in Mails :
          /\ Claimable(m)
          /\ mail' = [mail EXCEPT ![m].status = "SENDING", ![m].attempts = @ + 1,
                                  ![m].due = TRUE, ![m].stale = FALSE]
          /\ job' = [job EXCEPT ![w] = m]
    BY <1>1 DEF Claim
  <2>2. /\ \A n \in Mails : n # m => mail'[n] = mail[n]
        /\ mail'[m].about = mail[m].about /\ mail'[m].status = "SENDING"
    BY <1>0, <2>1 DEF TypeOK, Mail
  <2>3. mail[m].status \in Waiting
    BY <2>1 DEF Claimable, Waiting
  <2>4. /\ UNCHANGED intent
        /\ \A v \in Workers : pc'[v] = "cancel" => pc[v] = "cancel" /\ job'[v] = job[v]
    BY <1>0, <1>1, <2>1 DEF Claim, Goto, TypeOK, sourceVars
  <2> QED
    BY <2>2, <2>3, <2>4, RowLinks
<1>2. CASE Load(w)
  <2> DEFINE m == job[w]
  <2>1. UNCHANGED <<intent, mail>> /\ pc[w] = "claimed" /\ m \in Mails
    BY <1>0, <1>2 DEF Load, sourceVars, TypeOK, Holding
  <2>2. CASE Idle(w)
    <3>1. \A v \in Workers : pc'[v] = "cancel" => pc[v] = "cancel" /\ job'[v] = job[v]
      BY <1>0, <2>2 DEF Idle, Goto, TypeOK
    <3> QED
      BY <2>1, <3>1, NoRowLinks
  <2>3. CASE /\ mail[m] # NoMail
             /\ Goto(w, IF Sendable(m) THEN "send" ELSE "cancel")
             /\ UNCHANGED <<job, tries>>
    <3>1. ~Sendable(m) /\ mail[m].about \in Links => intent[mail[m].about] = "over"
      <4>1. mail[m].about \in Links => mail[m].about \notin Tickets
        BY KindsAssumption DEF Links
      <4>2. mail[m].about \in Links => intent[mail[m].about] \in {"live", "over"}
        BY <1>0, <2>1 DEF LinkInv, TypeOK, Links, Intents
      <4> QED
        BY <4>1, <4>2 DEF Sendable
    <3>2. \A v \in Workers : pc'[v] = "cancel" =>
            (pc[v] = "cancel" \/ (v = w /\ ~Sendable(m))) /\ job'[v] = job[v]
      BY <1>0, <2>3 DEF Goto, TypeOK
    <3> QED
      BY <2>1, <2>3, <3>1, <3>2, RowLinks
  <2> QED
    BY <1>2, <2>2, <2>3 DEF Load
<1>3. CASE RecordCancelled(w)
  BY <1>3, RecordLinks DEF RecordCancelled, Holding, Statuses
<1>4. CASE Send(w)
  <2>1. /\ UNCHANGED <<intent, mail>>
        /\ \A v \in Workers : pc'[v] = "cancel" => pc[v] = "cancel" /\ job'[v] = job[v]
    BY <1>0, <1>4 DEF Send, Goto, TypeOK, sourceVars
  <2> QED
    BY <2>1, NoRowLinks
<1>5. CASE RecordSent(w)
  BY <1>5, RecordLinks DEF RecordSent, Holding, Statuses
<1>6. CASE RecordFailure(w)
  BY <1>6, RecordLinks DEF RecordFailure, Holding, Statuses
<1>7. CASE Crash(w)
  <2>1. /\ UNCHANGED <<intent, mail>>
        /\ \A v \in Workers : pc'[v] = "cancel" => pc[v] = "cancel" /\ job'[v] = job[v]
    BY <1>0, <1>7 DEF Crash, Idle, Goto, TypeOK, sourceVars
  <2> QED
    BY <2>1, NoRowLinks
<1> QED
  BY <1>1, <1>2, <1>3, <1>4, <1>5, <1>6, <1>7 DEF WorkerStep

LEMMA TimeKeepsLinks ==
  ASSUME Inv, LinkInv, NEW m \in Mails, BackoffEnds(m) \/ LeaseEnds(m)
  PROVE  LinkInv'
<1>1. /\ \A n \in Mails : n # m => mail'[n] = mail[n]
      /\ mail'[m].about = mail[m].about /\ mail'[m].status = mail[m].status
  BY DEF BackoffEnds, LeaseEnds, Inv, TypeOK, Mail
<1>2. UNCHANGED <<intent, pc, job>>
  BY DEF BackoffEnds, LeaseEnds, sourceVars, workerVars
<1> QED
  BY <1>1, <1>2, RowLinks

(***************************************************************************)
(* A link that can still be used is in at most one letter under way, and   *)
(* none of its letters was cancelled.                                      *)
(***************************************************************************)
THEOREM LiveLinkIsMailedHolds == Spec => []LiveLinkIsMailed
<1>1. Init => LinkInv
  BY NothingAssumption DEF Init, LinkInv, NoMail, Links, Intents
<1>2. Inv /\ LinkInv /\ [Next]_vars => LinkInv'
  <2> SUFFICES ASSUME Inv, LinkInv, [Next]_vars
               PROVE  LinkInv'
    OBVIOUS
  <2>1. CASE UNCHANGED vars
    BY <2>1, NoRowLinks DEF vars, sourceVars, workerVars
  <2> QED
    BY <2>1, RequestKeepsLinks, WorkerKeepsLinks, TimeKeepsLinks DEF Next
<1>3. Inv /\ LinkInv => LiveLinkIsMailed
  BY MailedIsGoal DEF Inv
<1> QED
  BY <1>1, <1>2, <1>3, InvAlways, PTL DEF Spec
=============================================================================
