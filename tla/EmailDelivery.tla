---------------------------- MODULE EmailDelivery ----------------------------
(***************************************************************************)
(* The email_deliveries queue: requests that queue a message in their own  *)
(* transaction, the events that end what a message is about (annulment, a  *)
(* new address, a used, superseded or expired link), and the workers that  *)
(* claim a message, look at its intent again, hand it to SMTP and record   *)
(* the outcome, each in a transaction of its own, with crashes between.    *)
(***************************************************************************)
EXTENDS Naturals, FiniteSets

CONSTANTS
  Tickets,      \* registrations
  Resets,       \* password_reset_tokens of one user
  Invitations,  \* staff_invitations
  Addresses,    \* addresses a registration may have
  Workers,      \* worker processes
  Resends,      \* requests to send a ticket again, of the staff
  Form,         \* the request of the public form that holds the Event's lock
  MaxMails,     \* bound on email_deliveries rows
  MaxAttempts,  \* EMAIL_MAX_ATTEMPTS
  MaxCrashes,   \* bound on workers that stop in mid-message
  NoAddress,    \* no registration, or none with an address
  Nobody        \* no intent: the row does not exist (any more)

ASSUME KindsAssumption ==
  /\ Tickets \cap Resets = {}
  /\ Tickets \cap Invitations = {}
  /\ Resets \cap Invitations = {}
ASSUME NothingAssumption ==
  /\ NoAddress \notin Addresses
  /\ Nobody \notin Tickets \cup Resets \cup Invitations
  /\ Form \notin Resends
ASSUME BoundsAssumption ==
  MaxMails \in Nat /\ MaxAttempts \in Nat \ {0} /\ MaxCrashes \in Nat

Intents == Tickets \cup Resets \cup Invitations
Links == Resets \cup Invitations
Mails == 1..MaxMails            \* in the order of their INSERTs
Requests == Resends \cup {Form}

VARIABLES
  intent,    \* what the source row of each intent says: none, live, over
  address,   \* registrations.email (links go to the account's address)
  mail,      \* email_deliveries
  clear,     \* requests whose snapshot has no ticket under way for a registration
  handed,    \* mails that SMTP accepted
  pc,        \* where each worker is
  job,       \* the mail each worker claimed, 0 if none
  tries,     \* attempts as read by the claim
  queued,    \* rows inserted so far; a deleted row's number is not reused
  crashes

sourceVars == <<intent, address>>
workerVars == <<pc, job, tries>>
vars == <<sourceVars, clear, mail, handed, workerVars, queued, crashes>>

Statuses == {"QUEUED", "SENDING", "SENT", "FAILED", "CANCELLED"}
Terminal == {"SENT", "FAILED", "CANCELLED"}
Holding == {"claimed", "cancel", "send", "accepted", "refused"}

NoMail == [about |-> Nobody, to |-> NoAddress, status |-> "none",
           attempts |-> 0, due |-> FALSE, stale |-> FALSE]

\* due: next_attempt_at has come.  stale: updated_at is ten minutes old.
Mail == [about : Intents \cup {Nobody}, to : Addresses \cup {NoAddress},
         status : Statuses \cup {"none"}, attempts : Nat,
         due : BOOLEAN, stale : BOOLEAN]

TypeOK ==
  /\ intent \in [Intents -> {"none", "live", "over"}]
  /\ address \in [Tickets -> Addresses \cup {NoAddress}]
  /\ mail \in [Mails -> Mail]
  /\ clear \subseteq Requests \X Tickets
  /\ handed \subseteq Mails
  /\ pc \in [Workers -> Holding \cup {"idle"}]
  /\ job \in [Workers -> Mails \cup {0}]
  /\ tries \in [Workers -> Nat]
  /\ queued \in 0..MaxMails
  /\ crashes \in 0..MaxCrashes
  /\ \A w \in Workers : pc[w] \in Holding => job[w] \in Mails
  /\ \A m \in Mails : mail[m].status = "none" <=> mail[m].about = Nobody

Init ==
  /\ intent = [i \in Intents |-> "none"]
  /\ address = [t \in Tickets |-> NoAddress]
  /\ mail = [m \in Mails |-> NoMail]
  /\ clear = {}
  /\ handed = {}
  /\ pc = [w \in Workers |-> "idle"]
  /\ job = [w \in Workers |-> 0]
  /\ tries = [w \in Workers |-> 0]
  /\ queued = 0
  /\ crashes = 0

-----------------------------------------------------------------------------
AddressOf(i) == IF i \in Tickets THEN address'[i] ELSE NoAddress

Underway(i) ==
  \E m \in Mails : mail[m].about = i /\ mail[m].status \in {"QUEUED", "SENDING"}

\* The Event of a registration is not locked by the public form.
EventFree(t) == <<Form, t>> \notin clear

\* Mutant: a mail in a worker's hands is cancelled too.
CancelledUnderway(S) ==
  [m \in Mails |-> IF mail[m].about \in S /\ mail[m].status \in {"QUEUED", "SENDING"}
                   THEN [mail[m] EXCEPT !.status = "CANCELLED"] ELSE mail[m]]

\* The mails, those QUEUED about one of the intents in S cancelled.
Cancelled(S) ==
  [m \in Mails |-> IF mail[m].about \in S /\ mail[m].status = "QUEUED"
                   THEN [mail[m] EXCEPT !.status = "CANCELLED"] ELSE mail[m]]

\* One row more, QUEUED for the intent's address, among the given mails.
Enqueue(mails, i) ==
  /\ queued < MaxMails
  /\ queued' = queued + 1
  /\ mail' = [mails EXCEPT ![queued + 1] =
       [NoMail EXCEPT !.about = i, !.to = AddressOf(i), !.status = "QUEUED", !.due = TRUE]]

EndIntent(i) == intent' = [intent EXCEPT ![i] = "over"]

-----------------------------------------------------------------------------
\* register: a new registration, its ticket queued if it has an address.
Register(t) ==
  /\ intent[t] = "none"
  /\ intent' = [intent EXCEPT ![t] = "live"]
  /\ \/ UNCHANGED <<address, mail, queued>>
     \/ /\ \E a \in Addresses : address' = [address EXCEPT ![t] = a]
        /\ Enqueue(mail, t)
  /\ UNCHANGED <<clear, handed, workerVars, crashes>>

\* Staff register a registered person again: a new address replaces the old
\* one, and another ticket is queued whatever is under way.
RegisterAgain(t) ==
  /\ intent[t] = "live"
  /\ EventFree(t)
  /\ \E a \in Addresses : address' = [address EXCEPT ![t] = a]
  /\ Enqueue(mail, t)
  /\ UNCHANGED <<clear, intent, handed, workerVars, crashes>>

\* resend and the repeated public form look for a ticket under way in the
\* snapshot that their first plain SELECT takes (nor do they send within one,
\* or five, minutes of the last ticket: not sending is no step) ...
LookForTicket(r, t) ==
  /\ intent[t] = "live"
  /\ <<r, t>> \notin clear
  /\ ~Underway(t)
  /\ r = Form => EventFree(t)
  /\ clear' = clear \cup {<<r, t>>}
  /\ UNCHANGED <<sourceVars, mail, handed, workerVars, queued, crashes>>

\* ... then wait for the registration's row lock, and queue another.
ResendTicket(r, t) ==
  /\ <<r, t>> \in clear
  /\ intent[t] = "live"
  /\ address[t] # NoAddress
  /\ clear' = clear \ {<<r, t>>}
  /\ UNCHANGED address
  /\ Enqueue(mail, t)
  /\ UNCHANGED <<intent, handed, workerVars, crashes>>

\* No registration, annulled, no address, or the connection is lost.
ResendFails(r, t) ==
  /\ <<r, t>> \in clear
  /\ clear' = clear \ {<<r, t>>}
  /\ UNCHANGED <<sourceVars, mail, handed, workerVars, queued, crashes>>

\* send_tickets: a new batch does not look for tickets under way.
SendTickets(t) ==
  /\ intent[t] = "live"
  /\ EventFree(t)
  /\ address[t] # NoAddress
  /\ UNCHANGED address
  /\ Enqueue(mail, t)
  /\ UNCHANGED <<clear, intent, handed, workerVars, crashes>>

ChangeEmail(t) ==
  /\ intent[t] = "live"
  /\ EventFree(t)
  /\ \E a \in Addresses \cup {NoAddress} : a # address[t] /\ address' = [address EXCEPT ![t] = a]
  /\ mail' = Cancelled({t})
  /\ UNCHANGED <<clear, intent, handed, workerVars, queued, crashes>>

Annul(t) ==
  /\ intent[t] = "live"
  /\ EventFree(t)
  /\ EndIntent(t)
  /\ mail' = Cancelled({t})
  /\ UNCHANGED <<clear, address, handed, workerVars, queued, crashes>>

\* purge_event deletes the row, its mails and everything it is joined with.
Purge(i) ==
  /\ i \in Tickets \cup Invitations
  /\ intent[i] # "none"
  /\ \A t \in Tickets : EventFree(t)
  /\ EndIntent(i)
  /\ mail' = [m \in Mails |-> IF mail[m].about = i THEN NoMail ELSE mail[m]]
  /\ UNCHANGED <<clear, address, handed, workerVars, queued, crashes>>

-----------------------------------------------------------------------------
\* forgot_password: the new token supersedes the user's unused ones.
Forgot(i) ==
  LET old == {r \in Resets : intent[r] = "live"}
      used == {r \in Resets : intent[r] # "none"}
  IN  /\ intent[i] = "none"
      /\ intent' = [r \in Intents |-> IF r = i THEN "live"
                                      ELSE IF r \in old THEN "over" ELSE intent[r]]
      /\ UNCHANGED address
      /\ Enqueue(Cancelled(used), i)
      /\ UNCHANGED <<clear, handed, workerVars, crashes>>

Invite(i) ==
  /\ intent[i] = "none"
  /\ intent' = [intent EXCEPT ![i] = "live"]
  /\ UNCHANGED address
  /\ Enqueue(mail, i)
  /\ UNCHANGED <<clear, handed, workerVars, crashes>>

\* Mutant: a mail in a worker's hands does not count.
ResendInvitationQueuedOnly(i) ==
  /\ intent[i] = "live"
  /\ ~\E m \in Mails : mail[m].about = i /\ mail[m].status = "QUEUED"
  /\ UNCHANGED address
  /\ Enqueue(mail, i)
  /\ UNCHANGED <<clear, intent, handed, workerVars, crashes>>

ResendInvitation(i) ==
  /\ intent[i] = "live"
  /\ ~Underway(i)
  /\ UNCHANGED address
  /\ Enqueue(mail, i)
  /\ UNCHANGED <<clear, intent, handed, workerVars, crashes>>

\* reset_password, accept_invitation: the link is used.
UseLink(i) ==
  /\ intent[i] = "live"
  /\ EndIntent(i)
  /\ mail' = Cancelled({i})
  /\ UNCHANGED <<clear, address, handed, workerVars, queued, crashes>>

\* expires_at passes; nobody touches the mail.
ExpireLink(i) ==
  /\ intent[i] = "live"
  /\ EndIntent(i)
  /\ UNCHANGED <<clear, address, mail, handed, workerVars, queued, crashes>>

-----------------------------------------------------------------------------
Goto(w, label) == pc' = [pc EXCEPT ![w] = label]

\* process_once returns, or its exception is caught by main.
Idle(w) ==
  /\ Goto(w, "idle")
  /\ job' = [job EXCEPT ![w] = 0]
  /\ tries' = [tries EXCEPT ![w] = 0]

\* Mutant: the lease is not looked at.
ClaimableAnyLease(m) ==
  \/ mail[m].status = "QUEUED" /\ mail[m].due
  \/ mail[m].status = "SENDING"

\* Mutant: what a dead worker held is not taken up again.
ClaimableQueued(m) == mail[m].status = "QUEUED" /\ mail[m].due

Claimable(m) ==
  \/ mail[m].status = "QUEUED" /\ mail[m].due
  \/ mail[m].status = "SENDING" /\ mail[m].stale

\* SELECT ... ORDER BY queued_at LIMIT 1 FOR UPDATE SKIP LOCKED and UPDATE: the
\* first row that no request has locked, which may be any.
Claim(w) ==
  /\ pc[w] = "idle"
  /\ \E m \in Mails :
       /\ Claimable(m)
       /\ mail' = [mail EXCEPT ![m].status = "SENDING", ![m].attempts = @ + 1,
                               ![m].due = TRUE, ![m].stale = FALSE]
       /\ job' = [job EXCEPT ![w] = m]
       /\ tries' = [tries EXCEPT ![w] = mail[m].attempts + 1]
  /\ Goto(w, "claimed")
  /\ UNCHANGED <<clear, sourceVars, handed, queued, crashes>>

\* intent_cancellation_reason is None.
Sendable(m) ==
  /\ intent[mail[m].about] = "live"
  /\ mail[m].about \in Tickets => address[mail[m].about] = mail[m].to

\* _load_delivery and the decision to send; a deleted row is an exception.
Load(w) ==
  LET m == job[w]
  IN  /\ pc[w] = "claimed"
      /\ \/ /\ mail[m] = NoMail
            /\ Idle(w)
         \/ /\ mail[m] # NoMail
            /\ Goto(w, IF Sendable(m) THEN "send" ELSE "cancel")
            /\ UNCHANGED <<job, tries>>
      /\ UNCHANGED <<clear, sourceVars, mail, handed, queued, crashes>>

\* Mutant: the row is written anew if it was deleted.
RecordAnew(w, status, due) ==
  /\ mail' = [mail EXCEPT ![job[w]].status = status, ![job[w]].due = due]
  /\ Idle(w)
  /\ UNCHANGED <<clear, sourceVars, handed, queued, crashes>>

\* UPDATE ... WHERE id: whatever the status is now; a deleted row stays so.
Record(w, status, due) ==
  LET m == job[w]
  IN  /\ mail' = IF mail[m] = NoMail THEN mail
                 ELSE [mail EXCEPT ![m].status = status, ![m].due = due]
      /\ Idle(w)
      /\ UNCHANGED <<clear, sourceVars, handed, queued, crashes>>

RecordCancelled(w) == pc[w] = "cancel" /\ Record(w, "CANCELLED", TRUE)

\* SMTP accepts the message and says so, accepts it and the answer is lost,
\* or refuses it.
Send(w) ==
  LET m == job[w]
  IN  /\ pc[w] = "send"
      /\ \/ Goto(w, "refused") /\ UNCHANGED handed
         \/ /\ handed' = handed \cup {m}
            /\ \E label \in {"accepted", "refused"} : Goto(w, label)
      /\ UNCHANGED <<clear, sourceVars, mail, job, tries, queued, crashes>>

RecordSent(w) == pc[w] = "accepted" /\ Record(w, "SENT", TRUE)

RecordFailure(w) ==
  /\ pc[w] = "refused"
  /\ IF tries[w] >= MaxAttempts THEN Record(w, "FAILED", TRUE)
                                ELSE Record(w, "QUEUED", FALSE)

\* The process dies, or an UPDATE of its own raises: the mail stays SENDING.
Crash(w) ==
  /\ pc[w] \in Holding
  /\ crashes < MaxCrashes
  /\ crashes' = crashes + 1
  /\ Idle(w)
  /\ UNCHANGED <<clear, sourceVars, mail, handed, queued>>

-----------------------------------------------------------------------------
\* next_attempt_at comes.
BackoffEnds(m) ==
  /\ mail[m].status = "QUEUED"
  /\ ~mail[m].due
  /\ mail' = [mail EXCEPT ![m].due = TRUE]
  /\ UNCHANGED <<clear, sourceVars, handed, workerVars, queued, crashes>>

\* Ten minutes pass over a SENDING row.  A living worker is never that long
\* over one message: every SMTP operation times out after thirty seconds.
LeaseEnds(m) ==
  /\ mail[m].status = "SENDING"
  /\ ~mail[m].stale
  /\ \A w \in Workers : job[w] # m
  /\ mail' = [mail EXCEPT ![m].stale = TRUE]
  /\ UNCHANGED <<clear, sourceVars, handed, workerVars, queued, crashes>>

WorkerStep(w) ==
  \/ Claim(w) \/ Load(w) \/ RecordCancelled(w) \/ Send(w) \/ RecordSent(w)
  \/ RecordFailure(w)

Request ==
  \/ \E t \in Tickets :
       \/ Register(t) \/ RegisterAgain(t) \/ SendTickets(t) \/ ChangeEmail(t) \/ Annul(t)
       \/ \E r \in Requests : LookForTicket(r, t) \/ ResendTicket(r, t) \/ ResendFails(r, t)
  \/ \E i \in Resets : Forgot(i)
  \/ \E i \in Invitations : Invite(i) \/ ResendInvitation(i)
  \/ \E i \in Links : UseLink(i) \/ ExpireLink(i)
  \/ \E i \in Intents : Purge(i)

Next ==
  \/ Request
  \/ \E w \in Workers : WorkerStep(w) \/ Crash(w)
  \/ \E m \in Mails : BackoffEnds(m) \/ LeaseEnds(m)

\* Workers poll for ever, and time passes.
Fairness ==
  /\ \A w \in Workers : WF_vars(WorkerStep(w))
  /\ \A m \in Mails : WF_vars(BackoffEnds(m)) /\ WF_vars(LeaseEnds(m))

Spec == Init /\ [][Next]_vars /\ Fairness

-----------------------------------------------------------------------------
(***************************************************************************)
(* A mail in a worker's hands is in nobody else's, and is SENDING with a   *)
(* fresh lease, unless its Event was purged: neither a second worker nor   *)
(* an annulment or a new link touches it, so the outcome the worker        *)
(* records by id alone overwrites nothing. (_claim, process_once)          *)
(***************************************************************************)
OneHolder ==
  \A w \in Workers : pc[w] \in Holding =>
    /\ \A v \in Workers \ {w} : job[v] # job[w]
    /\ mail[job[w]] # NoMail =>
         mail[job[w]].status = "SENDING" /\ ~mail[job[w]].stale

(***************************************************************************)
(* A mail's outcome is final: what is SENT, FAILED or CANCELLED stays so   *)
(* and is not handed to SMTP again, until its Event is purged.             *)
(***************************************************************************)
OutcomeIsFinal ==
  [][\A m \in Mails : mail[m].status \in Terminal =>
       /\ mail'[m].status = mail[m].status \/ mail'[m] = NoMail
       /\ m \in handed' => m \in handed]_vars

(***************************************************************************)
(* A link that can still be used is in at most one letter under way, and   *)
(* none of its letters was cancelled. (forgot_password, resend_invitation, *)
(* reset_password, accept_invitation, intent_cancellation_reason)          *)
(***************************************************************************)
LiveLinkIsMailed ==
  \A i \in Links : intent[i] = "live" =>
    LET letters == {m \in Mails : mail[m].about = i}
    IN  /\ \E m \in letters : mail[m].status \in Statuses \ {"CANCELLED"}
        /\ \A m, n \in letters :
             mail[m].status \in {"QUEUED", "SENDING"} /\ mail[n].status \in {"QUEUED", "SENDING"}
               => m = n
        /\ \A m \in letters : mail[m].status # "CANCELLED"

(***************************************************************************)
(* Every mail gets an outcome: crashes, refusals and lost answers of SMTP  *)
(* delay it, but leave none QUEUED or SENDING for good. (docs/11-email.md) *)
(***************************************************************************)
EveryMailSettles ==
  \A m \in Mails : mail[m].status \in {"QUEUED", "SENDING"} ~>
                     mail[m].status \notin {"QUEUED", "SENDING"}

(***************************************************************************)
(* "новая отправка также не создаётся, пока предыдущая в                   *)
(* очереди/отправляется" (docs/07-api-contracts.md:284): a resend queues   *)
(* no ticket while one is under way. (resend)                              *)
(***************************************************************************)
ResendWaits ==
  [][\A r \in Resends, t \in Tickets :
       <<r, t>> \in clear /\ <<r, t>> \notin clear' /\ queued' > queued
         => ~Underway(t)]_vars
=============================================================================
