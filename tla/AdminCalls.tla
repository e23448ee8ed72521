------------------------------ MODULE AdminCalls ------------------------------
(***************************************************************************)
(* The calls of the administrators' console (apps/web/src/admin-api.ts),   *)
(* shared by the modules of its pages.  A click of the page sends a call;  *)
(* the server serves it in one or more steps; the reply reaches the page   *)
(* later, in any order with the other replies, and the page continues with *)
(* what it captured at the click.  A call may be lost before the server    *)
(* saw it, and its answer may be lost after the server applied it: the     *)
(* client reports both as NETWORK_ERROR.                                   *)
(*                                                                         *)
(* One page is mounted at a time, and a behaviour uses some of its panels  *)
(* (Pages bounds which together).  Other administrators' requests go       *)
(* through the same server actions and their replies are nobody's here.    *)
(***************************************************************************)
EXTENDS Naturals, Sequences

CONSTANTS
  Null,        \* no object
  Pages,       \* what one behaviour is about: sets of panels of one page
  MaxCalls,    \* calls after which nobody clicks any more, for each of them
  MaxFaults,   \* lost calls and lost answers in each of them
  People       \* Persons

ASSUME CallBounds == {MaxCalls, MaxFaults} \subseteq [Pages -> Nat]

VARIABLES
  page,    \* the panels in use of the mounted page
  calls,   \* every call in the order in which it was sent
  faults,  \* losses so far
  busy,    \* the page's busy flag, shared by all its handlers
  notice   \* the page's notice

shell == <<page, calls, faults, busy, notice>>

\* A call, by the page or by another administrator, and how far it came.
CallOf(op, arg, by, phase, ok, data) ==
  [op |-> op, arg |-> arg, by |-> by, phase |-> phase, ok |-> ok, data |-> data]
Call(op, arg) == CallOf(op, arg, "page", "sent", FALSE, Null)
OthersCall(op, arg) == CallOf(op, arg, "other", "sent", FALSE, Null)
Became(i, arg, phase, ok, data) ==
  [calls EXCEPT ![i] = CallOf(calls[i].op, arg, calls[i].by, phase, ok, data)]

CallsOK(ops) ==
  /\ page \in Pages
  /\ \A i \in DOMAIN calls :
       /\ calls[i].op \in ops
       /\ calls[i].by \in {"page", "other"}
       /\ calls[i].phase \in {"sent", "open", "done", "over"}
       /\ calls[i].ok \in BOOLEAN
  /\ faults \in 0..MaxFaults[page]
  /\ busy \in BOOLEAN

CallsInit ==
  /\ page \in Pages
  /\ faults = 0

Uses(panel) == panel \in page
InUse(panels) == page \cap panels # {}

\* The mounted page waits for nothing but its first calls.
Mounted(first) ==
  /\ calls = first
  /\ busy = FALSE /\ notice = "none"

\* A click is possible while the bound on calls allows what it sends.
MayClick == Len(calls) < MaxCalls[page]

Waits(i, op) == calls[i].op = op /\ calls[i].phase = "sent"
IsOpen(i, op) == calls[i].op = op /\ calls[i].phase = "open"
Answered(i, op) == calls[i].op = op /\ calls[i].phase = "done" /\ calls[i].ok
Failed(i, op) == calls[i].op = op /\ calls[i].phase = "done" /\ ~calls[i].ok

\* The call is forgotten: nothing of it is read again.
Over(i) == Became(i, Null, "over", FALSE, Null)

\* The server's transaction began and read `data` in its snapshot.
Began(i, data) == calls' = Became(i, calls[i].arg, "open", FALSE, data)

\* The server answered; nobody waits here for another administrator's answer.
Answer(i, ok, data) ==
  calls' = IF calls[i].by = "other" THEN Over(i)
           ELSE Became(i, calls[i].arg, "done", ok, data)

Done(i, data) == Answer(i, TRUE, data)
RefusedAs(i, code) == Answer(i, FALSE, code)
Refused(i) == RefusedAs(i, "CONFLICT")

\* A click sends a call; the page takes a reply, and may go on with another call.
Ask(op, arg) ==
  /\ MayClick
  /\ calls' = Append(calls, Call(op, arg))
  /\ UNCHANGED <<page, faults>>
Take(i) == calls' = Over(i) /\ UNCHANGED <<page, faults>>
TakeAndAsk(i, op, arg) ==
  calls' = Append(Over(i), Call(op, arg)) /\ UNCHANGED <<page, faults>>

\* The request or its answer is lost: the page sees NETWORK_ERROR.
LoseCall(i) ==
  /\ faults < MaxFaults[page]
  /\ calls[i].by = "page"
  /\ \/ calls[i].phase = "sent"
     \/ calls[i].phase = "done" /\ calls[i].ok
  /\ calls' = Became(i, calls[i].arg, "done", FALSE, Null)
  /\ faults' = faults + 1
  /\ UNCHANGED <<page, busy, notice>>
=============================================================================
