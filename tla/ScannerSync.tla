----------------------------- MODULE ScannerSync -----------------------------
(***************************************************************************)
(* One Scanner device and one Event: marks queued in IndexedDB, the flows  *)
(* of one browser tab that submit them (a recorded mark, the ten-second    *)
(* interval, a reconnect, logout), the cached bundle, the device's owner,  *)
(* the session cookie, and rejected marks handed to the administrators.    *)
(* Each step is one IndexedDB transaction or one answer of the server;     *)
(* everything between two awaits of the code is one step, and the flows    *)
(* interleave at every await.  The server is AttendanceLedger.             *)
(***************************************************************************)
EXTENDS AttendanceLedger, FiniteSets, FiniteSetsExt

CONSTANTS
  Setups,       \* what a behaviour explores: kinds of flow, the device's
                \* marks, and how many requests, sessions and pages fail
  Queued,       \* marks already queued when the behaviour begins
  NoOne,        \* no user, no registration
  Refusable,    \* marks whose time the Event's dates may exclude, or whose
                \* registration may be gone with its purged Event
  MaxBatch,     \* marks per sync request (500 in the code)
  MaxLogins,    \* bound on sessions
  MaxOpenCases  \* open handoffs the Event admits (5000 in the code)

\* Marks are client_event_ids, numbered in the order of their times.
ASSUME MarksAssumption ==
  /\ \A s \in Setups : Queued \subseteq s.marks /\ s.marks \subseteq Clients /\ s.faults \in Nat
  /\ Clients \subseteq Nat \ {0} /\ Times = Clients /\ NoTime = 0
ASSUME BoundsAssumption ==
  MaxBatch \in Nat \ {0} /\ MaxLogins \in Nat \ {0} /\ MaxOpenCases \in Nat
ASSUME NoOneAssumption == NoOne \notin Payloads \cup Regs

Users == Payloads              \* a mark's payload is the user it is submitted by

VARIABLES
  published,             \* versions at which each registration's state was published
  cases,                 \* scanner_rejected_attendance
  sessions, live, cookie, \* user of each session, unrevoked ones, the browser's
  marks, owner, cache,   \* IndexedDB: pendingAttendance, owners, the bundle
  view, csrf, operator,  \* the tab: page shown, token in memory, who is signed in
  pc,                    \* where each flow is
  who,                   \* user of the flow: of its session, or of its tap
  rest,                  \* marks a flush read and has not sent
  batch,                 \* marks of the request in flight
  auth,                  \* session the request in flight is accepted under
  todo,                  \* marks of the request not yet processed
  results,               \* [mark, status, first] of the request so far
  bundle,                \* bundle on its way to the device
  claim,                 \* rejected mark being handed off
  late,                  \* [mark, user] of abandoned requests still running
  counted,               \* marks the logout confirmation spoke of
  faults                 \* requests, sessions and pages that may yet fail

Marks == DOMAIN marks          \* the marks of this device
OtherMarks == Clients \ Marks  \* those that other devices submit
Flows == DOMAIN pc             \* the kinds of flow that run

serverVars == <<rows, regs, version, published, cases>>
sessionVars == <<sessions, live, cookie>>
deviceVars == <<marks, owner, cache>>
tabVars == <<view, csrf, operator>>
requestVars == <<rest, batch, auth, todo, results>>
flowVars == <<pc, who, requestVars, bundle, claim>>
vars == <<serverVars, sessionVars, deviceVars, tabVars, flowVars, late,
          counted, faults>>

Kinds == {"record", "interval", "reconnect", "load", "prepare", "logout",
          "handoff"}

Confirmed == {"ACCEPTED", "ALREADY_PROCESSED", "REGISTRATION_ALREADY_ATTENDED"}
Rejections == {"INVALID_REGISTRATION", "REGISTRATION_ANNULLED",
               "INVALID_TIMESTAMP", "CLIENT_EVENT_CONFLICT"}
Stored == {"PENDING", "SYNCING", "REJECTED"}
Gone == {"confirmed", "handedOff", "erased"}

NoBundle == [version |-> 0, first |-> [r \in {} |-> NoTime]]
NoClaim == [mark |-> 0, why |-> "none"]
NoCase == [why |-> "none", user |-> NoOne, status |-> "none"]
NoOwner == [user |-> NoOne, valid |-> FALSE]

Bundles == [version : Nat \ {0},
            first : UNION {[S -> Clients \cup {NoTime}] :
                             S \in SUBSET Regs}]

InStore(m) == marks[m].state \in Stored
Unresolved == {m \in Marks : InStore(m)}
Pending == {m \in Unresolved : marks[m].state # "REJECTED"}

Item(m, u) == [client |-> m, reg |-> marks[m].reg, payload |-> u, at |-> m]

PCs == {"idle", "queue", "session", "disown", "disowned", "bind", "list", "adopt", "switch", "read", "send",
        "sent", "serving", "reset", "version", "rows", "arrived", "replace",
        "confirm", "revoke", "clear", "handoff", "ack"}

TypeOK ==
  /\ rows \subseteq [item : ItemOf(Regs), duplicate : BOOLEAN]
  /\ regs \in [Regs -> Registration]
  /\ version \in Nat \ {0}
  /\ published \in [Regs -> [annulled : Nat, attended : Nat]]
  /\ cases \in [Marks -> [why : Rejections \cup {"none"},
                          user : Users \cup {NoOne},
                          status : {"none", "OPEN", "RESOLVED"}]]
  /\ sessions \in [1..MaxLogins -> Users \cup {NoOne}]
  /\ live \subseteq 1..MaxLogins
  /\ cookie \in 0..MaxLogins
  /\ marks \in [Marks -> [state : Stored \cup Gone \cup {"unused"},
                          why : Rejections \cup {"none"},
                          reg : Regs \cup {NoOne},
                          by : Users \cup {NoOne}]]
  /\ owner \in [user : Users \cup {NoOne}, valid : BOOLEAN]
  /\ cache = NoBundle \/ cache \in Bundles
  /\ view \in {"loading", "login", "events", "scanner"}
  /\ csrf \in 0..MaxLogins
  /\ operator \in Users \cup {NoOne}
  /\ pc \in [Flows -> PCs]
  /\ who \in [Flows -> Users \cup {NoOne}]
  /\ rest \in [Flows -> SUBSET Marks]
  /\ batch \in [Flows -> SUBSET Marks]
  /\ auth \in [Flows -> 0..MaxLogins]
  /\ todo \in [Flows -> SUBSET Marks]
  /\ results \in [Flows -> SUBSET [mark : Marks,
                                   status : Confirmed \cup Rejections,
                                   first : Clients \cup {NoTime}]]
  /\ \A f \in Flows : bundle[f] = NoBundle \/ bundle[f] \in Bundles
  /\ claim \in [mark : Marks \cup {0}, why : Rejections \cup {"none"}]
  /\ late \subseteq [mark : Marks, user : Users]
  /\ counted \subseteq Marks
  /\ faults \in Nat
  /\ \A f \in Flows : todo[f] \subseteq batch[f] /\ batch[f] \subseteq rest[f]

\* A device prepared by its first user, who is signed in and scanning.
Init ==
  /\ \E s \in Setups, u \in Users :
       /\ faults = s.faults
       /\ pc = [f \in s.flows |-> "idle"]
       /\ sessions = [n \in 1..MaxLogins |-> IF n = 1 THEN u ELSE NoOne]
       /\ owner = [user |-> u, valid |-> TRUE]
       /\ operator = u
       /\ \E reg \in [Queued -> Regs] :
            marks = [m \in s.marks |->
              IF m \in Queued
              THEN [state |-> "PENDING", why |-> "none", reg |-> reg[m], by |-> u]
              ELSE [state |-> "unused", why |-> "none", reg |-> NoOne, by |-> NoOne]]
  /\ LedgerInit
  /\ published = [r \in Regs |-> [annulled |-> 0, attended |-> 0]]
  /\ cases = [m \in Marks |-> NoCase]
  /\ live = {1}
  /\ cookie = 1
  /\ cache = [version |-> 1, first |-> [r \in Regs |-> NoTime]]
  /\ view = "scanner"
  /\ csrf = 1
  /\ who = [f \in Flows |-> NoOne]
  /\ rest = [f \in Flows |-> {}]
  /\ batch = [f \in Flows |-> {}]
  /\ auth = [f \in Flows |-> 0]
  /\ todo = [f \in Flows |-> {}]
  /\ results = [f \in Flows |-> {}]
  /\ bundle = [f \in Flows |-> NoBundle]
  /\ claim = NoClaim
  /\ late = {}
  /\ counted = {}

-----------------------------------------------------------------------------
\* The flow leaves its await and goes on at label.
Goto(f, label) == pc' = [pc EXCEPT ![f] = label]

\* Mutant: the batch in hand outlives its request.
ForgetRequestPartly(f) ==
  /\ rest' = [rest EXCEPT ![f] = {}]
  /\ auth' = [auth EXCEPT ![f] = 0]
  /\ todo' = [todo EXCEPT ![f] = {}]
  /\ results' = [results EXCEPT ![f] = {}]
  /\ UNCHANGED batch

\* The flow sends nothing any more.
ForgetRequest(f) ==
  /\ rest' = [rest EXCEPT ![f] = {}]
  /\ batch' = [batch EXCEPT ![f] = {}]
  /\ auth' = [auth EXCEPT ![f] = 0]
  /\ todo' = [todo EXCEPT ![f] = {}]
  /\ results' = [results EXCEPT ![f] = {}]

\* A flow that is over keeps nothing.
End(f) ==
  /\ Goto(f, "idle")
  /\ ForgetRequest(f)
  /\ who' = [who EXCEPT ![f] = NoOne]
  /\ bundle' = [bundle EXCEPT ![f] = NoBundle]

\* flushPending returns: a reconnect fetches the bundle, logout asks.
FlushDone(f) ==
  IF f \in {"reconnect", "logout"}
  THEN /\ Goto(f, IF f = "reconnect" THEN "version" ELSE "confirm")
       /\ ForgetRequest(f)
       /\ UNCHANGED <<who, bundle>>
  ELSE End(f)

\* An error thrown to the flow: logout stops flushing and asks, a page load
\* shows the login form, the others tell the operator.
Fail(f) ==
  IF f = "logout" /\ pc[f] # "revoke"
  THEN /\ Goto(f, "confirm")
       /\ ForgetRequest(f)
       /\ UNCHANGED <<who, bundle, view>>
  ELSE /\ End(f)
       /\ view' = IF f = "load" THEN "login" ELSE view

Fault == faults > 0 /\ faults' = faults - 1

SetState(S, state) ==
  marks' = [m \in Marks |-> IF m \in S THEN [marks[m] EXCEPT !.state = state]
                                       ELSE marks[m]]

SessionLive == cookie \in live

OwnerSignedIn == SessionLive /\ sessions[cookie] = owner.user

\* csrf_staff: a live session and the token of that same session.
Authentic == IF SessionLive /\ csrf = cookie THEN cookie ELSE 0

Busy == \E f \in Flows \ {"handoff"} : pc[f] # "idle"

Start(f, label, user) ==
  /\ f \in Flows
  /\ pc[f] = "idle"
  /\ Goto(f, label)
  /\ who' = [who EXCEPT ![f] = user]
  /\ UNCHANGED <<requestVars, bundle, claim>>

-----------------------------------------------------------------------------
\* What starts a flow.  Logout needs the others idle; the confirm button,
\* the interval and the online event do not look whether logout runs.
TapMark ==
  /\ view = "scanner"
  /\ Start("record", "queue", operator)
  /\ UNCHANGED <<serverVars, sessionVars, deviceVars, tabVars, late, counted, faults>>

StartFlush(f) ==
  /\ f \in {"interval", "reconnect"}
  /\ view = "scanner"
  /\ Start(f, "session", NoOne)
  /\ UNCHANGED <<serverVars, sessionVars, deviceVars, tabVars, late, counted, faults>>

\* prepareAndOpen: an Event the list shows as prepared opens at once.  The
\* list was read before the cache, which other flows may have cleared or
\* replaced since, so it may say either.
OpenEvent ==
  /\ view = "events"
  /\ ~Busy
  /\ \/ /\ view' = "scanner"
        /\ UNCHANGED <<flowVars>>
     \/ /\ Start("prepare", "session", NoOne)
        /\ UNCHANGED view
  /\ UNCHANGED <<serverVars, sessionVars, deviceVars, csrf, operator, late, counted, faults>>

\* onBack: the list of Events is loaded anew.
LeaveEvent ==
  /\ view = "scanner"
  /\ ~Busy
  /\ Start("load", "session", NoOne)
  /\ view' = "loading"
  /\ UNCHANGED <<serverVars, sessionVars, deviceVars, csrf, operator, late, counted, faults>>

\* Online with pending marks logout flushes first; otherwise it asks at once.
StartLogout ==
  /\ view \in {"events", "scanner"}
  /\ ~Busy
  /\ \E label \in (IF Pending # {} THEN {"session", "confirm"} ELSE {"confirm"}) :
       Start("logout", label, NoOne)
  /\ UNCHANGED <<serverVars, sessionVars, deviceVars, tabVars, late, counted, faults>>

Login(u) ==
  /\ view = "login"
  /\ LET s == Cardinality({t \in 1..MaxLogins : sessions[t] # NoOne}) + 1
     IN  /\ s \leq MaxLogins
         /\ sessions' = [sessions EXCEPT ![s] = u]
         /\ live' = (live \ {cookie}) \cup {s}
         /\ cookie' = s
         /\ csrf' = s
  /\ Start("load", "session", NoOne)
  /\ view' = "loading"
  /\ UNCHANGED <<serverVars, deviceVars, operator, late, counted, faults>>

\* The request's remaining items go on without anyone to hear of them.
Orphans(F) ==
  UNION {[mark : todo[f], user : {sessions[auth[f]]}] :
           f \in {g \in F : pc[g] = "serving"}}

\* The page is reloaded or the browser killed, at any point.
Reload ==
  /\ "load" \in Flows
  /\ Fault
  /\ late' = late \cup Orphans(Flows)
  /\ view' = "loading"
  /\ csrf' = 0
  /\ operator' = NoOne
  /\ pc' = [f \in Flows |-> IF f = "load" THEN "session" ELSE "idle"]
  /\ who' = [f \in Flows |-> NoOne]
  /\ rest' = [f \in Flows |-> {}]
  /\ batch' = [f \in Flows |-> {}]
  /\ auth' = [f \in Flows |-> 0]
  /\ todo' = [f \in Flows |-> {}]
  /\ results' = [f \in Flows |-> {}]
  /\ bundle' = [f \in Flows |-> NoBundle]
  /\ claim' = NoClaim
  /\ UNCHANGED <<serverVars, sessionVars, deviceVars, counted>>

-----------------------------------------------------------------------------
\* queueAttendance: the mark is durable before anything is sent.  Online it
\* is flushed at once, without asking for the session again.
QueueMark ==
  LET f == "record"
      unused == {m \in Marks : marks[m].state = "unused"}
  IN  /\ f \in Flows
      /\ pc[f] = "queue"
      /\ IF unused = {}
         THEN End(f) /\ UNCHANGED marks
         ELSE /\ \E r \in Regs :
                   marks' = [marks EXCEPT ![Min(unused)] =
                     [state |-> "PENDING", why |-> "none", reg |-> r, by |-> who[f]]]
              /\ \/ Goto(f, "read") /\ UNCHANGED <<who, requestVars, bundle>>
                 \/ End(f)
      /\ UNCHANGED <<serverVars, sessionVars, owner, cache, tabVars, claim, late,
                     counted, faults>>

\* A page load without an answer goes on offline, if the device may, or
\* shows the login form.
LoadFails ==
  /\ End("load")
  /\ \/ /\ owner.valid /\ cache # NoBundle
        /\ view' = "events"
        /\ operator' = owner.user
     \/ /\ view' = "login"
        /\ UNCHANGED operator

\* GET /auth/session; its answer refreshes the token in memory.
AskSession(f) ==
  /\ pc[f] = "session"
  /\ \/ /\ SessionLive
        /\ csrf' = cookie
        /\ who' = [who EXCEPT ![f] = sessions[cookie]]
        /\ Goto(f, "bind")
        /\ UNCHANGED <<requestVars, bundle, view, operator, faults, deviceVars>>
     \/ /\ ~SessionLive
        /\ IF f = "load"
           THEN Goto(f, "disown") /\ UNCHANGED <<who, requestVars, bundle, view>>
           ELSE Fail(f)
        /\ UNCHANGED <<csrf, operator, faults, deviceVars>>
     \/ /\ Fault
        /\ IF f = "load" THEN LoadFails ELSE Fail(f) /\ UNCHANGED operator
        /\ UNCHANGED <<csrf, deviceVars>>
  /\ UNCHANGED <<serverVars, sessionVars, claim, late, counted>>

\* revokeOfflineAccess reads the owner, and then in one transaction clears
\* the cache and keeps the owner it read, without access.
ReadDisowned(f) ==
  /\ pc[f] = "disown"
  /\ who' = [who EXCEPT ![f] = owner.user]
  /\ Goto(f, "disowned")
  /\ UNCHANGED <<serverVars, sessionVars, deviceVars, tabVars, requestVars, bundle, claim,
                 late, counted, faults>>

RevokeAccess(f) ==
  /\ pc[f] = "disowned"
  /\ cache' = NoBundle
  /\ owner' = IF who[f] = NoOne THEN owner ELSE [user |-> who[f], valid |-> FALSE]
  /\ Fail(f)
  /\ UNCHANGED <<serverVars, sessionVars, marks, csrf, operator, claim, late, counted,
                 faults>>

\* What the flow does once the device is bound to its user.
Bound(f) ==
  CASE f = "load" ->
         Goto(f, "list") /\ UNCHANGED <<who, requestVars, bundle, view, operator>>
    [] f = "prepare" ->
         Goto(f, "version") /\ UNCHANGED <<who, requestVars, bundle, view, operator>>
    [] OTHER ->
         Goto(f, "read") /\ UNCHANGED <<who, requestVars, bundle, view, operator>>

\* bindOwner up to the transaction that changes the owner.
ReadOwner(f) ==
  /\ pc[f] = "bind"
  /\ \/ /\ owner.user = who[f]
        /\ owner' = [owner EXCEPT !.valid = TRUE]
        /\ Bound(f)
     \/ /\ owner.user = NoOne
        /\ Goto(f, "adopt")
        /\ UNCHANGED <<owner, who, requestVars, bundle, view, operator>>
     \/ /\ owner.user \notin {NoOne, who[f]}
        /\ Unresolved = {}
        /\ Goto(f, "switch")
        /\ UNCHANGED <<owner, who, requestVars, bundle, view, operator>>
     \/ /\ owner.user \notin {NoOne, who[f]}
        /\ Unresolved # {}
        /\ Fail(f)
        /\ UNCHANGED <<owner, operator>>
  /\ UNCHANGED <<serverVars, sessionVars, marks, cache, csrf, claim, late, counted,
                 faults>>

\* The transaction clears the cache, and of another user the marks too.
BindOwner(f) ==
  /\ pc[f] \in {"adopt", "switch"}
  /\ owner' = [user |-> who[f], valid |-> TRUE]
  /\ cache' = NoBundle
  /\ SetState(IF pc[f] = "switch" THEN Unresolved ELSE {}, "erased")
  /\ Bound(f)
  /\ UNCHANGED <<serverVars, sessionVars, csrf, claim, late, counted, faults>>

\* GET scanner/events.
ListEvents(f) ==
  /\ pc[f] = "list"
  /\ \/ /\ SessionLive
        /\ End(f)
        /\ view' = "events"
        /\ operator' = who[f]
        /\ UNCHANGED faults
     \/ /\ ~SessionLive
        /\ Fail(f)
        /\ UNCHANGED <<operator, faults>>
     \/ Fault /\ LoadFails
  /\ UNCHANGED <<serverVars, sessionVars, deviceVars, csrf, claim, late, counted>>

-----------------------------------------------------------------------------
\* Mutant: a mark left SYNCING by a page that died is not read again.
ReadPendingFresh(f) ==
  LET fresh == {m \in Marks : marks[m].state = "PENDING"}
  IN  /\ pc[f] = "read"
      /\ IF fresh = {}
         THEN FlushDone(f)
         ELSE /\ rest' = [rest EXCEPT ![f] = fresh]
              /\ Goto(f, "send")
              /\ UNCHANGED <<who, batch, auth, todo, results, bundle>>
      /\ UNCHANGED <<serverVars, sessionVars, deviceVars, tabVars, claim, late, counted,
                     faults>>

ReadPending(f) ==
  /\ pc[f] = "read"
  /\ IF Pending = {}
     THEN FlushDone(f)
     ELSE /\ rest' = [rest EXCEPT ![f] = Pending]
          /\ Goto(f, "send")
          /\ UNCHANGED <<who, batch, auth, todo, results, bundle>>
  /\ UNCHANGED <<serverVars, sessionVars, deviceVars, tabVars, claim, late, counted,
                 faults>>

Oldest(S) ==
  {m \in S : Cardinality({n \in S : n < m}) < MaxBatch}

\* markSyncing, then the request with the cookie and token of the moment.
SendBatch(f) ==
  /\ pc[f] = "send"
  /\ SetState(Oldest(rest[f]) \cap Unresolved, "SYNCING")
  /\ batch' = [batch EXCEPT ![f] = Oldest(rest[f])]
  /\ todo' = [todo EXCEPT ![f] = Oldest(rest[f])]
  /\ auth' = [auth EXCEPT ![f] = Authentic]
  /\ Goto(f, "sent")
  /\ UNCHANGED <<serverVars, sessionVars, owner, cache, tabVars, who, rest, results,
                 bundle, claim, late, counted, faults>>

\* The request reaches the server, which checks the session.
Arrive(f) ==
  /\ pc[f] = "sent"
  /\ Goto(f, IF auth[f] \in live THEN "serving" ELSE "reset")
  /\ UNCHANGED <<serverVars, sessionVars, deviceVars, tabVars, who, requestVars, bundle,
                 claim, late, counted, faults>>

\* One item of a batch, as AttendanceServer answers it.  An annulment, a
\* change of dates or a purge may overtake the recognition of a repeat there,
\* so it may here.
Serve(i, status) ==
  \/ /\ status = "ALREADY_PROCESSED"
     /\ RecordedAs(i)
     /\ UNCHANGED <<ledgerVars, published>>
  \/ /\ status = "CLIENT_EVENT_CONFLICT"
     /\ Recorded(i.client) /\ ~RecordedAs(i)
     /\ UNCHANGED <<ledgerVars, published>>
  \/ /\ status = "INVALID_REGISTRATION"
     /\ i.client \in Refusable
     /\ UNCHANGED <<ledgerVars, published>>
  \/ /\ status = "REGISTRATION_ANNULLED"
     /\ regs[i.reg].status = "ANNULLED"
     /\ UNCHANGED <<ledgerVars, published>>
  \/ /\ status = "INVALID_TIMESTAMP"
     /\ i.client \in Refusable /\ regs[i.reg].status = "ACTIVE"
     /\ UNCHANGED <<ledgerVars, published>>
  \/ /\ status = IF regs[i.reg].first = NoTime THEN "ACCEPTED"
                   ELSE "REGISTRATION_ALREADY_ATTENDED"
     /\ Record(i)
     /\ published' = IF regs' = regs THEN published
                     ELSE [published EXCEPT ![i.reg].attended = version']

ServeItem(f) ==
  /\ pc[f] = "serving"
  /\ \E m \in todo[f], status \in Confirmed \cup Rejections :
       LET i == Item(m, sessions[auth[f]])
       IN  /\ Serve(i, status)
           /\ results' = [results EXCEPT ![f] = @ \cup
                {[mark |-> m, status |-> status,
                  first |-> IF status \in Confirmed THEN regs'[i.reg].first ELSE NoTime]}]
           /\ todo' = [todo EXCEPT ![f] = @ \ {m}]
  /\ UNCHANGED <<cases, sessionVars, deviceVars, tabVars, pc, who, rest, batch, auth,
                 bundle, claim, late, counted, faults>>

\* Mutant: a mark of an annulled registration counts as confirmed.
ResultStateAnnulled(status) ==
  IF status \in Confirmed \cup {"REGISTRATION_ANNULLED"} THEN "confirmed" ELSE "REJECTED"

ResultState(status) == IF status \in Confirmed THEN "confirmed" ELSE "REJECTED"

\* Mutant: the device trusts the time of its own mark.
FirstOfOwnMark(r) == r.mark

FirstOf(r) == r.first

\* The reply arrives: applySyncResults in one transaction.
ApplyResults(f) ==
  /\ pc[f] = "serving"
  /\ todo[f] = {}
  /\ marks' = [m \in Marks |->
       IF InStore(m) /\ \E r \in results[f] : r.mark = m
       THEN LET r == CHOOSE r \in results[f] : r.mark = m
            IN  [marks[m] EXCEPT !.state = ResultState(r.status),
                                 !.why = IF r.status \in Rejections THEN r.status ELSE @]
       ELSE marks[m]]
  /\ cache' = [cache EXCEPT !.first = [reg \in DOMAIN @ |->
       LET news == {r \in results[f] : /\ r.status \in Confirmed
                                       /\ InStore(r.mark)
                                       /\ marks[r.mark].reg = reg}
       IN  IF news = {} THEN @[reg] ELSE FirstOf(CHOOSE r \in news : TRUE)]]
  /\ IF rest[f] = batch[f]
     THEN FlushDone(f)
     ELSE /\ rest' = [rest EXCEPT ![f] = @ \ batch[f]]
          /\ batch' = [batch EXCEPT ![f] = {}]
          /\ auth' = [auth EXCEPT ![f] = 0]
          /\ results' = [results EXCEPT ![f] = {}]
          /\ Goto(f, "send")
          /\ UNCHANGED <<who, todo, bundle>>
  /\ UNCHANGED <<serverVars, sessionVars, owner, tabVars, claim, late, counted, faults>>

\* The request or its reply is lost, times out after fifteen seconds, or the
\* server fails part way; what it was doing it may still do.
Abandon(f) ==
  /\ pc[f] \in {"sent", "serving"}
  /\ Fault
  /\ late' \in {late, late \cup Orphans({f})}
  /\ Goto(f, "reset")
  /\ todo' = [todo EXCEPT ![f] = {}]
  /\ UNCHANGED <<serverVars, sessionVars, deviceVars, tabVars, who, rest, batch, auth,
                 results, bundle, claim, counted>>

\* resetPending, then the error goes up.
ResetPending(f) ==
  /\ pc[f] = "reset"
  /\ SetState(batch[f] \cap Unresolved, "PENDING")
  /\ Fail(f)
  /\ UNCHANGED <<serverVars, sessionVars, owner, cache, csrf, operator, claim, late,
                 counted, faults>>

-----------------------------------------------------------------------------
\* GET offline-bundle reads the Event row first, and its registrations in a
\* later transaction.
BundleVersion(f) ==
  /\ pc[f] = "version"
  /\ IF SessionLive
     THEN /\ bundle' = [bundle EXCEPT ![f].version = version]
          /\ Goto(f, "rows")
          /\ UNCHANGED <<who, requestVars, view>>
     ELSE Fail(f)
  /\ UNCHANGED <<serverVars, sessionVars, deviceVars, csrf, operator, claim, late,
                 counted, faults>>

Active == {r \in Regs : regs[r].status = "ACTIVE"}

BundleRows(f) ==
  /\ pc[f] = "rows"
  /\ bundle' = [bundle EXCEPT ![f].first = [r \in Active |-> regs[r].first]]
  /\ Goto(f, "arrived")
  /\ UNCHANGED <<serverVars, sessionVars, deviceVars, tabVars, who, requestVars, claim,
                 late, counted, faults>>

BundleLost(f) ==
  /\ pc[f] \in {"version", "rows", "arrived"}
  /\ Fault
  /\ Fail(f)
  /\ UNCHANGED <<serverVars, sessionVars, deviceVars, csrf, operator, claim, late,
                 counted>>

\* replaceBundle: a refresh needs the Event's summary on the device, read
\* before the transaction that swaps the whole bundle.
CheckBundle(f) ==
  /\ pc[f] = "arrived"
  /\ IF f = "prepare" \/ cache # NoBundle
     THEN Goto(f, "replace") /\ UNCHANGED <<who, requestVars, bundle, view>>
     ELSE Fail(f)
  /\ UNCHANGED <<serverVars, sessionVars, deviceVars, csrf, operator, claim, late,
                 counted, faults>>

ReplaceBundle(f) ==
  /\ pc[f] = "replace"
  /\ cache' = bundle[f]
  /\ End(f)
  /\ view' = IF f = "prepare" THEN "scanner" ELSE view
  /\ UNCHANGED <<serverVars, sessionVars, marks, owner, csrf, operator, claim, late,
                 counted, faults>>

-----------------------------------------------------------------------------
\* The operator is told how many marks would be deleted, and may refuse.
ConfirmLogout ==
  LET f == "logout"
  IN  /\ f \in Flows
      /\ pc[f] = "confirm"
      /\ \/ /\ counted' = Unresolved
            /\ Goto(f, "revoke")
            /\ UNCHANGED <<who, requestVars, bundle>>
         \/ /\ Unresolved # {}
            /\ End(f)
            /\ UNCHANGED counted
      /\ UNCHANGED <<serverVars, sessionVars, deviceVars, tabVars, claim, late, faults>>

\* Mutant: the device is cleared whatever the server said.
RevokeSessionAlways ==
  LET f == "logout"
  IN  /\ f \in Flows
      /\ pc[f] = "revoke"
      /\ \/ /\ Authentic # 0
            /\ live' = live \ {cookie}
            /\ cookie' = 0
            /\ csrf' = 0
            /\ UNCHANGED faults
         \/ Fault /\ UNCHANGED <<cookie, live, csrf>>
      /\ Goto(f, "clear")
      /\ UNCHANGED <<serverVars, sessions, deviceVars, view, operator, claim, late,
                     counted, who, requestVars, bundle>>

\* POST /auth/logout: success and 401 go on, any other error abandons the
\* logout, although a lost reply may hide a revoked session.
RevokeSession ==
  LET f == "logout"
  IN  /\ f \in Flows
      /\ pc[f] = "revoke"
      /\ \/ /\ Authentic # 0
            /\ live' = live \ {cookie}
            /\ cookie' = 0
            /\ csrf' = 0
            /\ Goto(f, "clear")
            /\ UNCHANGED <<who, requestVars, bundle, view, faults>>
         \/ /\ ~SessionLive
            /\ Goto(f, "clear")
            /\ UNCHANGED <<who, requestVars, bundle, view, faults, cookie, live, csrf>>
         \/ /\ SessionLive /\ Authentic = 0
            /\ Fail(f)
            /\ UNCHANGED <<faults, cookie, live, csrf>>
         \/ /\ Fault
            /\ live' \in {live, IF Authentic # 0 THEN live \ {cookie} ELSE live}
            /\ Fail(f)
            /\ UNCHANGED <<cookie, csrf>>
      /\ UNCHANGED <<serverVars, sessions, deviceVars, operator, claim, late, counted>>

\* clearBusinessData.
ClearDevice ==
  LET f == "logout"
  IN  /\ f \in Flows
      /\ pc[f] = "clear"
      /\ SetState(Unresolved, "erased")
      /\ cache' = NoBundle
      /\ owner' = NoOwner
      /\ view' = "login"
      /\ End(f)
      /\ UNCHANGED <<serverVars, sessionVars, csrf, operator, claim, late, counted,
                     faults>>

-----------------------------------------------------------------------------
\* handoffRejected: the operator hands over a mark as the list of rejected
\* marks shows it.  The mark is taken when the list is read (updatePending);
\* the click and the request come any time later.
StartHandoff ==
  /\ view = "scanner"
  /\ \E m \in Unresolved \ Pending :
       claim' = [mark |-> m, why |-> marks[m].why]
  /\ "handoff" \in Flows
  /\ pc["handoff"] = "idle"
  /\ Goto("handoff", "handoff")
  /\ UNCHANGED <<serverVars, sessionVars, deviceVars, tabVars, who, requestVars, bundle,
                 late, counted, faults>>

OpenCases == {m \in Marks : cases[m].status = "OPEN"}

EndHandoff == Goto("handoff", "idle") /\ claim' = NoClaim

\* Mutant: the mark is deleted as soon as it is offered.
ServeHandoffUnchecked ==
  /\ "handoff" \in Flows
  /\ pc["handoff"] = "handoff"
  /\ Goto("handoff", "ack")
  /\ UNCHANGED <<serverVars, sessionVars, deviceVars, tabVars, who, requestVars, bundle,
                 claim, late, counted, faults>>

\* handoff_rejection: stored once, and again only if it is the same.
ServeHandoff ==
  LET m == claim.mark
      case == [why |-> claim.why, user |-> sessions[cookie], status |-> "OPEN"]
      same == cases[m].why = case.why /\ cases[m].user = case.user
      refused == \/ Authentic = 0
                 \/ cases[m] # NoCase /\ ~same
                 \/ cases[m] = NoCase /\ Cardinality(OpenCases) >= MaxOpenCases
  IN  /\ "handoff" \in Flows
      /\ pc["handoff"] = "handoff"
      /\ IF refused
         THEN EndHandoff /\ UNCHANGED <<cases, faults>>
         ELSE /\ cases' = IF cases[m] = NoCase THEN [cases EXCEPT ![m] = case] ELSE cases
              /\ \/ Goto("handoff", "ack") /\ UNCHANGED <<claim, faults>>
                 \/ Fault /\ EndHandoff       \* the reply is lost
      /\ UNCHANGED <<ledgerVars, published, sessionVars, deviceVars, tabVars, who,
                     requestVars, bundle, late, counted>>

\* acknowledgeRejectedHandoff deletes only the mark that was handed over.
AckHandoff ==
  /\ "handoff" \in Flows
  /\ pc["handoff"] = "ack"
  /\ LET m == claim.mark
     IN  SetState(IF marks[m].state = "REJECTED" /\ marks[m].why = claim.why
                  THEN {m} ELSE {}, "handedOff")
  /\ EndHandoff
  /\ UNCHANGED <<serverVars, sessionVars, owner, cache, tabVars, who, requestVars, bundle,
                 late, counted, faults>>

ResolveCase(m) ==
  /\ cases[m].status = "OPEN"
  /\ cases' = [cases EXCEPT ![m].status = "RESOLVED"]
  /\ UNCHANGED <<ledgerVars, published, sessionVars, deviceVars, tabVars, flowVars, late,
                 counted, faults>>

-----------------------------------------------------------------------------
\* An abandoned request goes on with one of its items, or stops.
ServeLate(x) ==
  /\ x \in late
  /\ late' = late \ {x}
  /\ \/ \E status \in Confirmed \cup Rejections : Serve(Item(x.mark, x.user), status)
     \/ UNCHANGED <<ledgerVars, published>>
  /\ UNCHANGED <<cases, sessionVars, deviceVars, tabVars, flowVars, counted, faults>>

\* Another device's mark of a registration of the Event.
OtherDevice(m, r, u) ==
  /\ Record([client |-> m, reg |-> r, payload |-> u, at |-> m])
  /\ published' = IF regs' = regs THEN published
                  ELSE [published EXCEPT ![r].attended = version']
  /\ UNCHANGED <<cases, sessionVars, deviceVars, tabVars, flowVars, late, counted, faults>>

\* Mutant: an annulment publishes no new version.
AnnulUnpublished(r) ==
  /\ regs[r].status = "ACTIVE"
  /\ regs' = [regs EXCEPT ![r].status = "ANNULLED"]
  /\ published' = [published EXCEPT ![r].annulled = version]
  /\ UNCHANGED <<rows, version, cases, sessionVars, deviceVars, tabVars, flowVars, late,
                 counted, faults>>

Annul(r) ==
  /\ AnnulRegistration(r)
  /\ published' = [published EXCEPT ![r].annulled = version']
  /\ UNCHANGED <<cases, sessionVars, deviceVars, tabVars, flowVars, late, counted, faults>>

\* Twelve hours pass, or the account is deactivated.
SessionEnds ==
  /\ "load" \in Flows
  /\ SessionLive
  /\ Fault
  /\ live' = live \ {cookie}
  /\ UNCHANGED <<serverVars, sessions, cookie, deviceVars, tabVars, flowVars, late, counted>>

\* clearExpired, on a page load or an offline lookup after the Event.
ExpireCache ==
  /\ view \in {"loading", "scanner"}
  /\ Fault
  /\ cache # NoBundle
  /\ cache' = NoBundle
  /\ UNCHANGED <<serverVars, sessionVars, marks, owner, tabVars, flowVars, late, counted>>

-----------------------------------------------------------------------------
FlowStep(f) ==
  \/ AskSession(f) \/ ReadDisowned(f) \/ RevokeAccess(f)
  \/ ReadOwner(f) \/ BindOwner(f) \/ ListEvents(f)
  \/ ReadPending(f) \/ SendBatch(f) \/ Arrive(f) \/ ServeItem(f)
  \/ ApplyResults(f) \/ ResetPending(f)
  \/ BundleVersion(f) \/ BundleRows(f) \/ CheckBundle(f) \/ ReplaceBundle(f)

Next ==
  \/ TapMark \/ QueueMark
  \/ \E f \in Flows : StartFlush(f) \/ FlowStep(f) \/ Abandon(f) \/ BundleLost(f)
  \/ OpenEvent \/ LeaveEvent \/ Reload \/ SessionEnds \/ ExpireCache
  \/ \E u \in Users : Login(u)
  \/ StartLogout \/ ConfirmLogout \/ RevokeSession \/ ClearDevice
  \/ StartHandoff \/ ServeHandoff \/ AckHandoff
  \/ \E m \in Marks : ResolveCase(m)
  \/ \E x \in late : ServeLate(x)
  \/ \E m \in OtherMarks, r \in Regs, u \in Users : OtherDevice(m, r, u)
  \/ \E r \in Regs : Annul(r)

(***************************************************************************)
(* Awaits end, by an answer or by the fifteen-second abort; a page that    *)
(* loads shows its Events, and the operator answers the logout dialog and  *)
(* opens an Event again and again.  Marks are flushed as often while it is *)
(* open: every ten seconds, and at once when it opens, before the back     *)
(* button is enabled.                                                      *)
(***************************************************************************)
Fairness ==
  /\ \A f \in UNION {s.flows : s \in Setups} : WF_vars(f \in Flows /\ FlowStep(f))
  /\ WF_vars(QueueMark)
  /\ SF_vars(StartFlush("interval"))
  /\ WF_vars(ConfirmLogout \/ RevokeSession \/ ClearDevice)
  /\ SF_vars(OpenEvent)

Spec == Init /\ [][Next]_vars /\ Fairness

-----------------------------------------------------------------------------
StoredOnServer(m) == \E u \in Users : RecordedAs(Item(m, u))

(***************************************************************************)
(* A mark that was queued is on the device until the server has stored it  *)
(* with its registration and its time, or has a case with the reason it    *)
(* was rejected for, or a change of user deleted it; under which user the  *)
(* server stored it is what NoForeignSubmit is about. (applySyncResults,   *)
(* resetPending, acknowledgeRejectedHandoff, replaceBundle; docs/08        *)
(* section 8)                                                              *)
(***************************************************************************)
NoMarkLost ==
  \A m \in Marks :
    /\ marks[m].state = "confirmed" => StoredOnServer(m)
    /\ marks[m].state = "handedOff" => cases[m] # NoCase /\ cases[m].why = marks[m].why

(***************************************************************************)
(* Whatever order replies, bundles and marks of other devices come in, the *)
(* first attendance the device shows is the server's or still unknown.     *)
(***************************************************************************)
CacheAgreesWithServer ==
  \A r \in DOMAIN cache.first : cache.first[r] \in {NoTime, regs[r].first}

(***************************************************************************)
(* A cached bundle holds every attendance and annulment published up to    *)
(* its version, although the two are read apart. (bundle, replaceBundle)   *)
(***************************************************************************)
BundleNotAhead ==
  \A r \in Regs :
    /\ published[r].annulled \in 1..cache.version => r \notin DOMAIN cache.first
    /\ published[r].attended \in 1..cache.version /\ r \in DOMAIN cache.first =>
         cache.first[r] # NoTime

(***************************************************************************)
(* While the device's owner is signed in and no login is asked for, a      *)
(* queued mark is eventually answered: no failed request, lost reply,      *)
(* reload or abandoned logout leaves it PENDING or SYNCING for good.       *)
(* (pendingForEvent takes up SYNCING marks too, flushPending)              *)
(***************************************************************************)
EventuallySettled ==
  \A m \in UNION {s.marks : s \in Setups} :
    m \in Pending ~> m \notin Pending \/ ~OwnerSignedIn \/ view = "login"

(***************************************************************************)
(* The device forgets its owner only when the session is already dead on   *)
(* the server (e2e/critical.spec.ts:181).                                  *)
(***************************************************************************)
LogoutRevokesFirst ==
  [][owner # NoOwner /\ owner' = NoOwner => ~SessionLive]_vars

(***************************************************************************)
(* Logout deletes no mark the operator was not told of (App.tsx:205 counts *)
(* the marks that would be deleted; docs/08-offline-sync.md:106 "Remove    *)
(* only confirmed/idempotently processed items").                          *)
(***************************************************************************)
NoSilentDiscard ==
  [][\A m \in Marks : InStore(m) /\ marks'[m].state = "erased" => m \in counted]_vars

(***************************************************************************)
(* "A different account cannot submit another user's unresolved queue"     *)
(* (docs/08-offline-sync.md:94): the server stores a mark under the user   *)
(* who recorded it.                                                        *)
(***************************************************************************)
NoForeignSubmit ==
  \A m \in Marks, u \in Users : RecordedAs(Item(m, u)) => u = marks[m].by
=============================================================================
