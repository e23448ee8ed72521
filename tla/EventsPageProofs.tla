---------------------------- MODULE EventsPageProofs ----------------------------
(***************************************************************************)
(* First, what each way of changing the list of calls leaves alone: the    *)
(* proofs about every page of the console rest on it.  Then proofs about   *)
(* EventsPage, for any Events, hours, streams, fields and calls: covers    *)
(* are never lost, an archived Event stays as it is, the console signs     *)
(* out only of a session that has ended, and the streams of an Event lie   *)
(* within its hours and share its seats.                                   *)
(***************************************************************************)
EXTENDS EventsPage, TLAPS, FiniteSetTheorems

-----------------------------------------------------------------------------
(* The list of calls. *)
\* The list of calls is a sequence of records with the fields of a call.
CallShape(O, A, D) ==
  [op: O, arg: A, by: {"page", "other"}, phase: {"sent", "open", "done", "over"},
   ok: BOOLEAN, data: D]
CallsTyped == \E O, A, D : calls \in Seq(CallShape(O, A, D))

\* The calls that the server still works for: those it worked for, and a new one.
Sends(op, arg) ==
  \A j \in DOMAIN calls' : calls'[j].phase \in {"sent", "open"} =>
    \/ j \in DOMAIN calls /\ calls'[j] = calls[j]
    \/ calls'[j].op = op /\ calls'[j].arg = arg /\ calls'[j].phase = "sent"
SendsNone ==
  \A j \in DOMAIN calls' : calls'[j].phase \in {"sent", "open"} =>
    j \in DOMAIN calls /\ calls'[j] = calls[j]

\* No call but the i-th went on.
OnlyMoves(i) == \A j \in DOMAIN calls : j # i => j \in DOMAIN calls' /\ calls'[j] = calls[j]
NoneMoves == \A j \in DOMAIN calls : j \in DOMAIN calls' /\ calls'[j] = calls[j]

LEMMA SeqGrows ==
  ASSUME NEW S, NEW T, S \subseteq T, NEW s \in Seq(S)
  PROVE  s \in Seq(T)
OBVIOUS

LEMMA CallsLen ==
  ASSUME CallsTyped
  PROVE  Len(calls) \in Nat /\ DOMAIN calls = 1..Len(calls)
BY DEF CallsTyped

LEMMA CallIsTyped ==
  ASSUME NEW o, NEW a, NEW O, NEW A, NEW D, o \in O, a \in A, Null \in D
  PROVE  \A c \in {Call(o, a), OthersCall(o, a)} :
            c \in CallShape(O, A, D) /\ c.op = o /\ c.arg = a /\ c.phase = "sent"
<1>1. Call(o, a) \in CallShape(O, A, D) /\ OthersCall(o, a) \in CallShape(O, A, D)
  BY DEF Call, OthersCall, CallOf, CallShape
<1>2. Call(o, a).op = o /\ Call(o, a).arg = a /\ Call(o, a).phase = "sent"
  BY DEF Call, CallOf
<1>3. OthersCall(o, a).op = o /\ OthersCall(o, a).arg = a /\ OthersCall(o, a).phase = "sent"
  BY DEF OthersCall, CallOf
<1> QED
  BY <1>1, <1>2, <1>3

LEMMA FirstCall ==
  ASSUME NEW o, NEW a, calls = <<>> \/ calls = <<Call(o, a)>>
  PROVE  CallsTyped /\ \A i \in DOMAIN calls : calls[i].op = o
<1> DEFINE c == Call(o, a)
           S == CallShape({o}, {a}, {Null})
<1>1. c \in S /\ c.op = o
  BY DEF Call, CallOf, CallShape
<1> HIDE DEF c, S
<1>2. calls \in Seq(S) /\ \A i \in DOMAIN calls : calls[i].op = o
  <2>1. CASE calls = <<>>
    BY <2>1
  <2>2. CASE calls = <<c>>
    <3>1. calls \in Seq(S) /\ DOMAIN calls = 1..1 /\ calls[1] = c
      BY <1>1, <2>2
    <3>2. \A i \in 1..1 : i = 1
      OBVIOUS
    <3> QED
      BY <1>1, <3>1, <3>2
  <2> QED
    BY <2>1, <2>2 DEF c
<1> QED
  BY <1>2 DEF CallsTyped, S

LEMMA Widened ==
  ASSUME CallsTyped, NEW o, NEW a, NEW d
  PROVE  \E O, A, D : /\ o \in O /\ a \in A /\ d \in D /\ Null \in A \cap D
                      /\ calls \in Seq(CallShape(O, A, D))
<1>1. PICK O, A, D : calls \in Seq(CallShape(O, A, D))
  BY DEF CallsTyped
<1>2. CallShape(O, A, D) \subseteq CallShape(O \cup {o}, A \cup {a, Null}, D \cup {d, Null})
  BY DEF CallShape
<1>3. calls \in Seq(CallShape(O \cup {o}, A \cup {a, Null}, D \cup {d, Null}))
  BY <1>1, <1>2, SeqGrows
<1> QED
  BY <1>3

LEMMA AppendSends ==
  ASSUME CallsTyped, NEW o, NEW a,
         calls' = Append(calls, Call(o, a)) \/ calls' = Append(calls, OthersCall(o, a))
  PROVE  CallsTyped' /\ Sends(o, a) /\ NoneMoves
<1>1. PICK O, A, D : o \in O /\ a \in A /\ Null \in D /\ calls \in Seq(CallShape(O, A, D))
  BY Widened
<1>2. PICK c \in CallShape(O, A, D) :
        calls' = Append(calls, c) /\ c.op = o /\ c.arg = a /\ c.phase = "sent"
  BY <1>1, CallIsTyped
<1>3. calls' \in Seq(CallShape(O, A, D))
  BY <1>1, <1>2
<1> QED
  BY <1>1, <1>2, <1>3 DEF CallsTyped, Sends, NoneMoves

LEMMA BecameTyped ==
  ASSUME NEW O, NEW A, NEW D, calls \in Seq(CallShape(O, A, D)), NEW i \in DOMAIN calls,
         NEW b \in A, NEW p \in {"over", "open", "done"}, NEW k \in BOOLEAN, NEW d \in D
  PROVE  /\ Became(i, b, p, k, d) \in Seq(CallShape(O, A, D))
         /\ Len(Became(i, b, p, k, d)) = Len(calls)
         /\ Became(i, b, p, k, d)[i].phase = p
         /\ \A j \in DOMAIN calls : j # i => Became(i, b, p, k, d)[j] = calls[j]
<1>1. CallOf(calls[i].op, b, calls[i].by, p, k, d) \in CallShape(O, A, D)
  <2>1. calls[i] \in CallShape(O, A, D)
    OBVIOUS
  <2> QED
    BY <2>1 DEF CallOf, CallShape
<1>2. CallOf(calls[i].op, b, calls[i].by, p, k, d).phase = p
  BY DEF CallOf
<1> QED
  BY <1>1, <1>2 DEF Became

LEMMA StepMoves ==
  ASSUME CallsTyped, NEW i \in DOMAIN calls, NEW k \in BOOLEAN, NEW d,
         \/ calls' = Over(i)
         \/ Answer(i, k, d)
         \/ calls' = Became(i, calls[i].arg, "done", k, d)
  PROVE  CallsTyped' /\ SendsNone /\ OnlyMoves(i)
<1>1. PICK O, A, D : d \in D /\ Null \in A \cap D /\ calls \in Seq(CallShape(O, A, D))
  BY Widened
<1>2. calls[i] \in CallShape(O, A, D)
  BY <1>1
<1>3. PICK b \in A, p \in {"over", "open", "done"}, l \in BOOLEAN, e \in D :
        calls' = Became(i, b, p, l, e) /\ p # "open"
  BY <1>1, <1>2 DEF Over, Answer, CallShape
<1>4. /\ calls' \in Seq(CallShape(O, A, D)) /\ Len(calls') = Len(calls)
      /\ calls'[i].phase = p
      /\ \A j \in DOMAIN calls : j # i => calls'[j] = calls[j]
  BY <1>1, <1>3, BecameTyped
<1>5. p \notin {"sent", "open"} /\ DOMAIN calls' = DOMAIN calls
  BY <1>1, <1>3, <1>4
<1> QED
  BY <1>4, <1>5 DEF CallsTyped, SendsNone, OnlyMoves

\* A transaction that begins keeps its request and what it read.
LEMMA BeganOpens ==
  ASSUME CallsTyped, NEW i \in DOMAIN calls, NEW d, Began(i, d)
  PROVE  /\ CallsTyped' /\ OnlyMoves(i) /\ DOMAIN calls' = DOMAIN calls
         /\ calls'[i].op = calls[i].op /\ calls'[i].arg = calls[i].arg
         /\ calls'[i].phase = "open" /\ calls'[i].data = d
<1>1. PICK O, A, D : d \in D /\ Null \in A \cap D /\ calls \in Seq(CallShape(O, A, D))
  BY Widened
<1>2. calls[i] \in CallShape(O, A, D)
  BY <1>1
<1>3. PICK b \in A, p \in {"over", "open", "done"}, l \in BOOLEAN, e \in D :
        /\ calls' = Became(i, b, p, l, e)
        /\ b = calls[i].arg /\ p = "open" /\ e = d
  BY <1>1, <1>2 DEF Began, CallShape
<1>4. /\ calls' \in Seq(CallShape(O, A, D)) /\ Len(calls') = Len(calls)
      /\ \A j \in DOMAIN calls : j # i => calls'[j] = calls[j]
  BY <1>1, <1>3, BecameTyped
<1>5. calls'[i] = CallOf(calls[i].op, b, calls[i].by, p, l, e)
  BY <1>1, <1>3 DEF Became
<1>6. /\ calls'[i].op = calls[i].op /\ calls'[i].arg = b
      /\ calls'[i].phase = p /\ calls'[i].data = e
  BY <1>5 DEF CallOf
<1> QED
  BY <1>1, <1>3, <1>4, <1>6 DEF CallsTyped, OnlyMoves

LEMMA TakeSends ==
  ASSUME CallsTyped, NEW i \in DOMAIN calls, NEW o, NEW a,
         calls' = Append(Over(i), Call(o, a))
  PROVE  CallsTyped' /\ Sends(o, a) /\ OnlyMoves(i)
<1>1. PICK O, A, D : /\ o \in O /\ a \in A /\ Null \in A \cap D
                     /\ calls \in Seq(CallShape(O, A, D))
  BY Widened
<1>2. /\ Over(i) \in Seq(CallShape(O, A, D)) /\ Len(Over(i)) = Len(calls)
      /\ Over(i)[i].phase = "over"
      /\ \A j \in DOMAIN calls : j # i => Over(i)[j] = calls[j]
  <2>1. PICK b \in A, p \in {"over", "open", "done"}, l \in BOOLEAN, d \in D :
          Over(i) = Became(i, b, p, l, d) /\ p = "over"
    BY <1>1 DEF Over
  <2> QED
    BY <1>1, <2>1, BecameTyped
<1>3. PICK c \in CallShape(O, A, D) :
        calls' = Append(Over(i), c) /\ c.op = o /\ c.arg = a /\ c.phase = "sent"
  BY <1>1, CallIsTyped
<1>4. calls' \in Seq(CallShape(O, A, D)) /\ Len(calls') = Len(calls) + 1
  BY <1>2, <1>3
<1>5. \A j \in 1..Len(calls) : calls'[j] = Over(i)[j]
  BY <1>1, <1>2, <1>3
<1>6. calls'[Len(calls) + 1] = c
  BY <1>1, <1>2, <1>3
<1> QED
  BY <1>1, <1>2, <1>3, <1>4, <1>5, <1>6 DEF CallsTyped, Sends, OnlyMoves

-----------------------------------------------------------------------------
(* The page of the Events. *)
Tables == {"event", "stream", "field", "files", "session"}
DbOK ==
  /\ DOMAIN eventDb = Tables
  /\ DOMAIN eventDb.event = Events /\ DOMAIN eventDb.stream = Streams
  /\ DOMAIN eventDb.field = Fields
  /\ \A e \in Existing : {"status", "cover"} \subseteq DOMAIN eventDb.event[e]

\* An upload whose file no Event was given yet, and the uploads that are past that.
Fresh(i) ==
  /\ calls[i].op = "uploadCover"
  /\ \/ calls[i].phase = "sent"
     \/ calls[i].phase = "open" /\ calls[i].data.stage = "stored"
Past(n) == n \in DOMAIN calls /\ ~Fresh(n)

\* A cover has its file and one Event; no file is about to be removed that an
\* Event has or may get.
CoversOK ==
  \A e \in Existing : eventDb.event[e].cover # Null =>
    /\ eventDb.event[e].cover \in eventDb.files /\ Past(eventDb.event[e].cover)
    /\ \A f \in Existing \ {e} : eventDb.event[f].cover # eventDb.event[e].cover
Doomed(n) == \A e \in Existing : eventDb.event[e].cover # n
UploadsOK ==
  \A i \in DOMAIN calls : calls[i].phase = "open" =>
    /\ calls[i].op \in {"uploadCover", "deleteCover", "purge"}
    /\ calls[i].data.stage = "stored" => calls[i].op = "uploadCover" /\ i \in eventDb.files
    /\ calls[i].data.stage = "saved" /\ calls[i].data.old # Null =>
         Past(calls[i].data.old) /\ Doomed(calls[i].data.old)

\* The page has at most one call about its session, and waits for it.
Sess == {"session", "login", "logout"}
Asking(i) ==
  i \in DOMAIN calls /\ calls[i].op \in Sess /\ calls[i].by = "page" /\ calls[i].phase # "over"
SessionOK ==
  /\ {"user", "loading"} \subseteq DOMAIN console
  /\ \A i \in DOMAIN calls : calls[i].phase = "done" => calls[i].by = "page"
  /\ \A i \in DOMAIN calls : calls[i].op \in {"session", "login"} => calls[i].by = "page"
  /\ \A i, j \in DOMAIN calls : Asking(i) /\ Asking(j) => i = j
  /\ \A i \in DOMAIN calls : Asking(i) =>
       /\ console.loading
       /\ calls[i].op # "logout" => console.user = Null
       /\ calls[i].op = "logout" /\ calls[i].phase = "done" =>
            (calls[i].ok \/ calls[i].data = "UNAUTHENTICATED" => eventDb.session = Null)

EventInv == CallsTyped /\ DbOK /\ CoversOK /\ UploadsOK /\ SessionOK

-----------------------------------------------------------------------------
(* The calls: what leaves the covers alone, and what leaves the session. *)
CoverQuiet ==
  /\ DOMAIN calls \subseteq DOMAIN calls'
  /\ \A j \in DOMAIN calls' :
       \/ j \in DOMAIN calls /\ calls'[j] = calls[j]
       \/ j \in DOMAIN calls /\ calls'[j].phase \in {"done", "over"}
       \/ j \notin DOMAIN calls /\ calls'[j].phase = "sent"
SessQuiet ==
  \A j \in DOMAIN calls' :
    \/ j \in DOMAIN calls /\ calls'[j] = calls[j]
    \/ /\ j \in DOMAIN calls /\ calls'[j].op = calls[j].op /\ calls'[j].by = calls[j].by
       /\ \/ calls'[j].phase = "over"
          \/ /\ calls'[j].phase = "done" /\ calls[j].by = "page"
             /\ calls[j].op \in Sess =>
                  calls[j].phase # "over" /\ ~calls'[j].ok /\ calls'[j].data = Null
          \/ calls'[j].phase = "open" /\ calls[j].op \notin Sess
    \/ /\ j \notin DOMAIN calls /\ calls'[j].phase = "sent"
       /\ calls'[j].op \in Sess => calls'[j].op = "logout" /\ calls'[j].by = "other"
Quiet == CallsTyped' /\ CoverQuiet /\ SessQuiet

LEMMA Appended ==
  ASSUME CallsTyped, NEW o, NEW a, NEW c, c = Call(o, a) \/ c = OthersCall(o, a),
         calls' = Append(calls, c)
  PROVE  /\ CallsTyped' /\ Len(calls) + 1 \notin DOMAIN calls
         /\ DOMAIN calls' = DOMAIN calls \cup {Len(calls) + 1}
         /\ calls'[Len(calls) + 1] = c
         /\ \A j \in DOMAIN calls : calls'[j] = calls[j]
<1>1. PICK O, A, D : o \in O /\ a \in A /\ Null \in D /\ calls \in Seq(CallShape(O, A, D))
  BY Widened
<1>2. c \in CallShape(O, A, D)
  BY <1>1, CallIsTyped
<1>3. calls' \in Seq(CallShape(O, A, D))
  BY <1>1, <1>2
<1> QED
  BY <1>1, <1>2, <1>3 DEF CallsTyped

\* A call that moves takes what it is given; no other call moves.
Turned(i, b, p, k, d) ==
  /\ CallsTyped' /\ DOMAIN calls' = DOMAIN calls
  /\ calls'[i].op = calls[i].op /\ calls'[i].by = calls[i].by
  /\ calls'[i].phase = p /\ calls'[i].data = d /\ calls'[i].arg = b
  /\ calls'[i].ok <=> k
  /\ \A j \in DOMAIN calls : j # i => calls'[j] = calls[j]

LEMMA Turns ==
  ASSUME CallsTyped
  PROVE  \A i \in DOMAIN calls, p \in {"over", "open", "done"}, k \in BOOLEAN :
           \A b, d : b \in {Null, calls[i].arg} /\ calls' = Became(i, b, p, k, d) => Turned(i, b, p, k, d)
<1> SUFFICES ASSUME NEW i \in DOMAIN calls, NEW p \in {"over", "open", "done"}, NEW k \in BOOLEAN,
                    NEW b, NEW d, b \in {Null, calls[i].arg}, calls' = Became(i, b, p, k, d)
             PROVE  Turned(i, b, p, k, d)
  OBVIOUS
<1>1. PICK O, A, D : d \in D /\ Null \in A \cap D /\ calls \in Seq(CallShape(O, A, D))
  BY Widened
<1>2. calls[i] \in CallShape(O, A, D)
  BY <1>1
<1>3. b \in A
  BY <1>1, <1>2 DEF CallShape
<1>4. /\ calls' \in Seq(CallShape(O, A, D)) /\ Len(calls') = Len(calls)
      /\ \A j \in DOMAIN calls : j # i => calls'[j] = calls[j]
  BY <1>1, <1>3, BecameTyped
<1>5. calls'[i] = CallOf(calls[i].op, b, calls[i].by, p, k, d)
  BY <1>1 DEF Became
<1>6. /\ calls'[i].op = calls[i].op /\ calls'[i].by = calls[i].by
      /\ calls'[i].phase = p /\ calls'[i].data = d /\ calls'[i].arg = b
  BY <1>5 DEF CallOf
<1>7. calls'[i].ok <=> k
  BY <1>5 DEF CallOf
<1> QED
  BY <1>1, <1>4, <1>6, <1>7 DEF CallsTyped, Turned

LEMMA Changed ==
  ASSUME CallsTyped, NEW i \in DOMAIN calls, NEW b \in {Null, calls[i].arg},
         NEW p \in {"over", "open", "done"}, NEW k \in BOOLEAN, NEW d,
         calls' = Became(i, b, p, k, d)
  PROVE  /\ CallsTyped' /\ DOMAIN calls' = DOMAIN calls
         /\ calls'[i].op = calls[i].op /\ calls'[i].by = calls[i].by
         /\ calls'[i].phase = p /\ calls'[i].data = d /\ calls'[i].arg = b
         /\ calls'[i].ok <=> k
         /\ \A j \in DOMAIN calls : j # i => calls'[j] = calls[j]
<1>1. Turned(i, b, p, k, d)
  BY Turns
<1> QED
  BY <1>1 DEF Turned

LEMMA Asks ==
  ASSUME CallsTyped, NEW o, NEW a,
         \/ calls' = Append(calls, Call(o, a)) /\ o \notin Sess
         \/ calls' = Append(calls, OthersCall(o, a)) /\ o \notin Sess \ {"logout"}
  PROVE  Quiet
<1>1. PICK c : /\ c = Call(o, a) \/ c = OthersCall(o, a)
               /\ calls' = Append(calls, c)
               /\ c.phase = "sent" /\ c.op = o
               /\ o \in Sess => o = "logout" /\ c.by = "other"
  <2>1. CASE calls' = Append(calls, Call(o, a)) /\ o \notin Sess
    <3>1. Call(o, a).phase = "sent" /\ Call(o, a).op = o
      BY DEF Call, CallOf
    <3> QED
      BY <2>1, <3>1
  <2>2. CASE calls' = Append(calls, OthersCall(o, a)) /\ o \notin Sess \ {"logout"}
    <3>1. /\ OthersCall(o, a).phase = "sent" /\ OthersCall(o, a).op = o
          /\ OthersCall(o, a).by = "other"
      BY DEF OthersCall, CallOf
    <3> QED
      BY <2>2, <3>1
  <2> QED
    BY <2>1, <2>2
<1> QED
  BY <1>1, Appended DEF Quiet, CoverQuiet, SessQuiet

LEMMA Moves ==
  ASSUME CallsTyped, NEW i \in DOMAIN calls, NEW b \in {Null, calls[i].arg},
         NEW p \in {"over", "open", "done"}, NEW k \in BOOLEAN, NEW d,
         calls' = Became(i, b, p, k, d),
         p = "done" => /\ calls[i].by = "page"
                       /\ calls[i].op \in Sess => calls[i].phase # "over" /\ ~k /\ d = Null,
         p = "open" => calls[i].op \notin Sess
  PROVE  CallsTyped' /\ SessQuiet /\ (p # "open" => CoverQuiet)
<1>1. /\ CallsTyped' /\ DOMAIN calls' = DOMAIN calls
      /\ calls'[i].op = calls[i].op /\ calls'[i].by = calls[i].by
      /\ calls'[i].phase = p /\ calls'[i].data = d
      /\ \A j \in DOMAIN calls : j # i => calls'[j] = calls[j]
  BY Changed, SMTT(30)
<1>2. calls'[i].ok <=> k
  BY Changed
<1>3. p # "open" => CoverQuiet
  BY <1>1 DEF CoverQuiet
<1>4. SessQuiet
  BY <1>1, <1>2 DEF SessQuiet
<1> QED
  BY <1>1, <1>3, <1>4

LEMMA Takes ==
  ASSUME CallsTyped, NEW i \in DOMAIN calls, calls' = Over(i)
  PROVE  Quiet
BY Moves DEF Over, Quiet

LEMMA AnswersQuietly ==
  ASSUME CallsTyped, NEW i \in DOMAIN calls, NEW k \in BOOLEAN, NEW d, Answer(i, k, d),
         calls[i].op \notin Sess
  PROVE  Quiet
<1>1. calls[i].by \in {"page", "other"}
  <2>1. PICK O, A, D : calls \in Seq(CallShape(O, A, D))
    BY DEF CallsTyped
  <2>2. calls[i] \in CallShape(O, A, D)
    BY <2>1
  <2> QED
    BY <2>2 DEF CallShape
<1>2. CASE calls[i].by = "other"
  BY <1>2, Takes DEF Answer
<1>3. CASE calls[i].by = "page"
  BY <1>3, Moves DEF Answer, Quiet
<1> QED
  BY <1>1, <1>2, <1>3

LEMMA Loses ==
  ASSUME CallsTyped, NEW i \in DOMAIN calls, LoseCall(i)
  PROVE  Quiet
<1>1. calls[i].by = "page" /\ calls[i].phase # "over"
  BY DEF LoseCall
<1>2. calls' = Became(i, calls[i].arg, "done", FALSE, Null)
  BY DEF LoseCall
<1> QED
  BY <1>1, <1>2, Moves DEF Quiet

LEMMA OnceAppended ==
  ASSUME NEW S, NEW s \in Seq(S), NEW c \in S, NEW t, t = Append(s, c), NEW n, n = Len(s)
  PROVE  /\ t \in Seq(S) /\ DOMAIN t = 1..(n + 1) /\ Len(t) = n + 1
         /\ \A j \in 1..n : t[j] = s[j]
         /\ t[n + 1] = c
OBVIOUS

LEMMA TwiceAppended ==
  ASSUME NEW S, NEW s \in Seq(S), NEW c \in S, NEW d \in S, NEW t, t = Append(Append(s, c), d),
         NEW n, n = Len(s)
  PROVE  /\ t \in Seq(S) /\ Len(t) = n + 2
         /\ \A j \in 1..n : t[j] = s[j]
         /\ t[n + 1] = c /\ t[n + 2] = d
<1>1. PICK u : u = Append(s, c)
  OBVIOUS
<1>2. /\ u \in Seq(S) /\ Len(u) = n + 1 /\ n \in Nat /\ u[n + 1] = c
      /\ \A j \in 1..n : u[j] = s[j]
  BY <1>1
<1>3. /\ t \in Seq(S) /\ Len(t) = Len(u) + 1 /\ t[Len(u) + 1] = d
      /\ \A j \in 1..Len(u) : t[j] = u[j]
  BY <1>1, <1>2
<1>4. 1..n \subseteq 1..Len(u) /\ n + 1 \in 1..Len(u)
  BY <1>2
<1>5. \A j \in 1..n : t[j] = s[j]
  BY <1>2, <1>3, <1>4
<1>6. t[n + 1] = c /\ t[n + 2] = d /\ Len(t) = n + 2
  BY <1>2, <1>3, <1>4
<1> QED
  BY <1>3, <1>5, <1>6

LEMMA TakesAndAsks ==
  ASSUME CallsTyped, NEW i \in DOMAIN calls, NEW o, NEW q, NEW a, o \notin Sess, q \notin Sess,
         \/ calls' = Append(Over(i), Call(o, a))
         \/ calls' = Append(Append(Over(i), Call(o, a)), Call(q, a))
  PROVE  Quiet
<1>1. PICK P, A, D : /\ o \in P /\ q \in P /\ a \in A /\ Null \in A \cap D
                     /\ calls \in Seq(CallShape(P, A, D))
  <2>1. PICK O, A, D : /\ o \in O /\ a \in A /\ Null \in A \cap D
                       /\ calls \in Seq(CallShape(O, A, D))
    BY Widened
  <2>2. CallShape(O, A, D) \subseteq CallShape(O \cup {q}, A, D)
    BY DEF CallShape
  <2>3. calls \in Seq(CallShape(O \cup {q}, A, D))
    <3>1. calls \in Seq(CallShape(O, A, D))
      BY <2>1
    <3> QED
      BY <2>2, <3>1, SeqGrows, Zenon
  <2> QED
    BY <2>1, <2>3
<1>2. /\ Over(i) \in Seq(CallShape(P, A, D)) /\ Len(Over(i)) = Len(calls)
      /\ \A j \in DOMAIN calls : j # i => Over(i)[j] = calls[j]
  <2>1. PICK b \in A, p \in {"over", "open", "done"}, l \in BOOLEAN, d \in D :
          Over(i) = Became(i, b, p, l, d) /\ p = "over"
    BY <1>1 DEF Over
  <2> QED
    BY <1>1, <2>1, BecameTyped
<1>3. Over(i)[i] = CallOf(calls[i].op, Null, calls[i].by, "over", FALSE, Null)
  BY <1>1 DEF Over, Became
<1>4. /\ Over(i)[i].phase = "over" /\ Over(i)[i].op = calls[i].op
      /\ Over(i)[i].by = calls[i].by
  BY <1>3 DEF CallOf
<1>5. PICK c, d : /\ c = Call(o, a) /\ d = Call(q, a)
                  /\ {c, d} \subseteq CallShape(P, A, D)
                  /\ c.op = o /\ c.phase = "sent" /\ d.op = q /\ d.phase = "sent"
  BY <1>1, CallIsTyped
<1> DEFINE n == Len(calls)
<1>6. DOMAIN calls = 1..n /\ n \in Nat
  BY <1>1
<1>7. CASE calls' = Append(Over(i), c)
  <2>1. /\ calls' \in Seq(CallShape(P, A, D)) /\ DOMAIN calls' = 1..(n + 1)
        /\ \A j \in 1..n : calls'[j] = Over(i)[j]
        /\ calls'[n + 1] = c
    <3> HIDE DEF n
    <3>1. Over(i) \in Seq(CallShape(P, A, D)) /\ n = Len(Over(i))
      BY <1>2 DEF n
    <3>2. c \in CallShape(P, A, D)
      BY <1>5
    <3> QED
      BY <1>7, <3>1, <3>2, OnceAppended
  <2>2. \A j \in DOMAIN calls' : j \in 1..n \/ j = n + 1
    BY <1>6, <2>1
  <2>3. 1..n \subseteq DOMAIN calls' /\ n + 1 \notin 1..n
    BY <1>6, <2>1
  <2> HIDE DEF n
  <2>4. CoverQuiet
    BY <1>2, <1>4, <1>5, <1>6, <2>1, <2>2, <2>3 DEF CoverQuiet
  <2>5. SessQuiet
    BY <1>2, <1>4, <1>5, <1>6, <2>1, <2>2, <2>3, SMTT(30) DEF SessQuiet
  <2> QED
    BY <2>1, <2>4, <2>5 DEF Quiet, CallsTyped
<1>8. CASE calls' = Append(Append(Over(i), c), d)
  <2>1. /\ calls' \in Seq(CallShape(P, A, D)) /\ Len(calls') = n + 2
        /\ \A j \in 1..n : calls'[j] = Over(i)[j]
        /\ calls'[n + 1] = c /\ calls'[n + 2] = d
    <3> HIDE DEF n
    <3>1. Over(i) \in Seq(CallShape(P, A, D)) /\ n = Len(Over(i))
      BY <1>2 DEF n
    <3>2. c \in CallShape(P, A, D) /\ d \in CallShape(P, A, D)
      BY <1>5
    <3> QED
      BY <1>8, <3>1, <3>2, TwiceAppended
  <2>2. \A j \in DOMAIN calls' : j \in 1..n \/ j = n + 1 \/ j = n + 2
    BY <1>6, <2>1
  <2>3. 1..n \subseteq DOMAIN calls' /\ n + 1 \notin 1..n /\ n + 2 \notin 1..n
    BY <1>6, <2>1
  <2> HIDE DEF n
  <2>4. CoverQuiet
    BY <1>2, <1>4, <1>5, <1>6, <2>1, <2>2, <2>3 DEF CoverQuiet
  <2>5. SessQuiet
    BY <1>2, <1>4, <1>5, <1>6, <2>1, <2>2, <2>3, SMTT(30) DEF SessQuiet
  <2> QED
    BY <2>1, <2>4, <2>5 DEF Quiet, CallsTyped
<1> QED
  BY <1>5, <1>7, <1>8

-----------------------------------------------------------------------------
(* What keeps each part of the invariant. *)
CoverInv == DbOK /\ CoversOK /\ UploadsOK

\* The covers of the Events that there are were theirs before.
CoversKept ==
  \A e \in Existing' :
    \/ eventDb'.event[e].cover = Null
    \/ e \in Existing /\ eventDb'.event[e].cover = eventDb.event[e].cover

LEMMA PastStays ==
  ASSUME CoverQuiet, NEW n, Past(n)
  PROVE  Past(n)'
BY DEF CoverQuiet, Past, Fresh

LEMMA CoversKeep ==
  ASSUME CoverInv, CoverQuiet, DbOK', CoversKept, eventDb'.files = eventDb.files
  PROVE  CoverInv'
<1>1. CoversOK'
  BY PastStays DEF CoverInv, CoversOK, CoversKept
<1>2. \A n : Doomed(n) /\ n # Null => Doomed(n)'
  BY DEF Doomed, CoversKept
<1>3. \A n : Past(n) => Past(n)'
  BY PastStays
<1>4. UploadsOK'
  BY <1>2, <1>3 DEF CoverInv, UploadsOK, CoverQuiet
<1> QED
  BY <1>1, <1>4 DEF CoverInv

LEMMA CoversStay ==
  ASSUME CoverInv, CoverQuiet, UNCHANGED eventDb
  PROVE  CoverInv'
BY CoversKeep DEF CoverInv, DbOK, Existing, CoversKept

LEMMA SessionStays ==
  ASSUME SessionOK, SessQuiet, eventDb'.session = eventDb.session,
         {"user", "loading"} \subseteq DOMAIN console',
         console'.user = console.user, console'.loading = console.loading
  PROVE  SessionOK'
<1>1. \A i \in DOMAIN calls' : Asking(i)' => Asking(i)
  BY DEF SessQuiet, Asking, Sess
<1>2. \A i \in DOMAIN calls' : calls'[i].phase = "done" => calls'[i].by = "page"
  BY DEF SessQuiet, SessionOK
<1>3. \A i \in DOMAIN calls' : calls'[i].op \in {"session", "login"} => calls'[i].by = "page"
  BY DEF SessQuiet, SessionOK, Sess
<1>4. ASSUME NEW i \in DOMAIN calls', Asking(i)'
      PROVE  /\ console'.loading
             /\ calls'[i].op # "logout" => console'.user = Null
             /\ calls'[i].op = "logout" /\ calls'[i].phase = "done" =>
                  (calls'[i].ok \/ calls'[i].data = "UNAUTHENTICATED" => eventDb'.session = Null)
  <2>1. Asking(i) /\ calls'[i].op = calls[i].op
    BY <1>1, <1>4 DEF SessQuiet, Asking
  <2>2. console.loading /\ (calls[i].op # "logout" => console.user = Null)
    BY <2>1 DEF SessionOK, Asking
  <2>3. calls'[i] # calls[i] /\ calls'[i].phase = "done" =>
          ~calls'[i].ok /\ calls'[i].data # "UNAUTHENTICATED"
    BY <1>4, <2>1, EventBasics DEF SessQuiet, Asking
  <2> QED
    BY <2>1, <2>2, <2>3 DEF SessionOK, Asking
<1> QED
  BY <1>1, <1>2, <1>3, <1>4 DEF SessionOK, Asking

-----------------------------------------------------------------------------
(* The page. *)
SameUser ==
  /\ {"user", "loading"} \subseteq DOMAIN console'
  /\ console'.user = console.user /\ console'.loading = console.loading

LEMMA QuietKeeps ==
  ASSUME EventInv, Quiet, UNCHANGED eventDb, SameUser
  PROVE  EventInv'
BY CoversStay, SessionStays DEF EventInv, Quiet, CoverInv, SameUser

LEMMA NoCallIsQuiet ==
  ASSUME CallsTyped, UNCHANGED calls
  PROVE  Quiet
BY DEF Quiet, CallsTyped, CoverQuiet, SessQuiet

LEMMA SettingsQuietly ==
  ASSUME EventInv, NEW op, op \notin Sess, NEW id, NEW more, Settings(op, id, more)
  PROVE  EventInv'
BY Asks, QuietKeeps DEF Settings, Ask, EventInv, SameUser, SessionOK

LEMMA FieldQuietly ==
  ASSUME EventInv, NEW op, op \notin Sess, NEW f, FieldCall(op, f)
  PROVE  EventInv'
BY Asks, QuietKeeps DEF FieldCall, Ask, EventInv, SameUser, SessionOK

LEMMA EditsQuietly ==
  ASSUME EventInv, UNCHANGED <<shell, eventDb, console>>
  PROVE  EventInv'
BY NoCallIsQuiet, QuietKeeps DEF shell, EventInv, SameUser, SessionOK

LEMMA SessionAsked ==
  ASSUME EventInv, NEW o \in Sess, NEW a, Ask(o, a), UNCHANGED eventDb, ~console.loading,
         {"user", "loading"} \subseteq DOMAIN console',
         console'.user = console.user, console'.loading,
         o # "logout" => console.user = Null
  PROVE  EventInv'
<1> DEFINE n == Len(calls) + 1
<1>1. /\ CallsTyped' /\ n \notin DOMAIN calls /\ DOMAIN calls' = DOMAIN calls \cup {n}
      /\ calls'[n] = Call(o, a) /\ \A j \in DOMAIN calls : calls'[j] = calls[j]
  BY Appended DEF Ask, EventInv
<1>2. calls'[n].op = o /\ calls'[n].by = "page" /\ calls'[n].phase = "sent"
  BY <1>1 DEF Call, CallOf
<1> HIDE DEF n
<1>3. CoverQuiet
  BY <1>1, <1>2 DEF CoverQuiet
<1>4. \A i \in DOMAIN calls : ~Asking(i)
  BY DEF EventInv, SessionOK, Asking
<1>5. \A i \in DOMAIN calls' : Asking(i)' => i = n
  BY <1>1, <1>4 DEF Asking
<1>6. SessionOK'
  BY <1>1, <1>2, <1>5 DEF EventInv, SessionOK
<1> QED
  BY <1>1, <1>3, <1>6, CoversStay DEF EventInv, CoverInv

LEMMA EventClickKeeps ==
  ASSUME EventInv, EventClicks
  PROVE  EventInv'
<1>1. ASSUME Logout PROVE EventInv'
  <2>1. /\ console' = [console EXCEPT !.loading = TRUE, !.rows = {}, !.archive = FALSE]
        /\ Ask("logout", Null) /\ UNCHANGED eventDb /\ ~console.loading
    BY <1>1 DEF Logout
  <2>2. {"user", "loading"} \subseteq DOMAIN console
    BY DEF EventInv, SessionOK
  <2> QED
    BY <2>1, <2>2, SessionAsked DEF Sess
<1>2. ASSUME NEW role \in Roles, Login(role) PROVE EventInv'
  <2>1. /\ console' = [console EXCEPT !.loading = TRUE]
        /\ Ask("login", role) /\ UNCHANGED eventDb /\ ~console.loading /\ console.user = Null
    BY <1>2 DEF Login
  <2>2. {"user", "loading"} \subseteq DOMAIN console
    BY DEF EventInv, SessionOK
  <2> QED
    BY <2>1, <2>2, SessionAsked DEF Sess
<1>3. ASSUME ToggleArchive PROVE EventInv'
  <2>1. /\ console' = [console EXCEPT !.archive = ~@]
        /\ Ask("events", ~console.archive) /\ UNCHANGED eventDb
    BY <1>3 DEF ToggleArchive
  <2>2. SameUser
    BY <2>1 DEF EventInv, SessionOK, SameUser
  <2> QED
    BY <2>1, <2>2, Asks, QuietKeeps DEF EventInv, Ask, Sess
<1>4. ASSUME CloseEventEditor PROVE EventInv'
  <2>1. Ask("events", console.archive) /\ UNCHANGED <<eventDb, console>>
    BY <1>4 DEF CloseEventEditor
  <2> QED
    BY <2>1, Asks, QuietKeeps DEF EventInv, Ask, Sess, SameUser, SessionOK
<1>5. CASE CompleteEvent \/ DeleteCover \/ Archive \/ Purge
  BY <1>5, SettingsQuietly DEF CompleteEvent, DeleteCover, Archive, Purge, Sess
<1>6. ASSUME SaveConfig PROVE EventInv'
  <2> DEFINE a == [mount |-> editor.mount, section |-> "config", id |-> editor.event.id,
                   more |-> [config |-> ~editor.event.config, cover |-> FALSE]]
  <2>1. Ask("updateEvent", a) /\ UNCHANGED <<eventDb, console>>
    BY <1>6, Zenon DEF SaveConfig
  <2> HIDE DEF a
  <2> QED
    BY <2>1, Asks, QuietKeeps DEF EventInv, Ask, Sess, SameUser, SessionOK
<1>7. CASE CloseFieldForm
  BY <1>7, EditsQuietly DEF CloseFieldForm
<1>8. CASE SaveField
  BY <1>8, FieldQuietly DEF SaveField, Sess
<1>9. ASSUME NEW e \in Events \cup {Null}, OpenEditor(e) PROVE EventInv'
  BY <1>9, EditsQuietly DEF OpenEditor
<1>10. ASSUME NEW e \in Events, NEW st, NEW h, NEW n, NEW c, SaveEvent(e, st, h, n, c)
       PROVE  EventInv'
  BY <1>10, SettingsQuietly DEF SaveEvent, Sess
<1>11. ASSUME NEW f \in Fields, OpenFieldForm(f) PROVE EventInv'
  BY <1>11, EditsQuietly DEF OpenFieldForm
<1>12. ASSUME NEW f \in Fields, DeactivateField(f) PROVE EventInv'
  BY <1>12, FieldQuietly DEF DeactivateField, Sess
<1>13. ASSUME NEW s \in Streams \cup {Null}, EditStream(s) PROVE EventInv'
  BY <1>13, EditsQuietly DEF EditStream
<1>14. ASSUME NEW s \in Streams, NEW h \in Spans, NEW n \in SeatCounts, SaveStream(s, h, n)
       PROVE  EventInv'
  BY <1>14, Asks, QuietKeeps DEF SaveStream, EventInv, Ask, Sess, SameUser, SessionOK
<1> QED
  BY <1>1, <1>2, <1>3, <1>4, <1>5, <1>6, <1>7, <1>8, <1>9, <1>10, <1>11, <1>12, <1>13, <1>14
     DEF EventClicks

LEMMA OtherEditorKeeps ==
  ASSUME EventInv, OtherEditor
  PROVE  EventInv'
<1>1. UNCHANGED eventVars
  BY DEF OtherEditor
<1>2. \E o, a : calls' = Append(calls, OthersCall(o, a)) /\ o \notin {"session", "login"}
  <2>1. CASE calls' = Append(calls, OthersCall("logout", Null))
    BY <2>1
  <2>2. CASE \E e \in Existing : \E op \in {"archive", "deleteCover", "uploadCover"} :
               calls' = Append(calls, OthersCall(op, [id |-> e]))
    BY <2>2
  <2>3. CASE \E e \in Existing, h \in Spans, n \in SeatCounts :
               calls' = Append(calls, OthersCall("updateEvent",
                                [id |-> e, more |-> [hours |-> h, seats |-> n]]))
    BY <2>3
  <2> QED
    BY <2>1, <2>2, <2>3 DEF OtherEditor
<1>3. Quiet
  BY <1>2, Asks DEF EventInv, Sess
<1> QED
  BY <1>1, <1>3, QuietKeeps DEF eventVars, EventInv, SameUser, SessionOK

-----------------------------------------------------------------------------
(* The replies. *)
LEMMA TakesQuietly ==
  ASSUME EventInv, NEW i \in DOMAIN calls, Take(i), UNCHANGED eventDb, SameUser
  PROVE  EventInv'
BY Takes, QuietKeeps DEF Take, EventInv

LEMMA GoesOnQuietly ==
  ASSUME EventInv, NEW i \in DOMAIN calls, NEW o, NEW a, TakeAndAsk(i, o, a), o \notin Sess,
         UNCHANGED <<eventDb, console>>
  PROVE  EventInv'
BY TakesAndAsks, QuietKeeps DEF TakeAndAsk, EventInv, SameUser, SessionOK

\* Only the one call that the page waits for can end its waiting.
LEMMA SessionArrivesKeeps ==
  ASSUME EventInv, NEW i \in DOMAIN calls, SessionArrives(i)
  PROVE  /\ EventInv'
         /\ console.user # Null /\ console'.user = Null => eventDb.session = Null
<1>1. /\ UNCHANGED eventDb /\ calls' = Over(i) /\ calls[i].phase = "done"
      /\ {"user", "loading"} \subseteq DOMAIN console /\ Asking(i)
  BY DEF SessionArrives, Answered, Failed, Take, EventInv, SessionOK, Asking, Sess
<1>2. /\ {"user", "loading"} \subseteq DOMAIN console'
      /\ console'.user = IF calls[i].ok THEN calls[i].data
                         ELSE IF calls[i].op = "logout" /\ calls[i].data = "UNAUTHENTICATED"
                         THEN Null ELSE console.user
  BY <1>1 DEF SessionArrives
<1>3. Quiet
  BY <1>1, Takes DEF EventInv
<1>4. DOMAIN calls' = DOMAIN calls /\ calls'[i].phase = "over"
  BY <1>1, Changed DEF Over, EventInv
<1>5. \A j \in DOMAIN calls' : Asking(j)' => Asking(j)
  BY <1>3 DEF Quiet, SessQuiet, Asking, Sess
<1>6. \A j \in DOMAIN calls' : ~Asking(j)'
  BY <1>1, <1>4, <1>5 DEF EventInv, SessionOK, Asking
<1>7. \A j \in DOMAIN calls' :
        /\ calls'[j].phase = "done" => calls'[j].by = "page"
        /\ calls'[j].op \in {"session", "login"} => calls'[j].by = "page"
  BY <1>3 DEF Quiet, SessQuiet, EventInv, SessionOK, Sess
<1>8. SessionOK'
  BY <1>2, <1>6, <1>7 DEF SessionOK
<1>9. EventInv'
  BY <1>1, <1>3, <1>8, CoversStay DEF EventInv, CoverInv, Quiet
<1>10. console.user # Null /\ console'.user = Null => eventDb.session = Null
  BY <1>1, <1>2 DEF EventInv, SessionOK, Asking
<1> QED
  BY <1>9, <1>10

LEMMA EventReceiveKeeps ==
  ASSUME EventInv, NEW i \in DOMAIN calls, EventReceives(i)
  PROVE  EventInv'
<1> USE DEF EventReceives
<1>1. {"user", "loading"} \subseteq DOMAIN console
  BY DEF EventInv, SessionOK
<1>2. CASE ShowEvents(i)
  <2>1. SameUser
    BY <1>1, <1>2 DEF ShowEvents, SameUser
  <2> QED
    BY <1>2, <2>1, TakesQuietly DEF ShowEvents
<1>3. CASE EventSaved(i)
  <2>1. SameUser /\ UNCHANGED <<eventDb, console>>
    BY <1>1, <1>3 DEF EventSaved, SameUser
  <2>2. CASE Take(i)
    BY <2>1, <2>2, TakesQuietly
  <2>3. CASE TakeAndAsk(i, "uploadCover", calls[i].arg)
    BY <2>1, <2>3, GoesOnQuietly DEF Sess
  <2> QED
    BY <1>3, <2>2, <2>3 DEF EventSaved
<1>4. CASE Purged(i)
  BY <1>4, GoesOnQuietly DEF Purged, Sess
<1>5. CASE FieldChanged(i)
  BY <1>5, GoesOnQuietly DEF FieldChanged, eventVars, Sess
<1>6. CASE StreamSaved(i)
  <2>1. Quiet
    BY <1>6, TakesAndAsks DEF StreamSaved, EventInv, Sess
  <2> QED
    BY <1>1, <1>6, <2>1, QuietKeeps DEF StreamSaved, SameUser
<1>7. CASE SettingsFail(i) \/ ShowFields(i) \/ ShowStreams(i) \/ StreamsFail(i)
  <2>1. Take(i) /\ UNCHANGED <<eventDb, console>>
    BY <1>7 DEF SettingsFail, ShowFields, ShowStreams, StreamsFail
  <2> QED
    BY <1>1, <2>1, TakesQuietly DEF SameUser
<1> QED
  BY <1>2, <1>3, <1>4, <1>5, <1>6, <1>7, SessionArrivesKeeps

-----------------------------------------------------------------------------
(* The server. *)
ArchivedKept ==
  \A e \in Existing :
    Archived(e) /\ eventDb'.event[e] # Null =>
      /\ eventDb'.event[e] = eventDb.event[e]
      /\ StreamsOf(e)' = StreamsOf(e) /\ FieldsOf(e)' = FieldsOf(e)
      /\ \A s \in StreamsOf(e) : eventDb'.stream[s] = eventDb.stream[s]
      /\ \A f \in FieldsOf(e) : eventDb'.field[f] = eventDb.field[f]

LEMMA NothingChanges ==
  ASSUME UNCHANGED eventDb
  PROVE  ArchivedKept
BY DEF ArchivedKept, StreamsOf, FieldsOf

LEMMA AnswerMoves ==
  ASSUME CallsTyped, NEW i \in DOMAIN calls, NEW k \in BOOLEAN, NEW d, Answer(i, k, d)
  PROVE  /\ CallsTyped' /\ CoverQuiet /\ DOMAIN calls' = DOMAIN calls
         /\ calls'[i].op = calls[i].op /\ calls'[i].by = calls[i].by
         /\ calls'[i].phase = "over" \/ (calls'[i].phase = "done" /\ calls[i].by = "page")
         /\ \A j \in DOMAIN calls : j # i => calls'[j] = calls[j]
<1>1. PICK b \in {Null, calls[i].arg}, p \in {"over", "done"}, l \in BOOLEAN :
        /\ \E e : calls' = Became(i, b, p, l, e)
        /\ p = "done" => calls[i].by # "other"
  BY DEF Answer, Over
<1>2. calls[i].by \in {"page", "other"}
  <2>1. PICK O, A, D : calls \in Seq(CallShape(O, A, D))
    BY DEF CallsTyped
  <2>2. calls[i] \in CallShape(O, A, D)
    BY <2>1
  <2> QED
    BY <2>2 DEF CallShape
<1>3. /\ CallsTyped' /\ DOMAIN calls' = DOMAIN calls
      /\ calls'[i].op = calls[i].op /\ calls'[i].by = calls[i].by
      /\ calls'[i].phase = p
      /\ \A j \in DOMAIN calls : j # i => calls'[j] = calls[j]
  <2>1. PICK e : calls' = Became(i, b, p, l, e)
    BY <1>1
  <2>2. p \in {"over", "open", "done"}
    BY <1>1
  <2> QED
    BY <2>1, <2>2, Changed
<1>4. CoverQuiet
  BY <1>1, <1>3 DEF CoverQuiet
<1> QED
  BY <1>1, <1>2, <1>3, <1>4

LEMMA AnswersWell ==
  ASSUME EventInv, NEW i \in DOMAIN calls, calls[i].op \notin Sess,
         NEW d, Done(i, d) \/ Refused(i)
  PROVE  Quiet
<1>1. PICK k \in BOOLEAN : \E e : Answer(i, k, e)
  BY DEF Done, Refused, RefusedAs
<1> QED
  BY <1>1, AnswersQuietly DEF EventInv

LEMMA SessionServed ==
  ASSUME EventInv, NEW i \in DOMAIN calls, ServeSession(i)
  PROVE  EventInv' /\ ArchivedKept
<1>1. PICK k \in BOOLEAN : \E e : Answer(i, k, e)
  BY DEF ServeSession, Done, Refused, RefusedAs
<1>2. /\ CallsTyped' /\ CoverQuiet /\ DOMAIN calls' = DOMAIN calls
      /\ calls'[i].op = calls[i].op /\ calls'[i].by = calls[i].by
      /\ calls'[i].phase = "over" \/ (calls'[i].phase = "done" /\ calls[i].by = "page")
      /\ \A j \in DOMAIN calls : j # i => calls'[j] = calls[j]
  BY <1>1, AnswerMoves DEF EventInv
<1>3. DOMAIN eventDb = Tables
  BY DEF EventInv, DbOK
<1>4. /\ DOMAIN eventDb' = Tables
      /\ eventDb'.event = eventDb.event /\ eventDb'.stream = eventDb.stream
      /\ eventDb'.field = eventDb.field /\ eventDb'.files = eventDb.files
      /\ calls[i].op = "logout" => eventDb'.session = Null
      /\ calls[i].op = "session" => eventDb'.session = eventDb.session
      /\ calls[i].op \in Sess /\ calls[i].phase = "sent"
      /\ UNCHANGED console
  BY <1>3 DEF ServeSession, Tables, Waits, Sess
<1>5. CoverInv'
  <2>1. DbOK' /\ CoversKept
    BY <1>4 DEF EventInv, DbOK, Existing, CoversKept
  <2> QED
    BY <1>2, <1>4, <2>1, CoversKeep DEF EventInv, CoverInv
<1>6. SessionOK'
  <2>1. \A j \in DOMAIN calls' :
          /\ calls'[j].phase = "done" => calls'[j].by = "page"
          /\ calls'[j].op \in {"session", "login"} => calls'[j].by = "page"
    BY <1>2 DEF EventInv, SessionOK
  <2>2. \A j \in DOMAIN calls' : Asking(j)' => Asking(j)
    BY <1>2, <1>4 DEF Asking
  <2>3. ASSUME NEW j \in DOMAIN calls', Asking(j)'
        PROVE  /\ console'.loading
               /\ calls'[j].op # "logout" => console'.user = Null
               /\ calls'[j].op = "logout" /\ calls'[j].phase = "done" =>
                    (calls'[j].ok \/ calls'[j].data = "UNAUTHENTICATED" => eventDb'.session = Null)
    <3>1. Asking(j) /\ calls'[j].op = calls[j].op
      BY <1>2, <2>2, <2>3
    <3>2. console.loading /\ (calls[j].op # "logout" => console.user = Null)
      BY <3>1 DEF EventInv, SessionOK, Asking
    <3>3. CASE calls[i].op = "logout"
      BY <1>4, <3>1, <3>2, <3>3
    <3>4. CASE j # i /\ calls[i].op # "logout"
      <4>1. calls[i].by = "page" => FALSE
        BY <1>4, <3>1, <3>4 DEF EventInv, SessionOK, Asking
      <4> QED
        BY <1>4, <3>4, <4>1 DEF EventInv, SessionOK, Sess
    <3>5. CASE j = i /\ calls[i].op # "logout"
      BY <1>4, <3>1, <3>2, <3>5
    <3> QED
      BY <3>3, <3>4, <3>5
  <2> QED
    BY <1>2, <1>4, <2>1, <2>2, <2>3 DEF EventInv, SessionOK, Asking
<1>7. ArchivedKept
  BY <1>4 DEF ArchivedKept, StreamsOf, FieldsOf
<1> QED
  BY <1>2, <1>5, <1>6, <1>7 DEF EventInv, CoverInv

\* A row that is changed keeps its cover or loses it, and is not an archived one.
LEMMA RowChanges ==
  ASSUME EventInv, NEW e, NEW row, eventDb' = [eventDb EXCEPT !.event[e] = row],
         {"status", "cover"} \subseteq DOMAIN row, e \in Existing => ~Archived(e),
         row.cover = Null \/ (e \in Existing /\ row.cover = eventDb.event[e].cover)
  PROVE  /\ DbOK' /\ CoversKept /\ ArchivedKept
         /\ eventDb'.files = eventDb.files /\ eventDb'.session = eventDb.session
<1>1. /\ DOMAIN eventDb' = Tables
      /\ eventDb'.event = [eventDb.event EXCEPT ![e] = row]
      /\ eventDb'.stream = eventDb.stream /\ eventDb'.field = eventDb.field
      /\ eventDb'.files = eventDb.files /\ eventDb'.session = eventDb.session
  BY DEF EventInv, DbOK, Tables
<1>2. /\ DOMAIN eventDb'.event = Events
      /\ \A x \in Events : eventDb'.event[x] = IF x = e THEN row ELSE eventDb.event[x]
  BY <1>1 DEF EventInv, DbOK
<1>3. DbOK'
  BY <1>1, <1>2 DEF EventInv, DbOK, Existing
<1>4. CoversKept
  BY <1>2 DEF CoversKept, Existing
<1>5. ArchivedKept
  BY <1>1, <1>2 DEF ArchivedKept, StreamsOf, FieldsOf, Existing
<1> QED
  BY <1>1, <1>3, <1>4, <1>5

LEMMA RowServed ==
  ASSUME EventInv, NEW i \in DOMAIN calls, calls[i].op \notin Sess, NEW e, NEW row,
         Becomes(i, e, row), UNCHANGED console,
         {"status", "cover"} \subseteq DOMAIN row, e \in Existing => ~Archived(e),
         row.cover = Null \/ (e \in Existing /\ row.cover = eventDb.event[e].cover)
  PROVE  EventInv' /\ ArchivedKept
<1>1. eventDb' = [eventDb EXCEPT !.event[e] = row] /\ Quiet
  BY AnswersWell DEF Becomes
<1>2. /\ DbOK' /\ CoversKept /\ ArchivedKept
      /\ eventDb'.files = eventDb.files /\ eventDb'.session = eventDb.session
  BY <1>1, RowChanges
<1>3. CoverInv'
  BY <1>1, <1>2, CoversKeep DEF EventInv, CoverInv, Quiet
<1>4. SessionOK'
  BY <1>1, <1>2, SessionStays DEF EventInv, SessionOK, Quiet
<1> QED
  BY <1>1, <1>2, <1>3, <1>4 DEF EventInv, CoverInv, Quiet

LEMMA NothingServed ==
  ASSUME EventInv, NEW i \in DOMAIN calls, calls[i].op \notin Sess, NEW d,
         Done(i, d) \/ Refused(i), UNCHANGED <<eventDb, console>>
  PROVE  EventInv' /\ ArchivedKept
BY AnswersWell, QuietKeeps, NothingChanges DEF EventInv, SameUser, SessionOK

LEMMA EventReadsKeep ==
  ASSUME EventInv, NEW i \in DOMAIN calls, ServeEventReads(i)
  PROVE  EventInv' /\ ArchivedKept
<1>1. /\ \E d : Done(i, d) \/ Refused(i)
      /\ calls[i].op \in {"events", "event", "formFields", "streams"}
      /\ UNCHANGED <<eventDb, console>>
  BY DEF ServeEventReads, eventVars, Waits
<1> QED
  BY <1>1, NothingServed DEF Sess

LEMMA CreateKeeps ==
  ASSUME EventInv, NEW i \in DOMAIN calls, ServeCreate(i)
  PROVE  EventInv' /\ ArchivedKept
<1> DEFINE e == calls[i].arg.id
           more == calls[i].arg.more
           row == NewEvent(e, more.status, more.hours, more.seats)
<1>1. calls[i].op \notin Sess /\ UNCHANGED console
  BY DEF ServeCreate, Waits, Sess
<1>2. CASE EventRefused(i)
  BY <1>1, <1>2, NothingServed DEF EventRefused
<1>3. CASE e \notin Existing /\ Becomes(i, e, row)
  <2>1. {"status", "cover"} \subseteq DOMAIN row /\ row.cover = Null
    BY DEF NewEvent
  <2> HIDE DEF row, e
  <2> QED
    BY <1>1, <1>3, <2>1, RowServed
<1> QED
  BY <1>2, <1>3 DEF ServeCreate

LEMMA UpdateKeeps ==
  ASSUME EventInv, NEW i \in DOMAIN calls, ServeUpdate(i)
  PROVE  EventInv' /\ ArchivedKept
<1> DEFINE e == calls[i].arg.id
           row == With(eventDb.event[e], calls[i].arg.more)
<1>1. calls[i].op \notin Sess /\ UNCHANGED console
  BY DEF ServeUpdate, Waits, Sess
<1>2. CASE EventRefused(i)
  BY <1>1, <1>2, NothingServed DEF EventRefused
<1>3. CASE Changeable(e) /\ Becomes(i, e, row)
  <2>1. e \in Existing /\ ~Archived(e)
    BY <1>3 DEF Changeable
  <2>2. {"status", "cover"} \subseteq DOMAIN eventDb.event[e]
    BY <2>1 DEF EventInv, DbOK
  <2>3. DOMAIN row = DOMAIN eventDb.event[e] /\ row.cover = eventDb.event[e].cover
    BY <2>2 DEF With
  <2> HIDE DEF row, e
  <2> QED
    BY <1>1, <1>3, <2>1, <2>2, <2>3, RowServed
<1> QED
  BY <1>2, <1>3 DEF ServeUpdate

LEMMA ArchiveKeeps ==
  ASSUME EventInv, NEW i \in DOMAIN calls, ServeArchive(i)
  PROVE  EventInv' /\ ArchivedKept
<1> DEFINE e == calls[i].arg.id
           row == [eventDb.event[e] EXCEPT !.status = "ARCHIVED"]
<1>1. calls[i].op \notin Sess /\ UNCHANGED console
  BY DEF ServeArchive, Waits, Sess
<1>2. CASE EventRefused(i)
  BY <1>1, <1>2, NothingServed DEF EventRefused
<1>3. CASE UNCHANGED eventDb /\ Done(i, eventDb.event[e])
  BY <1>1, <1>3, NothingServed
<1>4. CASE Changeable(e) /\ Becomes(i, e, row)
  <2>1. e \in Existing /\ ~Archived(e)
    BY <1>4 DEF Changeable
  <2>2. {"status", "cover"} \subseteq DOMAIN eventDb.event[e]
    BY <2>1 DEF EventInv, DbOK
  <2>3. DOMAIN row = DOMAIN eventDb.event[e] /\ row.cover = eventDb.event[e].cover
    BY <2>2
  <2> HIDE DEF row, e
  <2> QED
    BY <1>1, <1>4, <2>1, <2>2, <2>3, RowServed
<1> QED
  BY <1>2, <1>3, <1>4 DEF ServeArchive

LEMMA FieldServedKeeps ==
  ASSUME EventInv, NEW i \in DOMAIN calls, ServeField(i)
  PROVE  EventInv' /\ ArchivedKept
<1> DEFINE e == calls[i].arg.id
           f == calls[i].arg.field
<1>1. calls[i].op \notin Sess /\ UNCHANGED console
  BY DEF ServeField, Waits, Sess
<1>2. CASE EventRefused(i)
  BY <1>1, <1>2, NothingServed DEF EventRefused
<1>3. CASE ~EventRefused(i)
  <2>1. PICK k : /\ eventDb' = [eventDb EXCEPT !.field[f] = [event |-> e, active |-> k]]
                 /\ Changeable(e) /\ Done(i, Null)
                 /\ eventDb.field[f] = Null \/ f \in FieldsOf(e)
    BY <1>3, Zenon DEF ServeField
  <2> HIDE DEF e, f
  <2>2. /\ DOMAIN eventDb' = Tables
        /\ eventDb'.field = [eventDb.field EXCEPT ![f] = [event |-> e, active |-> k]]
        /\ eventDb'.stream = eventDb.stream /\ eventDb'.event = eventDb.event
        /\ eventDb'.files = eventDb.files /\ eventDb'.session = eventDb.session
    BY <2>1 DEF EventInv, DbOK, Tables
  <2>3. DbOK' /\ CoversKept
    BY <2>2 DEF EventInv, DbOK, CoversKept, Existing
  <2>4. ArchivedKept
    <3> SUFFICES ASSUME NEW x \in Existing, Archived(x)
                 PROVE  /\ StreamsOf(x)' = StreamsOf(x) /\ FieldsOf(x)' = FieldsOf(x)
                        /\ \A g \in FieldsOf(x) : eventDb'.field[g] = eventDb.field[g]
      BY <2>2 DEF ArchivedKept
    <3>1. x # e /\ f \notin FieldsOf(x)
      BY <2>1 DEF Changeable, FieldsOf
    <3>2. \A g \in Fields : g # f => eventDb'.field[g] = eventDb.field[g]
      BY <2>2 DEF EventInv, DbOK
    <3>3. f \in Fields => eventDb'.field[f].event = e
      BY <2>2 DEF EventInv, DbOK
    <3>4. \A g \in Fields : g \in FieldsOf(x)' <=> g \in FieldsOf(x)
      BY <3>1, <3>2, <3>3 DEF FieldsOf
    <3>5. StreamsOf(x)' = StreamsOf(x)
      BY <2>2 DEF StreamsOf
    <3>6. FieldsOf(x)' \subseteq Fields /\ FieldsOf(x) \subseteq Fields
      BY DEF FieldsOf
    <3> QED
      BY <3>1, <3>2, <3>4, <3>5, <3>6
  <2>5. Quiet
    BY <1>1, <2>1, AnswersWell
  <2>6. CoverInv'
    BY <2>2, <2>3, <2>5, CoversKeep DEF EventInv, CoverInv, Quiet
  <2>7. SessionOK'
    BY <1>1, <2>2, <2>5, SessionStays DEF EventInv, SessionOK, Quiet
  <2> QED
    BY <2>4, <2>5, <2>6, <2>7 DEF EventInv, CoverInv, Quiet
<1> QED
  BY <1>2, <1>3

LEMMA StreamServedKeeps ==
  ASSUME EventInv, NEW i \in DOMAIN calls, ServeStream(i)
  PROVE  EventInv' /\ ArchivedKept
<1> DEFINE e == calls[i].arg.id
           s == calls[i].arg.stream
           new == [event |-> e, hours |-> calls[i].arg.hours, seats |-> calls[i].arg.seats]
           n == new.seats + Seats(StreamsOf(e) \ {s}, eventDb.stream)
           row == Streamed(eventDb.event[e], n)
<1>1. calls[i].op \notin Sess /\ UNCHANGED console
  BY DEF ServeStream, Waits, Sess
<1>2. CASE EventRefused(i)
  BY <1>1, <1>2, NothingServed DEF EventRefused
<1>3. CASE ~EventRefused(i)
  <2>1. /\ eventDb' = [eventDb EXCEPT !.stream[s] = new, !.event[e] = row]
        /\ Changeable(e) /\ Done(i, Null)
        /\ eventDb.stream[s] = Null \/ s \in StreamsOf(e)
    BY <1>3, Zenon DEF ServeStream
  <2>2. new.event = e
    OBVIOUS
  <2>3. e \in Existing /\ ~Archived(e)
    BY <2>1 DEF Changeable
  <2>4. {"status", "cover"} \subseteq DOMAIN eventDb.event[e]
    BY <2>3 DEF EventInv, DbOK
  <2> HIDE DEF n
  <2>5. DOMAIN row = DOMAIN eventDb.event[e] /\ row.cover = eventDb.event[e].cover
    BY <2>4 DEF Streamed
  <2> HIDE DEF row, new, s, e
  <2>6. /\ DOMAIN eventDb' = Tables
        /\ eventDb'.stream = [eventDb.stream EXCEPT ![s] = new]
        /\ eventDb'.event = [eventDb.event EXCEPT ![e] = row]
        /\ eventDb'.field = eventDb.field
        /\ eventDb'.files = eventDb.files /\ eventDb'.session = eventDb.session
    BY <2>1 DEF EventInv, DbOK, Tables
  <2>7. /\ DOMAIN eventDb'.event = Events /\ DOMAIN eventDb'.stream = Streams
        /\ \A x \in Events : eventDb'.event[x] = IF x = e THEN row ELSE eventDb.event[x]
        /\ \A t \in Streams : eventDb'.stream[t] = IF t = s THEN new ELSE eventDb.stream[t]
    BY <2>6 DEF EventInv, DbOK
  <2>8. DbOK'
    BY <2>4, <2>5, <2>6, <2>7 DEF EventInv, DbOK, Existing
  <2>9. CoversKept
    BY <2>3, <2>5, <2>7 DEF CoversKept, Existing
  <2>10. ArchivedKept
    <3> SUFFICES ASSUME NEW x \in Existing, Archived(x)
                 PROVE  /\ eventDb'.event[x] = eventDb.event[x]
                        /\ StreamsOf(x)' = StreamsOf(x) /\ FieldsOf(x)' = FieldsOf(x)
                        /\ \A t \in StreamsOf(x) : eventDb'.stream[t] = eventDb.stream[t]
      BY <2>6 DEF ArchivedKept
    <3>1. x # e /\ s \notin StreamsOf(x)
      BY <2>1, <2>3 DEF StreamsOf
    <3>2. \A t \in Streams : t \in StreamsOf(x)' <=> t \in StreamsOf(x)
      BY <2>2, <2>7, <3>1 DEF StreamsOf
    <3>3. FieldsOf(x)' = FieldsOf(x)
      BY <2>6 DEF FieldsOf
    <3>4. StreamsOf(x)' \subseteq Streams /\ StreamsOf(x) \subseteq Streams
      BY DEF StreamsOf
    <3>5. x \in Events
      BY DEF Existing
    <3> QED
      BY <2>7, <3>1, <3>2, <3>3, <3>4, <3>5
  <2>11. Quiet
    BY <1>1, <2>1, AnswersWell
  <2>12. CoverInv'
    BY <2>6, <2>8, <2>9, <2>11, CoversKeep DEF EventInv, CoverInv, Quiet
  <2>13. SessionOK'
    BY <1>1, <2>6, <2>11, SessionStays DEF EventInv, SessionOK, Quiet
  <2> QED
    BY <2>10, <2>11, <2>12, <2>13 DEF EventInv, CoverInv, Quiet
<1> QED
  BY <1>2, <1>3

-----------------------------------------------------------------------------
(* Covers: the file is stored, the row is changed, the old file is removed. *)
LEMMA FilesChange ==
  ASSUME EventInv, NEW F, eventDb' = [eventDb EXCEPT !.files = F]
  PROVE  /\ DbOK' /\ ArchivedKept /\ eventDb'.files = F
         /\ eventDb'.event = eventDb.event /\ eventDb'.session = eventDb.session
<1>1. /\ DOMAIN eventDb' = Tables
      /\ eventDb'.event = eventDb.event /\ eventDb'.stream = eventDb.stream
      /\ eventDb'.field = eventDb.field /\ eventDb'.session = eventDb.session
      /\ eventDb'.files = F
  BY DEF EventInv, DbOK, Tables
<1>2. DbOK'
  BY <1>1 DEF EventInv, DbOK, Existing
<1>3. ArchivedKept
  BY <1>1 DEF ArchivedKept, StreamsOf, FieldsOf
<1> QED
  BY <1>1, <1>2, <1>3

LEMMA Begins ==
  ASSUME EventInv, NEW i \in DOMAIN calls, calls[i].op \notin Sess, NEW d, Began(i, d)
  PROVE  /\ CallsTyped' /\ SessQuiet /\ DOMAIN calls' = DOMAIN calls
         /\ calls'[i].op = calls[i].op /\ calls'[i].phase = "open" /\ calls'[i].data = d
         /\ \A j \in DOMAIN calls : j # i => calls'[j] = calls[j]
BY Changed, Moves DEF Began, EventInv

\* Files are only taken away that no Event has and no upload is about to give it.
LEMMA FilesKeep ==
  ASSUME CoverInv, CoverQuiet, DbOK', eventDb'.event = eventDb.event, NEW n,
         eventDb'.files = eventDb.files \ {n},
         \A e \in Existing : eventDb.event[e].cover # Null => eventDb.event[e].cover # n,
         \A j \in DOMAIN calls :
           calls'[j] = calls[j] /\ calls[j].phase = "open" /\ calls[j].data.stage = "stored" =>
             j # n
  PROVE  CoverInv'
<1>1. \A m : Past(m) => Past(m)'
  BY PastStays
<1>2. Existing' = Existing
  BY DEF Existing
<1>3. \A m : Doomed(m) => Doomed(m)'
  BY <1>2 DEF Doomed
<1>4. CoversOK'
  BY <1>1, <1>2 DEF CoverInv, CoversOK
<1>5. UploadsOK'
  BY <1>1, <1>3 DEF CoverInv, UploadsOK, CoverQuiet
<1> QED
  BY <1>4, <1>5 DEF CoverInv

LEMMA StoreKeeps ==
  ASSUME EventInv, NEW i \in DOMAIN calls, StoreCover(i)
  PROVE  EventInv' /\ ArchivedKept
<1>1. /\ calls[i].op = "uploadCover" /\ calls[i].phase = "sent" /\ UNCHANGED console
      /\ eventDb' = [eventDb EXCEPT !.files = eventDb.files \cup {i}]
      /\ Began(i, [stage |-> "stored"])
  BY DEF StoreCover, Waits
<1>2. /\ DbOK' /\ ArchivedKept /\ eventDb'.files = eventDb.files \cup {i}
      /\ eventDb'.event = eventDb.event /\ eventDb'.session = eventDb.session
  BY <1>1, FilesChange
<1>3. /\ CallsTyped' /\ SessQuiet /\ DOMAIN calls' = DOMAIN calls
      /\ calls'[i].op = "uploadCover" /\ calls'[i].phase = "open"
      /\ calls'[i].data.stage = "stored"
      /\ \A j \in DOMAIN calls : j # i => calls'[j] = calls[j]
  BY <1>1, Begins DEF Sess
<1>4. \A m : Past(m) => Past(m)'
  BY <1>1, <1>3 DEF Past, Fresh
<1>5. Existing' = Existing
  BY <1>2 DEF Existing
<1>6. \A m : Doomed(m) => Doomed(m)'
  BY <1>2, <1>5 DEF Doomed
<1>7. CoversOK'
  BY <1>2, <1>4, <1>5 DEF EventInv, CoversOK
<1>8. UploadsOK'
  BY <1>2, <1>3, <1>4, <1>6 DEF EventInv, UploadsOK
<1>9. SessionOK'
  BY <1>1, <1>2, <1>3, SessionStays DEF EventInv, SessionOK
<1> QED
  BY <1>2, <1>3, <1>7, <1>8, <1>9 DEF EventInv

\* A committed change of an Event, of which the old file is still to be removed.
LEMMA SavesCover ==
  ASSUME EventInv, NEW i \in DOMAIN calls, NEW e \in Existing, NEW r, NEW c,
         calls[i].op \in {"uploadCover", "deleteCover", "purge"},
         Began(i, [stage |-> "saved", row |-> r, old |-> eventDb.event[e].cover]),
         DbOK', eventDb'.files = eventDb.files, eventDb'.session = eventDb.session,
         UNCHANGED console,
         e \in Existing' => eventDb'.event[e].cover = c,
         \A x \in Existing' : x # e =>
           x \in Existing /\ eventDb'.event[x].cover = eventDb.event[x].cover,
         c = Null \/ (c = i /\ Fresh(i) /\ i \in eventDb.files)
  PROVE  EventInv'
<1>1. PICK o, d : /\ o = eventDb.event[e].cover /\ d = [stage |-> "saved", row |-> r, old |-> o]
                  /\ d.stage = "saved" /\ d.old = o
  OBVIOUS
<1>2. /\ CallsTyped' /\ SessQuiet /\ DOMAIN calls' = DOMAIN calls
      /\ calls'[i].op = calls[i].op /\ calls'[i].phase = "open" /\ calls'[i].data = d
      /\ \A j \in DOMAIN calls : j # i => calls'[j] = calls[j]
  BY <1>1, Begins DEF Sess
<1>3. Past(i)' /\ \A m : Past(m) => Past(m)'
  BY <1>1, <1>2 DEF Past, Fresh
<1>4. \A m : Past(m) => m # c \/ c = Null
  BY DEF Past
<1>5. CoversOK'
  BY <1>3, <1>4 DEF EventInv, CoversOK
<1>6. \A m : m # Null /\ Past(m) /\ Doomed(m) => Doomed(m)'
  BY <1>4 DEF Doomed
<1>7. o # Null => Past(o)' /\ Doomed(o)'
  <2>1. o # Null => Past(o) /\ \A f \in Existing \ {e} : eventDb.event[f].cover # o
    BY <1>1 DEF EventInv, CoversOK
  <2>2. o # Null => c # o
    BY <1>4, <2>1
  <2>3. o # Null => \A x \in Existing' : eventDb'.event[x].cover # o
    BY <2>1, <2>2
  <2> QED
    BY <1>3, <2>1, <2>3 DEF Doomed
<1>8. UploadsOK'
  <2>1. \A j \in DOMAIN calls : j # i /\ calls'[j].phase = "open" =>
          /\ calls'[j].op \in {"uploadCover", "deleteCover", "purge"}
          /\ calls'[j].data.stage = "stored" =>
               calls'[j].op = "uploadCover" /\ j \in eventDb'.files
          /\ \A m : calls'[j].data.stage = "saved" /\ m = calls'[j].data.old /\ m # Null =>
               Past(m)' /\ Doomed(m)'
    BY <1>2, <1>3, <1>6 DEF EventInv, UploadsOK
  <2>2. /\ calls'[i].op \in {"uploadCover", "deleteCover", "purge"}
        /\ calls'[i].data.stage # "stored"
        /\ \A m : m = calls'[i].data.old /\ m # Null => Past(m)' /\ Doomed(m)'
    BY <1>1, <1>2, <1>7
  <2> QED
    BY <1>2, <2>1, <2>2 DEF UploadsOK
<1>9. SessionOK'
  BY <1>2, SessionStays DEF EventInv, SessionOK
<1> QED
  BY <1>2, <1>5, <1>8, <1>9 DEF EventInv

LEMMA CoverSet ==
  ASSUME EventInv, NEW i \in DOMAIN calls, NEW e, NEW c, Changeable(e), SetCover(i, e, c),
         calls[i].op \in {"uploadCover", "deleteCover"}, UNCHANGED console,
         c = Null \/ (c = i /\ Fresh(i) /\ i \in eventDb.files)
  PROVE  EventInv' /\ ArchivedKept
<1> DEFINE row == [eventDb.event[e] EXCEPT !.cover = c]
<1>1. /\ eventDb' = [eventDb EXCEPT !.event[e] = row]
      /\ Began(i, [stage |-> "saved", row |-> row, old |-> eventDb.event[e].cover])
      /\ e \in Existing /\ ~Archived(e)
  BY DEF SetCover, Changeable
<1>2. {"status", "cover"} \subseteq DOMAIN eventDb.event[e]
  BY <1>1 DEF EventInv, DbOK
<1>3. row.cover = c /\ {"status", "cover"} \subseteq DOMAIN row
  BY <1>2
<1> HIDE DEF row
<1>4. /\ DOMAIN eventDb' = Tables
      /\ eventDb'.event = [eventDb.event EXCEPT ![e] = row]
      /\ eventDb'.stream = eventDb.stream /\ eventDb'.field = eventDb.field
      /\ eventDb'.files = eventDb.files /\ eventDb'.session = eventDb.session
  BY <1>1 DEF EventInv, DbOK, Tables
<1>5. /\ DOMAIN eventDb'.event = Events
      /\ \A x \in Events : eventDb'.event[x] = IF x = e THEN row ELSE eventDb.event[x]
  BY <1>4 DEF EventInv, DbOK
<1>6. DbOK'
  BY <1>3, <1>4, <1>5 DEF EventInv, DbOK, Existing
<1>7. ArchivedKept
  BY <1>1, <1>4, <1>5 DEF ArchivedKept, StreamsOf, FieldsOf, Existing
<1>8. /\ e \in Existing' => eventDb'.event[e].cover = c
      /\ \A x \in Existing' : x # e =>
           x \in Existing /\ eventDb'.event[x].cover = eventDb.event[x].cover
  BY <1>3, <1>5 DEF Existing
<1> QED
  BY <1>1, <1>4, <1>6, <1>7, <1>8, SavesCover

LEMMA UploadKeeps ==
  ASSUME EventInv, NEW i \in DOMAIN calls, ServeUpload(i)
  PROVE  EventInv' /\ ArchivedKept
<1>1. /\ calls[i].op = "uploadCover" /\ calls[i].phase = "open" /\ calls[i].data.stage = "stored"
      /\ UNCHANGED console
  BY DEF ServeUpload, IsOpen
<1>2. Fresh(i) /\ i \in eventDb.files
  BY <1>1 DEF Fresh, EventInv, UploadsOK
<1>3. CASE Changeable(calls[i].arg.id) /\ SetCover(i, calls[i].arg.id, i)
  BY <1>1, <1>2, <1>3, CoverSet
<1>4. CASE eventDb' = [eventDb EXCEPT !.files = eventDb.files \ {i}] /\ Refused(i)
  <2>1. /\ DbOK' /\ ArchivedKept /\ eventDb'.files = eventDb.files \ {i}
        /\ eventDb'.event = eventDb.event /\ eventDb'.session = eventDb.session
    BY <1>4, FilesChange
  <2>2. Quiet
    BY <1>1, <1>4, AnswersWell DEF Sess
  <2>3. calls'[i].phase # "open"
    BY <1>4, AnswerMoves DEF Refused, RefusedAs, EventInv
  <2>4. \A x \in Existing : eventDb.event[x].cover # Null => eventDb.event[x].cover # i
    BY <1>2 DEF EventInv, CoversOK, Past
  <2>5. \A j \in DOMAIN calls : calls'[j] = calls[j] /\ calls[j].phase = "open" => j # i
    BY <2>3
  <2>6. CoverInv'
    BY <2>1, <2>2, <2>4, <2>5, FilesKeep DEF EventInv, CoverInv, Quiet
  <2>7. SessionOK'
    BY <1>1, <2>1, <2>2, SessionStays DEF EventInv, SessionOK, Quiet
  <2> QED
    BY <2>1, <2>2, <2>6, <2>7 DEF EventInv, CoverInv, Quiet
<1> QED
  BY <1>3, <1>4 DEF ServeUpload

LEMMA DeleteCoverKeeps ==
  ASSUME EventInv, NEW i \in DOMAIN calls, ServeDeleteCover(i)
  PROVE  EventInv' /\ ArchivedKept
<1>1. calls[i].op = "deleteCover" /\ UNCHANGED console
  BY DEF ServeDeleteCover, Waits
<1>2. CASE EventRefused(i)
  BY <1>1, <1>2, NothingServed DEF EventRefused, Sess
<1>3. CASE Changeable(calls[i].arg.id) /\ SetCover(i, calls[i].arg.id, Null)
  BY <1>1, <1>3, CoverSet
<1> QED
  BY <1>2, <1>3 DEF ServeDeleteCover

LEMMA PurgeKeeps ==
  ASSUME EventInv, NEW i \in DOMAIN calls, ServePurge(i)
  PROVE  EventInv' /\ ArchivedKept
<1> DEFINE e == calls[i].arg.id
<1>1. calls[i].op = "purge" /\ UNCHANGED console
  BY DEF ServePurge, Waits
<1>2. CASE EventRefused(i)
  BY <1>1, <1>2, NothingServed DEF EventRefused, Sess
<1>3. CASE ~EventRefused(i)
  <2>1. /\ e \in Existing /\ Archived(e)
        /\ eventDb' = [eventDb EXCEPT
             !.event[e] = Null,
             !.stream = [s \in Streams |-> IF s \in StreamsOf(e) THEN Null ELSE eventDb.stream[s]],
             !.field = [f \in Fields |-> IF f \in FieldsOf(e) THEN Null ELSE eventDb.field[f]]]
        /\ Began(i, [stage |-> "saved", row |-> Null, old |-> eventDb.event[e].cover])
    BY <1>3, Zenon DEF ServePurge
  <2> HIDE DEF e
  <2>2. /\ DOMAIN eventDb' = Tables
        /\ eventDb'.event = [eventDb.event EXCEPT ![e] = Null]
        /\ eventDb'.stream = [s \in Streams |-> IF s \in StreamsOf(e) THEN Null ELSE eventDb.stream[s]]
        /\ eventDb'.field = [f \in Fields |-> IF f \in FieldsOf(e) THEN Null ELSE eventDb.field[f]]
        /\ eventDb'.files = eventDb.files /\ eventDb'.session = eventDb.session
    BY <2>1 DEF EventInv, DbOK, Tables
  <2>3. /\ DOMAIN eventDb'.event = Events
        /\ \A x \in Events : eventDb'.event[x] = IF x = e THEN Null ELSE eventDb.event[x]
    BY <2>2 DEF EventInv, DbOK
  <2>4. DbOK'
    BY <2>2, <2>3 DEF EventInv, DbOK, Existing
  <2>5. /\ e \notin Existing'
        /\ \A x \in Existing' : x # e =>
             x \in Existing /\ eventDb'.event[x].cover = eventDb.event[x].cover
    BY <2>3 DEF Existing
  <2>6. EventInv'
    BY <1>1, <2>1, <2>2, <2>4, <2>5, SavesCover
  <2>7. ArchivedKept
    <3> SUFFICES ASSUME NEW x \in Existing, Archived(x), eventDb'.event[x] # Null
                 PROVE  /\ eventDb'.event[x] = eventDb.event[x]
                        /\ StreamsOf(x)' = StreamsOf(x) /\ FieldsOf(x)' = FieldsOf(x)
                        /\ \A s \in StreamsOf(x) : eventDb'.stream[s] = eventDb.stream[s]
                        /\ \A f \in FieldsOf(x) : eventDb'.field[f] = eventDb.field[f]
      BY DEF ArchivedKept
    <3>1. x \in Events /\ x # e /\ eventDb'.event[x] = eventDb.event[x]
      BY <2>3 DEF Existing
    <3>2. \A s \in Streams :
            /\ eventDb'.stream[s] = IF s \in StreamsOf(e) THEN Null ELSE eventDb.stream[s]
            /\ s \in StreamsOf(e) => s \notin StreamsOf(x)
      BY <2>2, <3>1 DEF StreamsOf
    <3>3. \A f \in Fields :
            /\ eventDb'.field[f] = IF f \in FieldsOf(e) THEN Null ELSE eventDb.field[f]
            /\ f \in FieldsOf(e) => f \notin FieldsOf(x)
      BY <2>2, <3>1 DEF FieldsOf
    <3>4. \A s \in Streams : s \in StreamsOf(x)' <=> s \in StreamsOf(x)
      BY <3>2 DEF StreamsOf
    <3>5. \A f \in Fields : f \in FieldsOf(x)' <=> f \in FieldsOf(x)
      BY <3>3 DEF FieldsOf
    <3>6. /\ StreamsOf(x)' \subseteq Streams /\ StreamsOf(x) \subseteq Streams
          /\ FieldsOf(x)' \subseteq Fields /\ FieldsOf(x) \subseteq Fields
      BY DEF StreamsOf, FieldsOf
    <3> QED
      BY <3>1, <3>2, <3>3, <3>4, <3>5, <3>6
  <2> QED
    BY <2>6, <2>7
<1> QED
  BY <1>2, <1>3

LEMMA RemoveKeeps ==
  ASSUME EventInv, NEW i \in DOMAIN calls, RemoveCover(i)
  PROVE  EventInv' /\ ArchivedKept
<1>1. /\ calls[i].phase = "open" /\ calls[i].data.stage = "saved" /\ UNCHANGED console
      /\ calls[i].op \in {"uploadCover", "deleteCover", "purge"}
      /\ eventDb' = [eventDb EXCEPT !.files = eventDb.files \ {calls[i].data.old}]
      /\ Done(i, calls[i].data.row)
  BY DEF RemoveCover, IsOpen
<1>2. PICK n : n = calls[i].data.old
  OBVIOUS
<1>3. /\ DbOK' /\ ArchivedKept /\ eventDb'.files = eventDb.files \ {n}
      /\ eventDb'.event = eventDb.event /\ eventDb'.session = eventDb.session
  BY <1>1, <1>2, FilesChange
<1>4. Quiet
  BY <1>1, AnswersWell DEF Sess
<1>5. n # Null => Past(n) /\ Doomed(n)
  BY <1>1, <1>2 DEF EventInv, UploadsOK
<1>6. \A e \in Existing : eventDb.event[e].cover # Null => eventDb.event[e].cover # n
  BY <1>5 DEF Doomed
<1>7. \A j \in DOMAIN calls : j # Null
  <2>1. PICK O, A, D : calls \in Seq(CallShape(O, A, D))
    BY DEF EventInv, CallsTyped
  <2> QED
    BY <2>1, EventBasics
<1>8. ASSUME NEW j \in DOMAIN calls, calls'[j] = calls[j], calls[j].phase = "open",
             calls[j].data.stage = "stored"
      PROVE  j # n
  <2>1. CASE n = Null
    BY <1>7, <2>1
  <2>2. CASE n # Null /\ calls[j].op = "uploadCover"
    BY <1>5, <1>8, <2>2 DEF Past, Fresh
  <2>3. CASE calls[j].op # "uploadCover"
    BY <1>1, <1>5, <1>8, <2>3 DEF EventInv, UploadsOK
  <2> QED
    BY <2>1, <2>2, <2>3
<1>9. CoverInv'
  BY <1>3, <1>4, <1>6, <1>8, FilesKeep DEF EventInv, CoverInv, Quiet
<1>10. SessionOK'
  BY <1>1, <1>3, <1>4, SessionStays DEF EventInv, SessionOK, Quiet
<1> QED
  BY <1>3, <1>4, <1>9, <1>10 DEF EventInv, CoverInv, Quiet

-----------------------------------------------------------------------------
(* The whole step, and the theorems. *)
LEMMA EventServeKeeps ==
  ASSUME EventInv, NEW i \in DOMAIN calls, EventServes(i)
  PROVE  EventInv' /\ ArchivedKept
BY SessionServed, EventReadsKeep, CreateKeeps, UpdateKeeps, StoreKeeps, UploadKeeps,
   DeleteCoverKeeps, PurgeKeeps, RemoveKeeps, ArchiveKeeps, FieldServedKeeps, StreamServedKeeps,
   Zenon DEF EventServes

LEMMA EventLoseKeeps ==
  ASSUME EventInv, NEW i \in DOMAIN calls, LoseCall(i), UNCHANGED eventVars
  PROVE  EventInv'
BY Loses, QuietKeeps DEF eventVars, EventInv, SameUser, SessionOK

LEMMA ReceivedChangesNothing ==
  ASSUME NEW i, EventReceives(i)
  PROVE  UNCHANGED eventDb
BY DEF EventReceives, SessionArrives, ShowEvents, EventSaved, Purged, SettingsFail, FieldChanged,
       ShowFields, StreamSaved, ShowStreams, StreamsFail, eventVars

LEMMA ClicksChangeNothing ==
  ASSUME EventClicks
  PROVE  UNCHANGED eventDb
<1>1. \A op, id, more : Settings(op, id, more) => UNCHANGED eventDb
  BY DEF Settings
<1>2. \A op, f : FieldCall(op, f) => UNCHANGED eventDb
  BY DEF FieldCall
<1>3. \A e, st, h, n, c : SaveEvent(e, st, h, n, c) => UNCHANGED eventDb
  BY <1>1 DEF SaveEvent
<1>4. \A role : Login(role) => UNCHANGED eventDb
  BY DEF Login
<1>5. \A e : OpenEditor(e) => UNCHANGED eventDb
  BY DEF OpenEditor
<1>6. \A f : OpenFieldForm(f) \/ DeactivateField(f) => UNCHANGED eventDb
  BY <1>2 DEF OpenFieldForm, DeactivateField
<1>7. \A s : EditStream(s) => UNCHANGED eventDb
  BY DEF EditStream
<1>8. \A s, h, n : SaveStream(s, h, n) => UNCHANGED eventDb
  BY DEF SaveStream
<1>9. ASSUME \/ Logout \/ ToggleArchive \/ CloseEventEditor \/ CompleteEvent \/ DeleteCover
             \/ Archive \/ Purge \/ SaveConfig \/ CloseFieldForm \/ SaveField
      PROVE  UNCHANGED eventDb
  BY <1>1, <1>2, <1>9 DEF Logout, ToggleArchive, CloseEventEditor, CompleteEvent, DeleteCover,
                         Archive, Purge, SaveConfig, CloseFieldForm, SaveField
<1> QED
  BY <1>3, <1>4, <1>5, <1>6, <1>7, <1>8, <1>9, Zenon DEF EventClicks

LEMMA UserStays ==
  ASSUME EventInv, EventNext, \A i \in DOMAIN calls : ~SessionArrives(i)
  PROVE  console'.user = console.user
<1>1. {"user", "loading"} \subseteq DOMAIN console
  BY DEF EventInv, SessionOK
<1>2. ASSUME NEW i \in DOMAIN calls, EventServes(i) PROVE UNCHANGED console
  BY <1>2 DEF EventServes, ServeSession, ServeEventReads, ServeCreate, ServeUpdate, StoreCover,
              ServeUpload, ServeDeleteCover, ServePurge, RemoveCover, ServeArchive, ServeField,
              ServeStream, eventVars
<1>3. ASSUME NEW i \in DOMAIN calls, EventReceives(i) PROVE console'.user = console.user
  <2>1. CASE ShowEvents(i)
    BY <1>1, <2>1 DEF ShowEvents
  <2>2. CASE ~ShowEvents(i)
    BY <1>3, <2>2 DEF EventReceives, EventSaved, Purged, SettingsFail, FieldChanged,
                      ShowFields, StreamSaved, ShowStreams, StreamsFail, eventVars
  <2> QED
    BY <2>1, <2>2
<1>4. ASSUME EventClicks PROVE console'.user = console.user
  <2>1. Logout \/ ToggleArchive => console'.user = console.user
    BY <1>1 DEF Logout, ToggleArchive
  <2>2. \A role : Login(role) => console'.user = console.user
    BY <1>1 DEF Login
  <2>3. \A op, id, more : Settings(op, id, more) => UNCHANGED console
    BY DEF Settings
  <2>4. \A op, f : FieldCall(op, f) => UNCHANGED console
    BY DEF FieldCall
  <2>5. /\ \A e : OpenEditor(e) => UNCHANGED console
        /\ \A e, st, h, n, c : SaveEvent(e, st, h, n, c) => UNCHANGED console
        /\ \A f : OpenFieldForm(f) \/ DeactivateField(f) => UNCHANGED console
        /\ \A s : EditStream(s) => UNCHANGED console
        /\ \A s, h, n : SaveStream(s, h, n) => UNCHANGED console
    BY <2>3, <2>4 DEF OpenEditor, SaveEvent, OpenFieldForm, DeactivateField, EditStream, SaveStream
  <2>6. ASSUME \/ CloseEventEditor \/ CompleteEvent \/ DeleteCover \/ Archive \/ Purge
               \/ SaveConfig \/ CloseFieldForm \/ SaveField
        PROVE  UNCHANGED console
    BY <2>3, <2>4, <2>6 DEF CloseEventEditor, CompleteEvent, DeleteCover, Archive, Purge, SaveConfig,
                      CloseFieldForm, SaveField
  <2> QED
    BY <1>4, <2>1, <2>2, <2>5, <2>6, Zenon DEF EventClicks
<1>5. OtherEditor => UNCHANGED console
  BY DEF OtherEditor, eventVars
<1> QED
  BY <1>2, <1>3, <1>4, <1>5 DEF EventNext, EventReceives, eventVars

LEMMA EventStepKeeps ==
  ASSUME EventInv, EventNext
  PROVE  /\ EventInv' /\ ArchivedKept
         /\ console.user # Null /\ console'.user = Null => eventDb.session = Null
<1>1. ASSUME EventClicks PROVE EventInv' /\ ArchivedKept
  BY <1>1, EventClickKeeps, ClicksChangeNothing, NothingChanges
<1>2. ASSUME OtherEditor PROVE EventInv' /\ ArchivedKept
  BY <1>2, OtherEditorKeeps, NothingChanges DEF OtherEditor, eventVars
<1>3. ASSUME NEW i \in DOMAIN calls, EventReceives(i) PROVE EventInv' /\ ArchivedKept
  BY <1>3, EventReceiveKeeps, ReceivedChangesNothing, NothingChanges
<1>4. ASSUME NEW i \in DOMAIN calls, LoseCall(i), UNCHANGED eventVars
      PROVE  EventInv' /\ ArchivedKept
  BY <1>4, EventLoseKeeps, NothingChanges DEF eventVars
<1>5. EventInv' /\ ArchivedKept
  BY <1>1, <1>2, <1>3, <1>4, EventServeKeeps, Zenon DEF EventNext
<1>6. console.user # Null /\ console'.user = Null => eventDb.session = Null
  BY UserStays, SessionArrivesKeeps
<1> QED
  BY <1>5, <1>6

LEMMA EventTablesStart ==
  ASSUME EventStart
  PROVE  DbOK /\ CoversOK /\ CoverFileExists
<1>1. /\ DOMAIN eventDb = Tables /\ DOMAIN eventDb.event = Events
      /\ DOMAIN eventDb.stream = Streams /\ DOMAIN eventDb.field = Fields
  BY DEF EventStart, Tables
<1>2. \A e \in Existing :
        {"status", "cover"} \subseteq DOMAIN eventDb.event[e] /\ eventDb.event[e].cover = Null
  <2> SUFFICES ASSUME NEW e \in Existing
               PROVE  /\ {"status", "cover"} \subseteq DOMAIN eventDb.event[e]
                      /\ eventDb.event[e].cover = Null
    OBVIOUS
  <2>1. PICK n : n = NewEvent(e, "REGISTRATION_CLOSED", Longest, FirstCount)
    OBVIOUS
  <2>2. {"status", "cover"} \subseteq DOMAIN n /\ n.cover = Null
    BY <2>1 DEF NewEvent
  <2>3. \E k : eventDb.event[e] = n \/ eventDb.event[e] = Streamed(n, k)
    BY <2>1, EventBasics DEF EventStart, Existing
  <2>4. \A k : {"status", "cover"} \subseteq DOMAIN Streamed(n, k) /\ Streamed(n, k).cover = Null
    BY <2>2 DEF Streamed
  <2> QED
    BY <2>2, <2>3, <2>4
<1> QED
  BY <1>1, <1>2 DEF DbOK, CoversOK, CoverFileExists

LEMMA EventStarts ==
  ASSUME EventStart, Mounted(EventFirst)
  PROVE  EventInv
<1>1. calls = <<>> \/ calls = <<Call("session", Null)>>
  BY DEF Mounted, EventFirst
<1>2. CallsTyped
  BY <1>1, FirstCall
<1>3. \A i \in DOMAIN calls : i = 1 /\ calls[i] = Call("session", Null)
  BY <1>1
<1>4. \A i \in DOMAIN calls :
        i = 1 /\ calls[i].op = "session" /\ calls[i].phase = "sent" /\ calls[i].by = "page"
  BY <1>3 DEF Call, CallOf
<1>5. UploadsOK
  BY <1>4 DEF UploadsOK
<1>6. /\ {"user", "loading"} \subseteq DOMAIN console
      /\ calls # <<>> => console.loading /\ console.user = Null
  <2>1. CASE Uses("session")
    BY <2>1 DEF EventStart, NoConsole
  <2>2. CASE ~Uses("session")
    BY <2>2 DEF EventStart, NoConsole, Mounted, EventFirst
  <2> QED
    BY <2>1, <2>2
<1>7. SessionOK
  <2>1. \A i \in DOMAIN calls : calls # <<>>
    OBVIOUS
  <2> QED
    BY <1>4, <1>6, <2>1 DEF SessionOK, Asking
<1> QED
  BY <1>2, <1>5, <1>7, EventTablesStart DEF EventInv

LEMMA EventInvariant == EventSpec => []EventInv
<1>1. EventInit => EventInv
  BY EventStarts DEF EventInit
<1>2. EventInv /\ [EventNext]_<<shell, eventVars>> => EventInv'
  <2>1. EventInv /\ UNCHANGED <<shell, eventVars>> => EventInv'
    BY EditsQuietly DEF eventVars
  <2> QED
    BY <2>1, EventStepKeeps
<1> QED
  BY <1>1, <1>2, PTL DEF EventSpec

\* However the uploads, deletions, archivings and purges of several
\* administrators overlap, and whatever is lost, an Event's cover is there.
THEOREM CoversHaveFiles == EventSpec => []CoverFileExists
<1>1. EventInv => CoverFileExists
  BY DEF EventInv, CoversOK, CoverFileExists
<1> QED
  BY <1>1, EventInvariant, PTL

\* No request that was on its way, and no transaction that was under way,
\* changes an archived Event, its streams or its form fields.
THEOREM ArchivedStays == EventSpec => ArchiveIsFinal
<1>1. EventInv /\ [EventNext]_<<shell, eventVars>> =>
        [\A e \in Existing :
           Archived(e) /\ eventDb'.event[e] # Null =>
             /\ eventDb'.event[e] = eventDb.event[e]
             /\ StreamsOf(e)' = StreamsOf(e) /\ FieldsOf(e)' = FieldsOf(e)
             /\ \A s \in StreamsOf(e) : eventDb'.stream[s] = eventDb.stream[s]
             /\ \A f \in FieldsOf(e) : eventDb'.field[f] = eventDb.field[f]
        ]_eventDb
  BY EventStepKeeps DEF ArchivedKept, eventVars
<1> QED
  BY <1>1, EventInvariant, PTL DEF EventSpec, ArchiveIsFinal

\* Whatever a logout or its answer meets on its way, the console signs out
\* only of a session that has ended.
THEOREM SignedOutWhenEnded == EventSpec => LogoutIsReal
<1>1. EventInv /\ [EventNext]_<<shell, eventVars>> =>
        [console.user # Null /\ console'.user = Null => eventDb.session = Null]_console
  BY EventStepKeeps DEF eventVars
<1> QED
  BY <1>1, EventInvariant, PTL DEF EventSpec, LogoutIsReal

-----------------------------------------------------------------------------
(* Streams: the seats of some of them are as many as theirs together. *)
Counted(s, n) == {s} \X (1..n)
SeatsOf(ss, stream) == UNION {Counted(s, stream[s].seats) : s \in ss}

LEMMA CountedSeats ==
  ASSUME NEW s, NEW n \in Nat
  PROVE  IsFiniteSet(Counted(s, n)) /\ Cardinality(Counted(s, n)) = n
<1>1. IsFiniteSet(1..n) /\ Cardinality(1..n) = n
  BY FS_Interval
<1>2. IsFiniteSet({s}) /\ Cardinality({s}) = 1
  BY FS_Singleton
<1>3. PICK A, B : A = {s} /\ B = 1..n
  OBVIOUS
<1>4. IsFiniteSet(A \X B) /\ Cardinality(A \X B) = Cardinality(A) * Cardinality(B)
  BY <1>1, <1>2, <1>3, FS_Product
<1>5. Cardinality(A \X B) = n
  BY <1>1, <1>2, <1>3, <1>4
<1> QED
  BY <1>3, <1>4, <1>5 DEF Counted

LEMMA SeatsAreFinite ==
  ASSUME NEW ss, IsFiniteSet(ss), NEW stream, \A s \in ss : stream[s].seats \in Nat
  PROVE  IsFiniteSet(SeatsOf(ss, stream)) /\ Seats(ss, stream) \in Nat
<1> DEFINE f == [s \in ss |-> Counted(s, stream[s].seats)]
           T == {Counted(s, stream[s].seats) : s \in ss}
<1>1. f \in Surjection(ss, T)
  BY DEF Surjection
<1>2. IsFiniteSet(T)
  BY <1>1, FS_Surjection
<1>3. \A t \in T : IsFiniteSet(t)
  BY CountedSeats
<1>4. IsFiniteSet(UNION T)
  BY <1>2, <1>3, FS_UNION
<1> QED
  BY <1>4, FS_CardinalityType DEF SeatsOf, Seats, Counted

LEMMA OneMoreStream ==
  ASSUME NEW ss, IsFiniteSet(ss), NEW stream, \A t \in ss : stream[t].seats \in Nat,
         NEW s, s \notin ss, stream[s].seats \in Nat
  PROVE  Seats(ss \cup {s}, stream) = stream[s].seats + Seats(ss, stream)
<1> DEFINE A == SeatsOf(ss, stream)
           B == Counted(s, stream[s].seats)
<1>1. SeatsOf(ss \cup {s}, stream) = A \cup B
  BY DEF SeatsOf
<1>2. A \cap B = {}
  BY DEF SeatsOf, Counted
<1>3. IsFiniteSet(A) /\ Cardinality(A) = Seats(ss, stream)
  BY SeatsAreFinite DEF SeatsOf, Counted, Seats
<1>4. IsFiniteSet(B) /\ Cardinality(B) = stream[s].seats
  BY CountedSeats
<1>5. Cardinality(A \cap B) = 0
  BY <1>2, FS_EmptySet
<1> HIDE DEF A, B
<1>6. Cardinality(A) \in Nat /\ Cardinality(B) \in Nat
  <2>1. Cardinality(A) \in Nat
    BY <1>3, FS_CardinalityType
  <2>2. Cardinality(B) \in Nat
    BY <1>4, FS_CardinalityType
  <2> QED
    BY <2>1, <2>2
<1>7. Cardinality(A \cup B) = Cardinality(A) + Cardinality(B) - Cardinality(A \cap B)
  BY <1>3, <1>4, FS_Union
<1>8. Cardinality(A \cup B) = Cardinality(B) + Cardinality(A)
  BY <1>5, <1>6, <1>7
<1> QED
  BY <1>1, <1>3, <1>4, <1>8 DEF SeatsOf, Counted, Seats

LEMMA SameSeats ==
  ASSUME NEW ss, NEW st, NEW su, \A s \in ss : st[s].seats = su[s].seats
  PROVE  Seats(ss, st) = Seats(ss, su)
<1>1. {{s} \X (1..st[s].seats) : s \in ss} = {{s} \X (1..su[s].seats) : s \in ss}
  OBVIOUS
<1> QED
  BY <1>1 DEF Seats
-----------------------------------------------------------------------------
RowsOK ==
  /\ \A e \in Existing : eventDb.event[e] \in EventRow
  /\ \A s \in Streams : eventDb.stream[s] # Null => eventDb.stream[s] \in StreamRow

\* Streams are those of a streamed Event, lie within it and share its seats.
WithinEvent(s) ==
  LET e == eventDb.stream[s].event IN
  /\ e \in Existing /\ eventDb.event[e].streamed
  /\ eventDb.stream[s].hours \subseteq eventDb.event[e].hours
SharesOK ==
  /\ \A s \in Streams : eventDb.stream[s] # Null => WithinEvent(s)
  /\ \A e \in Existing : eventDb.event[e].streamed =>
       eventDb.event[e].seats = Seats(StreamsOf(e), eventDb.stream)

\* What a request may ask of an Event or of a stream.
ChangesOK(more) ==
  /\ "hours" \in DOMAIN more => more.hours \in Spans
  /\ "seats" \in DOMAIN more => more.seats \in Nat
  /\ "config" \in DOMAIN more => more.config \in BOOLEAN
EventAskOK(o, a) ==
  /\ o = "createEvent" => /\ a.id \in Events /\ a.more.status \in EventStatuses
                          /\ a.more.hours \in Spans /\ a.more.seats \in Nat
  /\ o = "updateEvent" => ChangesOK(a.more)
  /\ o = "saveStream" => a.stream \in Streams /\ a.hours \in Spans /\ a.seats \in SeatCounts
EventAsksOK ==
  CallsTyped /\ \A i \in DOMAIN calls : calls[i].phase = "sent" => EventAskOK(calls[i].op, calls[i].arg)

StreamsInv == RowsOK /\ SharesOK /\ EventAsksOK

LEMMA EventAsksGo ==
  ASSUME EventAsksOK, CallsTyped', NEW o, NEW a, Sends(o, a) \/ SendsNone, EventAskOK(o, a)
  PROVE  EventAsksOK'
<1>1. \A j \in DOMAIN calls' : calls'[j].phase = "sent" =>
        \/ j \in DOMAIN calls /\ calls'[j] = calls[j]
        \/ calls'[j].op = o /\ calls'[j].arg = a
  BY DEF Sends, SendsNone
<1> QED
  BY <1>1 DEF EventAsksOK, EventAskOK, ChangesOK

LEMMA NobodyAsks ==
  ASSUME EventAsksOK, NEW i \in DOMAIN calls,
         \/ calls' = Over(i)
         \/ \E d : Done(i, d) \/ Refused(i) \/ RefusedAs(i, d) \/ Began(i, d)
         \/ LoseCall(i)
  PROVE  EventAsksOK'
<1>1. CASE \E d : Began(i, d)
  <2>1. /\ CallsTyped' /\ OnlyMoves(i) /\ DOMAIN calls' = DOMAIN calls
        /\ calls'[i].phase = "open"
    BY <1>1, BeganOpens DEF EventAsksOK
  <2> QED
    BY <2>1 DEF EventAsksOK, OnlyMoves, EventAskOK, ChangesOK
<1>2. CASE ~\E d : Began(i, d)
  <2>1. PICK k \in BOOLEAN : \E d : \/ calls' = Over(i) \/ Answer(i, k, d)
                                    \/ calls' = Became(i, calls[i].arg, "done", k, d)
    BY <1>2 DEF Done, Refused, RefusedAs, LoseCall
  <2>2. CallsTyped' /\ SendsNone
    BY <2>1, StepMoves DEF EventAsksOK
  <2> QED
    BY <2>2 DEF EventAsksOK, SendsNone, EventAskOK, ChangesOK
<1> QED
  BY <1>1, <1>2

LEMMA OneAsks ==
  ASSUME EventAsksOK, NEW o, NEW a, EventAskOK(o, a),
         \/ calls' = Append(calls, Call(o, a)) \/ calls' = Append(calls, OthersCall(o, a))
         \/ \E i \in DOMAIN calls : calls' = Append(Over(i), Call(o, a))
  PROVE  EventAsksOK'
<1>1. CallsTyped' /\ Sends(o, a)
  BY AppendSends, TakeSends DEF EventAsksOK
<1> QED
  BY <1>1, EventAsksGo

LEMMA DbRests ==
  ASSUME StreamsInv, EventAsksOK', eventDb'.event = eventDb.event, eventDb'.stream = eventDb.stream
  PROVE  StreamsInv'
BY DEF StreamsInv, RowsOK, SharesOK, WithinEvent, Existing, StreamsOf

\* Only the row of one Event changes: its hours and seats still fit its streams.
LEMMA RowFits ==
  ASSUME DbOK, StreamsInv, EventAsksOK', NEW e, NEW row,
         eventDb'.event = [eventDb.event EXCEPT ![e] = row],
         eventDb'.stream = eventDb.stream,
         e \in Events => row \in EventRow,
         e \in Existing => /\ row.streamed = eventDb.event[e].streamed
                           /\ row.streamed =>
                                /\ row.seats = eventDb.event[e].seats
                                /\ \A s \in StreamsOf(e) : eventDb.stream[s].hours \subseteq row.hours,
         e \notin Existing => ~row.streamed
  PROVE  StreamsInv'
<1>1. \A x \in Events : eventDb'.event[x] = IF x = e THEN row ELSE eventDb.event[x]
  BY DEF DbOK
<1>2. /\ \A x \in Existing : x \in Existing'
      /\ \A x \in Existing' : x \in Existing \/ x = e
  BY <1>1, StreamBasics DEF Existing
<1>3. RowsOK'
  BY <1>1, <1>2 DEF StreamsInv, RowsOK, Existing
<1>4. \A x : StreamsOf(x)' = StreamsOf(x)
  BY DEF StreamsOf
<1>5. ASSUME NEW s \in Streams, eventDb'.stream[s] # Null
      PROVE  WithinEvent(s)'
  <2>1. WithinEvent(s)
    BY <1>5 DEF StreamsInv, SharesOK
  <2>2. PICK x : x = eventDb.stream[s].event
    OBVIOUS
  <2>3. x = e => s \in StreamsOf(e)
    BY <1>5, <2>2 DEF StreamsOf
  <2>4. x \in Existing /\ x \in Events
    BY <2>1, <2>2 DEF WithinEvent, Existing
  <2> QED
    BY <1>1, <1>2, <2>1, <2>2, <2>3, <2>4 DEF WithinEvent
<1>6. \A x \in Existing' : eventDb'.event[x].streamed =>
        eventDb'.event[x].seats = Seats(StreamsOf(x)', eventDb'.stream)
  <2> SUFFICES ASSUME NEW x \in Existing', eventDb'.event[x].streamed
               PROVE  eventDb'.event[x].seats = Seats(StreamsOf(x), eventDb.stream)
    BY <1>4
  <2>1. x \in Events /\ x \in Existing
    BY <1>1, <1>2 DEF Existing
  <2>2. eventDb'.event[x].seats = eventDb.event[x].seats /\ eventDb.event[x].streamed
    BY <1>1, <2>1
  <2> QED
    BY <2>1, <2>2 DEF StreamsInv, SharesOK
<1> QED
  BY <1>3, <1>5, <1>6 DEF StreamsInv, SharesOK

LEMMA RowIsServed ==
  ASSUME DbOK, StreamsInv, NEW i \in DOMAIN calls, NEW e, NEW row, EventAsksOK',
         eventDb' = [eventDb EXCEPT !.event[e] = row],
         e \in Events => row \in EventRow,
         e \in Existing => /\ row.streamed = eventDb.event[e].streamed
                           /\ row.streamed =>
                                /\ row.seats = eventDb.event[e].seats
                                /\ \A s \in StreamsOf(e) : eventDb.stream[s].hours \subseteq row.hours,
         e \notin Existing => ~row.streamed
  PROVE  StreamsInv'
<1>1. /\ eventDb'.event = [eventDb.event EXCEPT ![e] = row]
      /\ eventDb'.stream = eventDb.stream
  BY DEF DbOK, Tables
<1> QED
  BY <1>1, RowFits

\* A change of what says nothing of its hours, seats or streams.
LEMMA OtherColumn ==
  ASSUME DbOK, StreamsInv, NEW e \in Existing, NEW row \in EventRow, EventAsksOK',
         eventDb' = [eventDb EXCEPT !.event[e] = row],
         row.hours = eventDb.event[e].hours, row.seats = eventDb.event[e].seats,
         row.streamed = eventDb.event[e].streamed
  PROVE  StreamsInv'
<1>1. row.streamed => \A s \in StreamsOf(e) : eventDb.stream[s].hours \subseteq row.hours
  BY DEF StreamsInv, SharesOK, WithinEvent, StreamsOf
<1>2. /\ eventDb'.event = [eventDb.event EXCEPT ![e] = row]
      /\ eventDb'.stream = eventDb.stream
  BY DEF DbOK, Tables
<1> QED
  BY <1>1, <1>2, RowFits

LEMMA StreamsAfterCreate ==
  ASSUME DbOK, StreamsInv, NEW i \in DOMAIN calls, ServeCreate(i)
  PROVE  StreamsInv'
<1> DEFINE e == calls[i].arg.id
           more == calls[i].arg.more
           row == NewEvent(e, more.status, more.hours, more.seats)
<1>1. EventAsksOK'
  BY NobodyAsks DEF ServeCreate, Becomes, EventRefused, StreamsInv
<1>2. CASE EventRefused(i)
  BY <1>1, <1>2, DbRests DEF EventRefused
<1>3. CASE e \notin Existing /\ Becomes(i, e, row)
  <2>1. EventAskOK("createEvent", calls[i].arg)
    BY DEF ServeCreate, Waits, StreamsInv, EventAsksOK
  <2>2. e \in Events => row \in EventRow
    BY <2>1 DEF EventAskOK, NewEvent, EventRow
  <2>3. ~row.streamed
    BY DEF NewEvent
  <2> HIDE DEF row, e
  <2> QED
    BY <1>1, <1>3, <2>2, <2>3, RowIsServed DEF Becomes
<1> QED
  BY <1>2, <1>3 DEF ServeCreate

LEMMA StreamsAfterUpdate ==
  ASSUME DbOK, StreamsInv, NEW i \in DOMAIN calls, ServeUpdate(i)
  PROVE  StreamsInv'
<1> DEFINE e == calls[i].arg.id
           more == calls[i].arg.more
           old == eventDb.event[e]
           row == With(old, more)
<1>1. EventAsksOK'
  BY NobodyAsks DEF ServeUpdate, Becomes, EventRefused, StreamsInv
<1>2. CASE EventRefused(i)
  BY <1>1, <1>2, DbRests DEF EventRefused
<1>3. CASE Changeable(e) /\ MayBecome(e, row) /\ Becomes(i, e, row)
  <2>1. ChangesOK(more)
    BY DEF ServeUpdate, Waits, StreamsInv, EventAsksOK, EventAskOK
  <2>2. e \in Existing /\ old \in EventRow /\ old.status # "ARCHIVED"
    BY <1>3 DEF Changeable, Archived, StreamsInv, RowsOK
  <2>3. old.status \in EventStatuses
    BY <2>2 DEF EventRow
  <2>4. row.status \in EventStatuses
    <3>1. row.status \in Transitions[old.status] \/ row.status = "COMPLETED"
      BY <1>3 DEF MayBecome
    <3>2. Transitions[old.status] \subseteq EventStatuses
      BY <2>3 DEF Transitions, EventStatuses
    <3> HIDE DEF row, old
    <3> QED
      BY <3>1, <3>2 DEF EventStatuses
  <2>5. /\ DOMAIN row = DOMAIN old /\ row.id = old.id /\ row.streamed = old.streamed
        /\ row.cover = old.cover
        /\ row.hours = old.hours \/ ("hours" \in DOMAIN more /\ row.hours = more.hours)
        /\ row.seats = old.seats \/ ("seats" \in DOMAIN more /\ row.seats = more.seats)
        /\ row.config = old.config \/ ("config" \in DOMAIN more /\ row.config = more.config)
    BY <2>2 DEF With, EventRow
  <2>6. row \in EventRow
    <3>1. row = [k \in DOMAIN row |-> row[k]]
      BY DEF With
    <3>2. DOMAIN old = {"id", "status", "hours", "seats", "streamed", "cover", "config"}
      BY <2>2 DEF EventRow
    <3> HIDE DEF row, old, more
    <3>3. row.hours \in Spans /\ row.seats \in Nat /\ row.config \in BOOLEAN
      BY <2>1, <2>2, <2>5 DEF EventRow, ChangesOK
    <3> QED
      BY <2>2, <2>4, <2>5, <3>1, <3>2, <3>3 DEF EventRow
  <2>7. row.streamed => /\ row.seats = old.seats
                        /\ \A s \in StreamsOf(e) : eventDb.stream[s].hours \subseteq row.hours
    BY <1>3, <2>5 DEF MayBecome
  <2> HIDE DEF row, e
  <2> QED
    BY <1>1, <1>3, <2>2, <2>5, <2>6, <2>7, RowIsServed DEF Becomes
<1> QED
  BY <1>2, <1>3 DEF ServeUpdate

LEMMA StreamsAfterArchive ==
  ASSUME DbOK, StreamsInv, NEW i \in DOMAIN calls, ServeArchive(i)
  PROVE  StreamsInv'
<1> DEFINE e == calls[i].arg.id
           row == [eventDb.event[e] EXCEPT !.status = "ARCHIVED"]
<1>1. EventAsksOK'
  BY NobodyAsks DEF ServeArchive, Becomes, EventRefused, StreamsInv
<1>2. CASE UNCHANGED eventDb
  BY <1>1, <1>2, DbRests
<1>3. CASE Changeable(e) /\ Becomes(i, e, row)
  <2>1. e \in Existing /\ eventDb.event[e] \in EventRow
    BY <1>3 DEF Changeable, StreamsInv, RowsOK
  <2>2. /\ row \in EventRow /\ row.hours = eventDb.event[e].hours
        /\ row.seats = eventDb.event[e].seats /\ row.streamed = eventDb.event[e].streamed
    BY <2>1 DEF EventRow
  <2> HIDE DEF row, e
  <2> QED
    BY <1>1, <1>3, <2>1, <2>2, OtherColumn DEF Becomes
<1> QED
  BY <1>2, <1>3 DEF ServeArchive, EventRefused

LEMMA StreamsAfterCover ==
  ASSUME DbOK, StreamsInv, NEW i \in DOMAIN calls, NEW e, NEW c, Changeable(e),
         SetCover(i, e, c), c = Null \/ c = i
  PROVE  StreamsInv'
<1> DEFINE row == [eventDb.event[e] EXCEPT !.cover = c]
<1>1. EventAsksOK'
  BY NobodyAsks DEF SetCover, StreamsInv
<1>2. e \in Existing /\ eventDb.event[e] \in EventRow
  BY DEF Changeable, StreamsInv, RowsOK
<1>3. i \in Nat
  BY CallsLen DEF StreamsInv, EventAsksOK, CallsTyped
<1>4. /\ row \in EventRow /\ row.hours = eventDb.event[e].hours
      /\ row.seats = eventDb.event[e].seats /\ row.streamed = eventDb.event[e].streamed
  BY <1>2, <1>3 DEF EventRow
<1>5. eventDb' = [eventDb EXCEPT !.event[e] = row]
  BY DEF SetCover
<1> HIDE DEF row
<1> QED
  BY <1>1, <1>2, <1>4, <1>5, OtherColumn

LEMMA OtherTables ==
  ASSUME DbOK, StreamsInv, NEW i \in DOMAIN calls,
         \/ ServeSession(i) \/ ServeEventReads(i) \/ StoreCover(i) \/ RemoveCover(i) \/ ServeField(i)
  PROVE  StreamsInv'
<1>1. EventAsksOK'
  <2>1. \E d : Done(i, d) \/ Refused(i) \/ RefusedAs(i, d) \/ Began(i, d)
    BY DEF ServeSession, ServeEventReads, StoreCover, RemoveCover, ServeField, EventRefused
  <2> QED
    BY <2>1, NobodyAsks DEF StreamsInv
<1>2. eventDb'.event = eventDb.event /\ eventDb'.stream = eventDb.stream
  BY DEF ServeSession, ServeEventReads, StoreCover, RemoveCover, ServeField, EventRefused, DbOK,
         Tables, eventVars
<1> QED
  BY <1>1, <1>2, DbRests

LEMMA StreamsAfterPurge ==
  ASSUME DbOK, StreamsInv, NEW i \in DOMAIN calls, ServePurge(i)
  PROVE  StreamsInv'
<1> DEFINE e == calls[i].arg.id
<1>1. EventAsksOK'
  BY NobodyAsks DEF ServePurge, EventRefused, StreamsInv
<1>2. CASE EventRefused(i)
  BY <1>1, <1>2, DbRests DEF EventRefused
<1>3. CASE ~EventRefused(i)
  <2>1. /\ e \in Existing
        /\ eventDb' = [eventDb EXCEPT
             !.event[e] = Null,
             !.stream = [s \in Streams |-> IF s \in StreamsOf(e) THEN Null ELSE eventDb.stream[s]],
             !.field = [f \in Fields |-> IF f \in FieldsOf(e) THEN Null ELSE eventDb.field[f]]]
    BY <1>3, Zenon DEF ServePurge
  <2> HIDE DEF e
  <2>2. /\ eventDb'.event = [eventDb.event EXCEPT ![e] = Null]
        /\ eventDb'.stream = [s \in Streams |-> IF s \in StreamsOf(e) THEN Null ELSE eventDb.stream[s]]
    BY <2>1 DEF DbOK, Tables
  <2>3. /\ \A x \in Events : eventDb'.event[x] = IF x = e THEN Null ELSE eventDb.event[x]
        /\ \A s \in Streams : eventDb'.stream[s] = IF s \in StreamsOf(e) THEN Null
                                                   ELSE eventDb.stream[s]
    BY <2>2 DEF DbOK
  <2>4. \A x \in Events : x \in Existing' <=> x \in Existing /\ x # e
    BY <2>3 DEF Existing
  <2>5. \A s \in Streams : eventDb'.stream[s] # Null =>
          /\ eventDb.stream[s] # Null /\ eventDb'.stream[s] = eventDb.stream[s]
          /\ eventDb.stream[s].event # e
    BY <2>3 DEF StreamsOf
  <2>6. RowsOK'
    BY <2>3, <2>4, <2>5 DEF StreamsInv, RowsOK, Existing
  <2>7. \A s \in Streams : eventDb'.stream[s] # Null => WithinEvent(s)'
    BY <2>3, <2>4, <2>5 DEF StreamsInv, SharesOK, WithinEvent, Existing
  <2>8. ASSUME NEW x \in Existing', eventDb'.event[x].streamed
        PROVE  eventDb'.event[x].seats = Seats(StreamsOf(x)', eventDb'.stream)
    <3>1. x \in Existing /\ x # e /\ eventDb'.event[x] = eventDb.event[x]
      BY <2>3, <2>4 DEF Existing
    <3>2. StreamsOf(x)' = StreamsOf(x)
      BY <2>3, <2>5, <3>1 DEF StreamsOf
    <3>3. \A s \in StreamsOf(x) : eventDb'.stream[s].seats = eventDb.stream[s].seats
      BY <2>3, <3>1 DEF StreamsOf
    <3>4. Seats(StreamsOf(x), eventDb'.stream) = Seats(StreamsOf(x), eventDb.stream)
      BY <3>3, SameSeats
    <3> QED
      BY <2>8, <3>1, <3>2, <3>4 DEF StreamsInv, SharesOK
  <2> QED
    BY <1>1, <2>6, <2>7, <2>8 DEF StreamsInv, SharesOK
<1> QED
  BY <1>2, <1>3

\* The Event gets the seats of the saved stream and of its others.
LEMMA StreamIsSaved ==
  ASSUME DbOK, StreamsInv, EventAsksOK', NEW e \in Existing, NEW s \in Streams,
         NEW new \in StreamRow, new.event = e, new.hours \subseteq eventDb.event[e].hours,
         eventDb.stream[s] = Null \/ s \in StreamsOf(e),
         NEW others, others = StreamsOf(e) \ {s},
         NEW row, row = Streamed(eventDb.event[e], new.seats + Seats(others, eventDb.stream)),
         eventDb' = [eventDb EXCEPT !.stream[s] = new, !.event[e] = row]
  PROVE  StreamsInv'
<1>1. /\ \A t \in others : eventDb.stream[t].seats \in Nat
      /\ IsFiniteSet(others) /\ s \notin others /\ others \subseteq Streams
      /\ new.seats \in Nat /\ new # Null
  <2>1. \A t \in StreamsOf(e) : eventDb.stream[t] \in StreamRow
    BY DEF StreamsInv, RowsOK, StreamsOf
  <2>2. others \in SUBSET Streams
    BY DEF StreamsOf
  <2>3. IsFiniteSet(others)
    BY <2>2, FS_Subset, StreamBasics
  <2>4. new.seats \in SeatCounts /\ \A t \in others : eventDb.stream[t].seats \in SeatCounts
    BY <2>1 DEF StreamRow
  <2> QED
    BY <2>2, <2>3, <2>4, StreamBasics
<1>2. PICK n : n = new.seats + Seats(others, eventDb.stream)
  OBVIOUS
<1>3. n \in Nat
  BY <1>1, <1>2, SeatsAreFinite
<1>4. row \in EventRow /\ row.streamed /\ row.seats = n /\ row.hours = eventDb.event[e].hours
  <2>1. eventDb.event[e] \in EventRow
    BY DEF StreamsInv, RowsOK
  <2> QED
    BY <1>2, <1>3, <2>1 DEF Streamed, EventRow
<1>5. /\ eventDb'.stream = [eventDb.stream EXCEPT ![s] = new]
      /\ eventDb'.event = [eventDb.event EXCEPT ![e] = row]
  BY DEF DbOK, Tables
<1>6. /\ \A x \in Events : eventDb'.event[x] = IF x = e THEN row ELSE eventDb.event[x]
      /\ \A t \in Streams : eventDb'.stream[t] = IF t = s THEN new ELSE eventDb.stream[t]
  BY <1>5 DEF DbOK
<1>7. e \in Events /\ Existing' = Existing
  BY <1>4, <1>6, StreamBasics DEF Existing
<1>8. RowsOK'
  BY <1>4, <1>6, <1>7 DEF StreamsInv, RowsOK, Existing
<1>9. ASSUME NEW t \in Streams, eventDb'.stream[t] # Null
      PROVE  WithinEvent(t)'
  <2>1. CASE t = s
    <3>1. eventDb'.stream[t] = new /\ eventDb'.event[e] = row /\ e \in Existing'
      BY <1>6, <1>7, <2>1
    <3>2. e \in Existing' /\ row.streamed /\ new.hours \subseteq row.hours
      BY <1>4, <3>1
    <3> QED
      BY <3>1, <3>2, Zenon DEF WithinEvent
  <2>2. CASE t # s
    <3>1. eventDb'.stream[t] = eventDb.stream[t] /\ WithinEvent(t)
      BY <1>6, <1>9, <2>2 DEF StreamsInv, SharesOK
    <3>2. PICK x : x = eventDb.stream[t].event
      OBVIOUS
    <3>3. x \in Existing /\ x \in Events
      BY <3>1, <3>2 DEF WithinEvent, Existing
    <3>4. x \in Existing' /\ eventDb'.stream[t].event = x
      BY <1>7, <3>1, <3>2, <3>3
    <3>5. eventDb.event[x].streamed /\ eventDb.stream[t].hours \subseteq eventDb.event[x].hours
      BY <3>1, <3>2 DEF WithinEvent
    <3>6. eventDb'.event[x].streamed /\ eventDb.stream[t].hours \subseteq eventDb'.event[x].hours
      <4>1. CASE x = e
        <5>1. eventDb'.event[x] = row /\ row.hours = eventDb.event[x].hours
          BY <1>4, <1>6, <3>3, <4>1
        <5> QED
          BY <1>4, <3>5, <5>1
      <4>2. CASE x # e
        <5>1. eventDb'.event[x] = eventDb.event[x]
          BY <1>6, <3>3, <4>2
        <5> QED
          BY <3>5, <5>1
      <4> QED
        BY <4>1, <4>2
    <3>7. /\ eventDb'.stream[t].event \in Existing'
          /\ eventDb'.event[eventDb'.stream[t].event].streamed
          /\ eventDb'.stream[t].hours \subseteq eventDb'.event[eventDb'.stream[t].event].hours
      BY <3>1, <3>4, <3>6
    <3> QED
      BY <3>7, Zenon DEF WithinEvent
  <2> QED
    BY <2>1, <2>2
<1>10. eventDb'.event[e].seats = Seats(StreamsOf(e)', eventDb'.stream)
  <2>1. \A t \in Streams : t \in StreamsOf(e)' <=> t \in others \/ t = s
    BY <1>1, <1>6 DEF StreamsOf
  <2>2. StreamsOf(e)' = others \cup {s}
    <3>1. StreamsOf(e)' \subseteq Streams
      BY DEF StreamsOf
    <3> QED
      BY <1>1, <2>1, <3>1
  <2>3. PICK su : su = eventDb'.stream
    OBVIOUS
  <2>4. (\A t \in others : su[t] = eventDb.stream[t]) /\ su[s] = new
    BY <1>1, <1>6, <2>3
  <2>5. Seats(others, su) = Seats(others, eventDb.stream)
    BY <2>4, SameSeats
  <2>6. (\A t \in others : su[t].seats \in Nat) /\ su[s].seats \in Nat
    BY <1>1, <2>4
  <2>7. Seats(others \cup {s}, su) = su[s].seats + Seats(others, su)
    BY <1>1, <2>6, OneMoreStream
  <2> QED
    BY <1>2, <1>4, <1>6, <1>7, <2>2, <2>3, <2>4, <2>5, <2>7
<1>11. ASSUME NEW x \in Existing', eventDb'.event[x].streamed
       PROVE  eventDb'.event[x].seats = Seats(StreamsOf(x)', eventDb'.stream)
  <2>1. CASE x = e
    BY <1>10, <2>1
  <2>2. CASE x # e
    <3>1. x \in Existing /\ x \in Events /\ eventDb'.event[x] = eventDb.event[x]
      BY <1>6, <1>7, <2>2 DEF Existing
    <3>2. s \notin StreamsOf(x)
      BY <2>2 DEF StreamsOf
    <3>3. StreamsOf(x)' = StreamsOf(x)
      BY <1>6, <2>2, <3>2 DEF StreamsOf
    <3>4. \A t \in StreamsOf(x) : eventDb'.stream[t].seats = eventDb.stream[t].seats
      BY <1>6, <3>2 DEF StreamsOf
    <3>5. Seats(StreamsOf(x), eventDb'.stream) = Seats(StreamsOf(x), eventDb.stream)
      BY <3>4, SameSeats
    <3> QED
      BY <1>11, <3>1, <3>3, <3>5 DEF StreamsInv, SharesOK
  <2> QED
    BY <2>1, <2>2
<1> QED
  BY <1>8, <1>9, <1>11 DEF StreamsInv, SharesOK

LEMMA StreamsAfterStream ==
  ASSUME DbOK, StreamsInv, NEW i \in DOMAIN calls, ServeStream(i)
  PROVE  StreamsInv'
<1>1. EventAsksOK'
  BY NobodyAsks DEF ServeStream, EventRefused, StreamsInv
<1>2. CASE EventRefused(i)
  BY <1>1, <1>2, DbRests DEF EventRefused
<1>3. CASE ~EventRefused(i)
  <2>1. PICK e, s, new :
          /\ e = calls[i].arg.id /\ s = calls[i].arg.stream
          /\ new = [event |-> e, hours |-> calls[i].arg.hours, seats |-> calls[i].arg.seats]
    OBVIOUS
  <2>2. PICK others, row :
          /\ others = StreamsOf(e) \ {s}
          /\ row = Streamed(eventDb.event[e], new.seats + Seats(others, eventDb.stream))
    OBVIOUS
  <2>3. /\ eventDb' = [eventDb EXCEPT !.stream[s] = new, !.event[e] = row]
        /\ e \in Existing /\ new.hours \subseteq eventDb.event[e].hours
        /\ eventDb.stream[s] = Null \/ s \in StreamsOf(e)
    BY <1>3, <2>1, <2>2, Zenon DEF ServeStream, Changeable
  <2>4. s \in Streams /\ new \in StreamRow /\ new.event = e
    <3>1. EventAskOK("saveStream", calls[i].arg)
      BY DEF ServeStream, Waits, StreamsInv, EventAsksOK
    <3>2. s \in Streams /\ calls[i].arg.hours \in Spans /\ calls[i].arg.seats \in SeatCounts
      BY <2>1, <3>1 DEF EventAskOK
    <3>3. e \in Events
      BY <2>3 DEF Existing
    <3> QED
      BY <2>1, <3>2, <3>3 DEF StreamRow
  <2> QED
    BY <1>1, <2>2, <2>3, <2>4, StreamIsSaved
<1> QED
  BY <1>2, <1>3

-----------------------------------------------------------------------------
(* What is asked for: hours, seats and streams that there are. *)
\* A call is over, and two follow it.
Followed(i, n, c, d) ==
  /\ CallsTyped' /\ DOMAIN calls' = DOMAIN calls \cup {n + 1, n + 2}
  /\ calls'[n + 1] = c /\ calls'[n + 2] = d
  /\ calls'[i].phase = "over" /\ calls'[i].op = calls[i].op
  /\ \A j \in DOMAIN calls : j # i => calls'[j] = calls[j]

LEMMA BothAppended ==
  ASSUME CallsTyped, NEW i \in DOMAIN calls, NEW o, NEW q, NEW a,
         calls' = Append(Append(Over(i), Call(o, a)), Call(q, a))
  PROVE  Followed(i, Len(calls), Call(o, a), Call(q, a))
<1>1. PICK P, A, D : /\ o \in P /\ a \in A /\ Null \in A \cap D
                     /\ calls \in Seq(CallShape(P, A, D))
  BY Widened
<1>2. PICK S : S = CallShape(P \cup {q}, A, D)
  OBVIOUS
<1>3. calls \in Seq(S)
  <2>1. CallShape(P, A, D) \subseteq S
    BY <1>2 DEF CallShape
  <2> QED
    BY <1>1, <2>1, SeqGrows
<1>4. PICK u : u = Over(i)
  OBVIOUS
<1>5. /\ u \in Seq(S) /\ Len(u) = Len(calls) /\ u[i].phase = "over" /\ u[i].op = calls[i].op
      /\ \A j \in DOMAIN calls : j # i => u[j] = calls[j]
  <2>1. PICK b \in A, p \in {"over", "open", "done"}, l \in BOOLEAN, d \in D :
          u = Became(i, b, p, l, d) /\ p = "over"
    BY <1>1, <1>4 DEF Over
  <2>2. u[i].op = calls[i].op
    BY <1>4 DEF Over, Became, CallOf
  <2> QED
    BY <1>2, <1>3, <2>1, <2>2, BecameTyped
<1>6. PICK c, d : c = Call(o, a) /\ d = Call(q, a) /\ {c, d} \subseteq S
  BY <1>1, <1>2, CallIsTyped
<1>7. PICK n : n = Len(u) /\ n = Len(calls) /\ n \in Nat /\ DOMAIN calls = 1..n
  BY <1>3, <1>5
<1>8. /\ calls' \in Seq(S) /\ Len(calls') = n + 2
      /\ \A j \in 1..n : calls'[j] = u[j]
      /\ calls'[n + 1] = c /\ calls'[n + 2] = d
  <2>1. u \in Seq(S) /\ c \in S /\ d \in S /\ n = Len(u) /\ calls' = Append(Append(u, c), d)
    BY <1>4, <1>5, <1>6, <1>7
  <2> QED
    BY <2>1, TwiceAppended
<1>9. DOMAIN calls' = DOMAIN calls \cup {n + 1, n + 2}
  <2>1. DOMAIN calls' = 1..(n + 2)
    BY <1>8
  <2>2. 1..(n + 2) = (1..n) \cup {n + 1, n + 2}
    BY <1>7
  <2> QED
    BY <1>7, <2>1, <2>2
<1>10. CallsTyped'
  BY <1>2, <1>8 DEF CallsTyped
<1> QED
  BY <1>5, <1>6, <1>7, <1>8, <1>9, <1>10 DEF Followed

LEMMA BothAsk ==
  ASSUME EventAsksOK, NEW i \in DOMAIN calls, NEW o, NEW q, NEW a,
         EventAskOK(o, a), EventAskOK(q, a),
         calls' = Append(Append(Over(i), Call(o, a)), Call(q, a))
  PROVE  EventAsksOK'
<1>1. PICK n : n = Len(calls)
  OBVIOUS
<1>2. Followed(i, n, Call(o, a), Call(q, a))
  BY <1>1, BothAppended DEF EventAsksOK
<1>3. /\ Call(o, a).op = o /\ Call(o, a).arg = a
      /\ Call(q, a).op = q /\ Call(q, a).arg = a
  BY DEF Call, CallOf
<1>4. \A j \in DOMAIN calls' : calls'[j].phase = "sent" =>
        \/ j \in DOMAIN calls /\ calls'[j] = calls[j]
        \/ calls'[j].op = o /\ calls'[j].arg = a
        \/ calls'[j].op = q /\ calls'[j].arg = a
  BY <1>2, <1>3 DEF Followed
<1>5. \A j \in DOMAIN calls' : calls'[j].phase = "sent" => EventAskOK(calls'[j].op, calls'[j].arg)
  BY <1>4 DEF EventAsksOK
<1> QED
  BY <1>2, <1>5 DEF Followed, EventAsksOK, EventAskOK, ChangesOK

LEMMA SettingsAsk ==
  ASSUME StreamsInv, NEW op, NEW id, NEW more, Settings(op, id, more),
         op = "createEvent" => /\ id \in Events /\ more.status \in EventStatuses
                               /\ more.hours \in Spans /\ more.seats \in Nat,
         op = "updateEvent" => ChangesOK(more), op # "saveStream"
  PROVE  StreamsInv'
<1>1. PICK a : a = [mount |-> editor.mount, section |-> "settings", id |-> id, more |-> more]
  OBVIOUS
<1>2. a.id = id /\ a.more = more
  BY <1>1
<1>3. EventAskOK(op, a)
  BY <1>2 DEF EventAskOK
<1>4. calls' = Append(calls, Call(op, a)) /\ UNCHANGED eventDb
  BY <1>1 DEF Settings, Ask
<1> QED
  BY <1>3, <1>4, OneAsks, DbRests DEF StreamsInv

LEMMA SaveEventAsks ==
  ASSUME StreamsInv, NEW e \in Events, NEW st \in EventStatuses, NEW h \in Spans, NEW n \in Nat,
         NEW c \in BOOLEAN, SaveEvent(e, st, h, n, c)
  PROVE  StreamsInv'
<1>1. PICK f : f = [status |-> st, hours |-> h, seats |-> n, cover |-> c]
  OBVIOUS
<1>2. f.status = st /\ f.hours = h /\ f.seats = n /\ DOMAIN f = {"status", "hours", "seats", "cover"}
  BY <1>1
<1>3. Settings("createEvent", e, f) \/ Settings("updateEvent", e, f)
  BY <1>1 DEF SaveEvent
<1>4. ChangesOK(f)
  BY <1>2 DEF ChangesOK
<1> QED
  BY <1>2, <1>3, <1>4, SettingsAsk

LEMMA PlainAsks ==
  ASSUME StreamsInv, NEW o, o \notin {"createEvent", "updateEvent", "saveStream"}, NEW a,
         \/ Ask(o, a) \/ calls' = Append(calls, OthersCall(o, a))
         \/ \E i \in DOMAIN calls : TakeAndAsk(i, o, a),
         UNCHANGED eventDb
  PROVE  StreamsInv'
<1>1. EventAskOK(o, a)
  BY DEF EventAskOK
<1> QED
  BY <1>1, OneAsks, DbRests DEF StreamsInv, Ask, TakeAndAsk

LEMMA StreamsAfterClick ==
  ASSUME StreamsInv, EventClicks
  PROVE  StreamsInv'
<1>1. UNCHANGED eventDb
  BY ClicksChangeNothing
<1>2. CASE Logout \/ ToggleArchive \/ CloseEventEditor
  BY <1>1, <1>2, PlainAsks DEF Logout, ToggleArchive, CloseEventEditor
<1>3. ASSUME CompleteEvent PROVE StreamsInv'
  <2>1. PICK f : f = [status |-> "COMPLETED", cover |-> FALSE]
    OBVIOUS
  <2>2. ChangesOK(f)
    BY <2>1 DEF ChangesOK
  <2>3. Settings("updateEvent", editor.event.id, f)
    BY <1>3, <2>1 DEF CompleteEvent
  <2> QED
    BY <2>2, <2>3, SettingsAsk
<1>4. CASE DeleteCover \/ Archive \/ Purge
  BY <1>4, SettingsAsk DEF DeleteCover, Archive, Purge
<1>5. ASSUME SaveConfig PROVE StreamsInv'
  <2>1. PICK f : f = [config |-> ~editor.event.config, cover |-> FALSE]
    OBVIOUS
  <2>2. ChangesOK(f)
    BY <2>1 DEF ChangesOK
  <2>3. PICK a : a = [mount |-> editor.mount, section |-> "config", id |-> editor.event.id, more |-> f]
    OBVIOUS
  <2>4. a.more = f
    BY <2>3
  <2>5. EventAskOK("updateEvent", a)
    BY <2>2, <2>4 DEF EventAskOK
  <2>6. calls' = Append(calls, Call("updateEvent", a))
    BY <1>5, <2>1, <2>3 DEF SaveConfig, Ask
  <2> QED
    BY <1>1, <2>5, <2>6, OneAsks, DbRests DEF StreamsInv
<1>6. ASSUME NEW op \in {"saveField", "deactivateField"}, NEW f, FieldCall(op, f) PROVE StreamsInv'
  BY <1>1, <1>6, PlainAsks DEF FieldCall
<1>7. ASSUME NEW role \in Roles, Login(role) PROVE StreamsInv'
  BY <1>1, <1>7, PlainAsks DEF Login
<1>8. ASSUME UNCHANGED shell PROVE StreamsInv'
  <2>1. UNCHANGED calls
    BY <1>8 DEF shell
  <2> QED
    BY <1>1, <2>1, DbRests DEF StreamsInv, EventAsksOK, CallsTyped, EventAskOK, ChangesOK
<1>9. ASSUME NEW e \in Events, NEW st \in EventStatuses, NEW h \in Spans, NEW c \in BOOLEAN,
             SaveEvent(e, st, h, FirstCount, c)
      PROVE  StreamsInv'
  <2>1. FirstCount \in Nat
    BY StreamBasics DEF FirstCount
  <2> QED
    BY <1>9, <2>1, SaveEventAsks
<1>10. ASSUME NEW s \in Streams, NEW h \in Spans, NEW n \in SeatCounts, SaveStream(s, h, n)
       PROVE  StreamsInv'
  <2>1. PICK a : a = [mount |-> editor.mount, id |-> editor.event.id, stream |-> s,
                      hours |-> h, seats |-> n, isNew |-> editor.stream = Null]
    OBVIOUS
  <2>2. a.stream = s /\ a.hours = h /\ a.seats = n
    BY <2>1
  <2>3. EventAskOK("saveStream", a)
    BY <2>2 DEF EventAskOK
  <2>4. calls' = Append(calls, Call("saveStream", a))
    BY <1>10, <2>1 DEF SaveStream, Ask
  <2> QED
    BY <1>1, <2>3, <2>4, OneAsks, DbRests DEF StreamsInv
<1>11. "REGISTRATION_OPEN" \in EventStatuses /\ Longest \in Spans /\ FALSE \in BOOLEAN
  BY StreamBasics DEF EventStatuses
<1>12. /\ CloseFieldForm => UNCHANGED shell
       /\ \A e : OpenEditor(e) => UNCHANGED shell
       /\ \A f : OpenFieldForm(f) => UNCHANGED shell
       /\ \A s : EditStream(s) => UNCHANGED shell
  BY DEF CloseFieldForm, OpenEditor, OpenFieldForm, EditStream
<1>13. /\ SaveField => \E f : FieldCall("saveField", f)
       /\ \A f : DeactivateField(f) => FieldCall("deactivateField", f)
  BY DEF SaveField, DeactivateField
<1> QED
  BY <1>2, <1>3, <1>4, <1>5, <1>6, <1>7, <1>8, <1>9, <1>10, <1>11, <1>12, <1>13 DEF EventClicks

LEMMA StreamsAfterOthers ==
  ASSUME StreamsInv, OtherEditor
  PROVE  StreamsInv'
<1>1. UNCHANGED eventDb
  BY DEF OtherEditor, eventVars
<1>2. CASE calls' = Append(calls, OthersCall("logout", Null))
  BY <1>1, <1>2, PlainAsks
<1>3. CASE \E e \in Existing : \E op \in {"archive", "deleteCover", "uploadCover"} :
             calls' = Append(calls, OthersCall(op, [id |-> e]))
  BY <1>1, <1>3, PlainAsks
<1>4. ASSUME NEW e \in Existing, NEW h \in Spans, NEW n \in SeatCounts,
             calls' = Append(calls, OthersCall("updateEvent",
                              [id |-> e, more |-> [hours |-> h, seats |-> n]]))
      PROVE  StreamsInv'
  <2>1. PICK f, a : f = [hours |-> h, seats |-> n] /\ a = [id |-> e, more |-> f]
    OBVIOUS
  <2>2. ChangesOK(f)
    BY <2>1, StreamBasics DEF ChangesOK
  <2>3. EventAskOK("updateEvent", a)
    <3>1. a.more = f
      BY <2>1
    <3> QED
      BY <2>2, <3>1 DEF EventAskOK
  <2>4. calls' = Append(calls, OthersCall("updateEvent", a))
    BY <1>4, <2>1
  <2> QED
    BY <1>1, <2>3, <2>4, OneAsks, DbRests DEF StreamsInv
<1> QED
  BY <1>2, <1>3, <1>4 DEF OtherEditor

LEMMA StreamsAfterReply ==
  ASSUME StreamsInv, NEW i \in DOMAIN calls, EventReceives(i)
  PROVE  StreamsInv'
<1>1. UNCHANGED eventDb
  BY ReceivedChangesNothing
<1>2. ASSUME Take(i) PROVE StreamsInv'
  BY <1>1, <1>2, NobodyAsks, DbRests DEF Take, StreamsInv
<1>3. CASE EventSaved(i)
  BY <1>1, <1>2, <1>3, PlainAsks DEF EventSaved
<1>4. CASE Purged(i) \/ FieldChanged(i)
  BY <1>1, <1>4, PlainAsks DEF Purged, FieldChanged
<1>5. CASE StreamSaved(i)
  <2>1. EventAskOK("streams", calls[i].arg) /\ EventAskOK("event", calls[i].arg)
    BY DEF EventAskOK
  <2>2. EventAsksOK'
    BY <1>5, <2>1, BothAsk DEF StreamSaved, StreamsInv
  <2> QED
    BY <1>1, <2>2, DbRests
<1>6. CASE \/ SessionArrives(i) \/ ShowEvents(i) \/ SettingsFail(i) \/ ShowFields(i)
           \/ ShowStreams(i) \/ StreamsFail(i)
  BY <1>2, <1>6 DEF SessionArrives, ShowEvents, SettingsFail, ShowFields, ShowStreams, StreamsFail
<1> QED
  BY <1>3, <1>4, <1>5, <1>6 DEF EventReceives

LEMMA StreamsStepKeeps ==
  ASSUME DbOK, StreamsInv, EventNext
  PROVE  StreamsInv'
<1>1. ASSUME NEW i \in DOMAIN calls, ServeUpload(i) PROVE StreamsInv'
  <2>1. CASE Changeable(calls[i].arg.id) /\ SetCover(i, calls[i].arg.id, i)
    BY <2>1, StreamsAfterCover
  <2>2. CASE eventDb' = [eventDb EXCEPT !.files = eventDb.files \ {i}] /\ Refused(i)
    <3>1. eventDb'.event = eventDb.event /\ eventDb'.stream = eventDb.stream
      BY <2>2 DEF DbOK, Tables
    <3> QED
      BY <2>2, <3>1, NobodyAsks, DbRests DEF StreamsInv
  <2> QED
    BY <1>1, <2>1, <2>2 DEF ServeUpload
<1>2. ASSUME NEW i \in DOMAIN calls, ServeDeleteCover(i) PROVE StreamsInv'
  <2>1. CASE EventRefused(i)
    BY <2>1, NobodyAsks, DbRests DEF EventRefused, StreamsInv
  <2> QED
    BY <1>2, <2>1, StreamsAfterCover DEF ServeDeleteCover
<1>3. ASSUME NEW i \in DOMAIN calls, EventServes(i) PROVE StreamsInv'
  BY <1>1, <1>2, <1>3, OtherTables, StreamsAfterCreate, StreamsAfterUpdate, StreamsAfterArchive,
     StreamsAfterPurge, StreamsAfterStream, Zenon DEF EventServes
<1>4. ASSUME NEW i \in DOMAIN calls, LoseCall(i), UNCHANGED eventVars PROVE StreamsInv'
  BY <1>4, NobodyAsks, DbRests DEF StreamsInv, eventVars
<1> QED
  BY <1>3, <1>4, StreamsAfterClick, StreamsAfterOthers, StreamsAfterReply, Zenon DEF EventNext

LEMMA StreamsRest ==
  ASSUME StreamsInv, UNCHANGED <<shell, eventVars>>
  PROVE  StreamsInv'
<1>1. UNCHANGED calls /\ UNCHANGED eventDb
  BY DEF shell, eventVars
<1> QED
  BY <1>1, DbRests DEF StreamsInv, EventAsksOK, CallsTyped, EventAskOK, ChangesOK

LEMMA StreamsAtFirst ==
  ASSUME EventStart
  PROVE  RowsOK /\ SharesOK
<1>1. PICK first, saved, stream, new :
        /\ first = CHOOSE e \in SavedEvents : TRUE
        /\ saved = IF Uses("streams") THEN SavedStreams ELSE {}
        /\ stream = [s \in Streams |-> IF s \in saved
                                       THEN [event |-> first, hours |-> Longest, seats |-> FirstCount]
                                       ELSE Null]
        /\ new = [e \in SavedEvents |-> NewEvent(e, "REGISTRATION_CLOSED", Longest, FirstCount)]
  OBVIOUS
<1>2. /\ eventDb.event = [e \in Events |-> IF e \notin SavedEvents THEN Null
                                           ELSE IF e = first /\ saved # {}
                                           THEN Streamed(new[e], Seats(saved, stream))
                                           ELSE new[e]]
      /\ eventDb.stream = stream
  BY <1>1 DEF EventStart
<1>3. saved \subseteq Streams /\ (saved # {} => first \in SavedEvents)
  BY <1>1, StreamBasics
<1>4. Longest \in Spans /\ FirstCount \in SeatCounts /\ FirstCount \in Nat
  BY StreamBasics DEF FirstCount
<1>5. \A s \in saved : /\ stream[s] = [event |-> first, hours |-> Longest, seats |-> FirstCount]
                       /\ stream[s] \in StreamRow /\ stream[s].event = first
                       /\ stream[s].hours = Longest /\ stream[s].seats \in Nat
  <2>1. first \in Events \/ saved = {}
    BY <1>3, EventBasics
  <2> QED
    BY <1>1, <1>3, <1>4, <2>1 DEF StreamRow
<1>6. \A s \in Streams : stream[s] # Null => s \in saved
  BY <1>1
<1>7. IsFiniteSet(saved)
  BY <1>3, FS_Subset, StreamBasics
<1>8. PICK n : n = Seats(saved, stream) /\ n \in Nat
  BY <1>5, <1>7, SeatsAreFinite
<1>9. \A e \in SavedEvents :
        /\ new[e] \in EventRow /\ new[e].hours = Longest /\ ~new[e].streamed
        /\ Streamed(new[e], n) \in EventRow /\ Streamed(new[e], n).hours = Longest
        /\ Streamed(new[e], n).streamed /\ Streamed(new[e], n).seats = n
  <2> SUFFICES ASSUME NEW e \in SavedEvents
               PROVE  /\ new[e] \in EventRow /\ new[e].hours = Longest /\ ~new[e].streamed
                      /\ Streamed(new[e], n) \in EventRow /\ Streamed(new[e], n).hours = Longest
                      /\ Streamed(new[e], n).streamed /\ Streamed(new[e], n).seats = n
    OBVIOUS
  <2>1. new[e] = NewEvent(e, "REGISTRATION_CLOSED", Longest, FirstCount)
    BY <1>1
  <2>2. new[e] \in EventRow /\ new[e].hours = Longest /\ ~new[e].streamed
    BY <1>4, <2>1, EventBasics DEF NewEvent, EventRow, EventStatuses
  <2> QED
    BY <1>8, <2>2 DEF Streamed, EventRow
<1>10. \A e \in Existing : /\ e \in SavedEvents
                           /\ eventDb.event[e] = IF e = first /\ saved # {} THEN Streamed(new[e], n)
                                                 ELSE new[e]
  BY <1>2, <1>8 DEF Existing
<1>11. \A e \in SavedEvents : e \in Existing
  BY <1>2, <1>8, <1>9, StreamBasics, EventBasics DEF Existing
<1>12. RowsOK
  BY <1>2, <1>5, <1>6, <1>9, <1>10 DEF RowsOK
<1>13. saved # {} => /\ first \in Existing /\ eventDb.event[first].streamed
                     /\ eventDb.event[first].hours = Longest /\ eventDb.event[first].seats = n
  BY <1>3, <1>9, <1>10, <1>11
<1>14. \A s \in Streams : eventDb.stream[s] # Null => WithinEvent(s)
  BY <1>2, <1>5, <1>6, <1>13 DEF WithinEvent
<1>15. ASSUME NEW e \in Existing, eventDb.event[e].streamed
       PROVE  eventDb.event[e].seats = Seats(StreamsOf(e), eventDb.stream)
  <2>1. e = first /\ saved # {}
    BY <1>9, <1>10, <1>15
  <2>2. \A s \in Streams : s \in StreamsOf(e) <=> s \in saved
    <3>1. \A s \in saved : stream[s] # Null
      BY <1>5, StreamBasics
    <3> QED
      BY <1>2, <1>5, <1>6, <2>1, <3>1 DEF StreamsOf
  <2>3. StreamsOf(e) = saved
    <3>1. StreamsOf(e) \subseteq Streams
      BY DEF StreamsOf
    <3> QED
      BY <1>3, <2>2, <3>1
  <2> QED
    BY <1>2, <1>8, <1>13, <2>1, <2>3
<1> QED
  BY <1>12, <1>14, <1>15 DEF SharesOK

LEMMA StreamsStart ==
  ASSUME EventStart, Mounted(EventFirst)
  PROVE  StreamsInv
<1>1. calls = <<>> \/ calls = <<Call("session", Null)>>
  BY DEF Mounted, EventFirst
<1>2. CallsTyped /\ \A i \in DOMAIN calls : calls[i].op = "session"
  BY <1>1, FirstCall
<1>3. EventAsksOK
  BY <1>2 DEF EventAsksOK, EventAskOK
<1> QED
  BY <1>3, StreamsAtFirst DEF StreamsInv

LEMMA StreamsTell ==
  ASSUME SharesOK
  PROVE  StreamsFitEvent
<1>1. \A e \in Existing : \A s \in StreamsOf(e) : eventDb.stream[s].hours \subseteq eventDb.event[e].hours
  BY DEF SharesOK, WithinEvent, StreamsOf
<1> QED
  BY <1>1 DEF SharesOK, StreamsFitEvent

LEMMA StreamsInvariant == EventSpec => []StreamsInv
<1>1. EventInit => EventInv /\ StreamsInv
  BY EventStarts, StreamsStart DEF EventInit
<1>2. EventInv /\ StreamsInv /\ [EventNext]_<<shell, eventVars>> => (EventInv /\ StreamsInv)'
  <2>1. EventInv /\ UNCHANGED <<shell, eventVars>> => EventInv'
    BY EditsQuietly DEF eventVars
  <2> QED
    BY <2>1, EventStepKeeps, StreamsStepKeeps, StreamsRest DEF EventInv
<1> QED
  BY <1>1, <1>2, PTL DEF EventSpec

\* Whatever is saved of an Event or of its streams while replies are on their
\* way, by whomever, the streams lie within its hours and add up to its seats.
THEOREM SeatsAreShared == EventSpec => []StreamsFitEvent
<1>1. StreamsInv => StreamsFitEvent
  BY StreamsTell DEF StreamsInv
<1> QED
  BY <1>1, StreamsInvariant, PTL
=============================================================================
