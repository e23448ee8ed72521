-------------------------- MODULE ScannerSyncProofs --------------------------
(***************************************************************************)
(* For any users, marks, registrations, flows and numbers of failures: what *)
(* the device and the server keep between them, whatever order the flows'  *)
(* awaits, lost replies, reloads, bundles and other devices come in.       *)
(***************************************************************************)
EXTENDS ScannerSync, TLAPS, FiniteSetTheorems,
        WellFoundedInduction

USE MarksAssumption, BoundsAssumption, NoOneAssumption, NoTimeAssumption

\* A flow that holds what the server gave of the bundle.
Fetching == {"rows", "arrived", "replace"}

\* A flow that holds marks it read.
Sending == {"send", "sent", "serving", "reset"}

\* Where flow f may be, with bundle b on its way.
PlacedAt(f, l, b) ==
  /\ l \in PCs
  /\ l \in Fetching \cup {"version"} => f \in {"prepare", "reconnect"}
  /\ l \in {"handoff", "ack"} => f = "handoff"
  /\ f = "handoff" => l \in {"idle", "handoff", "ack"}
  /\ l \in {"confirm", "revoke", "clear"} => f = "logout"
  /\ l = "list" => f = "load"
  /\ l \in Fetching => b \in Bundles
  /\ l \notin Fetching => b = NoBundle
  /\ l = "rows" => DOMAIN b.first = {}

FlowsPlaced ==
  /\ DOMAIN bundle = Flows
  /\ bundle = [f \in Flows |-> bundle[f]]
  /\ \A f \in Flows : PlacedAt(f, pc[f], bundle[f])
  /\ \A f \in Flows : pc[f] \notin Sending => rest[f] = {}

MarksPlaced ==
  /\ Marks \subseteq Clients
  /\ \A m \in Marks : marks[m].state # "unused" => marks[m].reg \in Regs

\* Sessions are of users, and so is the one a request was accepted under.
SessionsKnown ==
  /\ \A s \in live : sessions[s] \in Users
  /\ \A f \in Flows : pc[f] = "serving" =>
       auth[f] \in 1..MaxLogins /\ sessions[auth[f]] \in Users

\* A flush holds marks that were queued.
RestUsed ==
  \A f \in Flows : \A m \in rest[f] : marks[m].state # "unused"

\* A confirmation on its way is true of the server, and stays true.
ResultTrue(r) ==
  /\ marks[r.mark].state # "unused"
  /\ r.status \in Confirmed =>
       /\ StoredOnServer(r.mark)
       /\ r.first = regs[marks[r.mark].reg].first
       /\ r.first # NoTime

ResultsTrue == \A f \in Flows : \A r \in results[f] : ResultTrue(r)

\* A stored mark gave its registration a first attendance.
RowsDated == \A a \in rows : regs[a.item.reg].first # NoTime

PublishedSeen ==
  \A r \in Regs :
    /\ published[r].annulled # 0 => regs[r].status = "ANNULLED"
    /\ published[r].attended # 0 => regs[r].first # NoTime

\* A bundle, on the device or on its way, is of its version or later.
BundleOK(b) ==
  /\ b.version <= version
  /\ \A r \in DOMAIN b.first : b.first[r] \in {NoTime, regs[r].first}
  /\ \A r \in Regs :
       /\ published[r].annulled \in 1..b.version => r \notin DOMAIN b.first
       /\ published[r].attended \in 1..b.version /\ r \in DOMAIN b.first =>
            b.first[r] # NoTime

BundlesOK == BundleOK(cache) /\ \A f \in Flows : BundleOK(bundle[f])

HandoffStored ==
  \A f \in Flows :
    /\ pc[f] \in {"handoff", "ack"} => claim.mark \in Marks
    /\ pc[f] = "ack" =>
         cases[claim.mark] # NoCase /\ cases[claim.mark].why = claim.why

ServerInv == RowsDated /\ PublishedSeen

FlowInv == FlowsPlaced /\ SessionsKnown /\ HandoffStored

DataInv == MarksPlaced /\ RestUsed /\ ResultsTrue /\ BundlesOK /\ NoMarkLost

Inv == TypeOK /\ ServerInv /\ FlowInv /\ DataInv

-----------------------------------------------------------------------------
\* The parts of TypeOK, by who changes them.
ServerTypeOK ==
  /\ rows \subseteq [item : ItemOf(Regs), duplicate : BOOLEAN]
  /\ regs \in [Regs -> Registration]
  /\ version \in Nat \ {0}
  /\ published \in [Regs -> [annulled : Nat, attended : Nat]]

CasesTypeOK ==
  cases \in [Marks -> [why : Rejections \cup {"none"},
                       user : Users \cup {NoOne},
                       status : {"none", "OPEN", "RESOLVED"}]]

SessionTypeOK ==
  /\ sessions \in [1..MaxLogins -> Users \cup {NoOne}]
  /\ live \subseteq 1..MaxLogins
  /\ cookie \in 0..MaxLogins

MarkRecord == [state : Stored \cup Gone \cup {"unused"},
               why : Rejections \cup {"none"},
               reg : Regs \cup {NoOne},
               by : Users \cup {NoOne}]

MarksTypeOK == marks \in [Marks -> MarkRecord]

OwnerTypeOK == owner \in [user : Users \cup {NoOne}, valid : BOOLEAN]

CacheTypeOK == cache = NoBundle \/ cache \in Bundles

TabTypeOK ==
  /\ view \in {"loading", "login", "events", "scanner"}
  /\ csrf \in 0..MaxLogins
  /\ operator \in Users \cup {NoOne}

RequestTypeOK ==
  /\ rest \in [Flows -> SUBSET Marks]
  /\ batch \in [Flows -> SUBSET Marks]
  /\ auth \in [Flows -> 0..MaxLogins]
  /\ todo \in [Flows -> SUBSET Marks]
  /\ results \in [Flows -> SUBSET [mark : Marks,
                                   status : Confirmed \cup Rejections,
                                   first : Clients \cup {NoTime}]]
  /\ \A f \in Flows : todo[f] \subseteq batch[f] /\ batch[f] \subseteq rest[f]

PlaceTypeOK ==
  /\ pc \in [Flows -> PCs]
  /\ who \in [Flows -> Users \cup {NoOne}]
  /\ \A f \in Flows : bundle[f] = NoBundle \/ bundle[f] \in Bundles

ClaimTypeOK == claim \in [mark : Marks \cup {0}, why : Rejections \cup {"none"}]

HistoryTypeOK ==
  /\ late \subseteq [mark : Marks, user : Users]
  /\ counted \subseteq Marks
  /\ faults \in Nat

LEMMA TypeParts ==
  TypeOK <=>
    /\ ServerTypeOK /\ CasesTypeOK /\ SessionTypeOK /\ MarksTypeOK
    /\ OwnerTypeOK /\ CacheTypeOK /\ TabTypeOK /\ RequestTypeOK
    /\ PlaceTypeOK /\ ClaimTypeOK /\ HistoryTypeOK
BY Zenon DEF TypeOK, ServerTypeOK, CasesTypeOK, SessionTypeOK, MarksTypeOK, MarkRecord,
       OwnerTypeOK, CacheTypeOK, TabTypeOK, RequestTypeOK, PlaceTypeOK,
       ClaimTypeOK, HistoryTypeOK

LEMMA TypePartsNext ==
  ASSUME ServerTypeOK', CasesTypeOK', SessionTypeOK', MarksTypeOK',
         OwnerTypeOK', CacheTypeOK', TabTypeOK', RequestTypeOK',
         PlaceTypeOK', ClaimTypeOK', HistoryTypeOK'
  PROVE  TypeOK'
BY Zenon DEF TypeOK, ServerTypeOK, CasesTypeOK, SessionTypeOK, MarksTypeOK, MarkRecord,
       OwnerTypeOK, CacheTypeOK, TabTypeOK, RequestTypeOK, PlaceTypeOK,
       ClaimTypeOK, HistoryTypeOK

-----------------------------------------------------------------------------
\* What every step does to the server's tables.
LedgerGrows ==
  /\ rows \subseteq rows'
  /\ version <= version'
  /\ \A r \in Regs :
       /\ regs[r].first # NoTime => regs'[r].first = regs[r].first
       /\ regs[r].status = "ANNULLED" => regs'[r].status = "ANNULLED"
       /\ \/ published'[r].annulled = published[r].annulled
          \/ published'[r].annulled > version
       /\ \/ published'[r].attended = published[r].attended
          \/ published'[r].attended > version

ServerStep == ServerTypeOK' /\ RowsDated' /\ PublishedSeen' /\ LedgerGrows

LEMMA ServerStutters ==
  ASSUME ServerTypeOK, ServerInv, UNCHANGED <<ledgerVars, published>>
  PROVE  ServerStep
<1>1. rows' = rows /\ regs' = regs /\ version' = version /\ published' = published
  BY DEF ledgerVars
<1>2. ServerTypeOK' /\ RowsDated' /\ PublishedSeen'
  BY <1>1 DEF ServerTypeOK, ServerInv, RowsDated, PublishedSeen
<1>3. LedgerGrows
  BY <1>1 DEF ServerTypeOK, LedgerGrows
<1> QED BY <1>2, <1>3 DEF ServerStep

LEMMA RecordServerStep ==
  ASSUME ServerTypeOK, ServerInv, NEW i \in ItemOf(Regs), Record(i),
         published' = IF regs' = regs THEN published
                      ELSE [published EXCEPT ![i.reg].attended = version']
  PROVE  ServerStep /\ regs'[i.reg].first # NoTime /\ RecordedAs(i)'
<1> DEFINE duplicate == regs[i.reg].first # NoTime
           new == [item |-> i, duplicate |-> duplicate]
<1>1. /\ i.reg \in Regs /\ i.at \in Times /\ i.at \in Clients
      /\ new.item = i /\ new \in [item : ItemOf(Regs), duplicate : BOOLEAN]
      /\ rows' = rows \cup {new}
      /\ regs[i.reg].status = "ACTIVE"
      /\ regs' = IF duplicate THEN regs ELSE [regs EXCEPT ![i.reg].first = i.at]
      /\ version' = IF duplicate THEN version ELSE version + 1
  BY DEF Record, ItemOf
<1> HIDE DEF new
<1>2. /\ version' \in Nat \ {0} /\ version <= version'
      /\ regs' \in [Regs -> Registration]
      /\ regs'[i.reg].first # NoTime
      /\ \A r \in Regs : regs'[r].status = regs[r].status
      /\ \A r \in Regs : regs[r].first # NoTime => regs'[r].first = regs[r].first
  BY <1>1 DEF ServerTypeOK, Registration
<1>3. regs' = regs => version' = version
  BY <1>1 DEF ServerTypeOK, Registration
<1>4. regs' # regs => version' = version + 1
  BY <1>1
<1>5. /\ published' \in [Regs -> [annulled : Nat, attended : Nat]]
      /\ \A r \in Regs : published'[r].annulled = published[r].annulled
      /\ \A r \in Regs : \/ published'[r].attended = published[r].attended
                         \/ r = i.reg /\ published'[r].attended = version + 1
  BY <1>1, <1>2, <1>4 DEF ServerTypeOK
<1>6. rows' \subseteq [item : ItemOf(Regs), duplicate : BOOLEAN] /\ rows \subseteq rows'
  BY <1>1 DEF ServerTypeOK
<1>7. ServerTypeOK'
  BY <1>2, <1>5, <1>6 DEF ServerTypeOK
<1>8. RowsDated'
  <2> SUFFICES ASSUME NEW a \in rows' PROVE regs'[a.item.reg].first # NoTime
    BY DEF RowsDated
  <2>1. CASE a = new
    BY <1>1, <1>2, <2>1
  <2>2. CASE a \in rows
    <3>1. a.item.reg \in Regs /\ regs[a.item.reg].first # NoTime
      BY <2>2 DEF ServerTypeOK, ServerInv, RowsDated, ItemOf
    <3> QED BY <3>1, <1>2
  <2> QED BY <1>1, <2>1, <2>2
<1>9. PublishedSeen'
  BY <1>2, <1>5 DEF ServerInv, PublishedSeen
<1>10. LedgerGrows
  BY <1>2, <1>5, <1>6 DEF LedgerGrows, ServerTypeOK
<1>11. RecordedAs(i)'
  BY <1>1 DEF RecordedAs
<1> QED BY <1>2, <1>7, <1>8, <1>9, <1>10, <1>11 DEF ServerStep

LEMMA AnnulServerStep ==
  ASSUME ServerTypeOK, ServerInv, NEW r \in Regs, AnnulRegistration(r),
         published' = [published EXCEPT ![r].annulled = version']
  PROVE  ServerStep
<1>1. /\ rows' = rows /\ version' = version + 1 /\ version' \in Nat \ {0}
      /\ regs' = [regs EXCEPT ![r].status = "ANNULLED"]
  BY DEF AnnulRegistration, ServerTypeOK
<1>2. /\ regs' \in [Regs -> Registration]
      /\ \A s \in Regs : regs'[s].first = regs[s].first
      /\ \A s \in Regs : regs'[s].status = IF s = r THEN "ANNULLED" ELSE regs[s].status
  BY <1>1 DEF ServerTypeOK, Registration
<1>3. /\ published' \in [Regs -> [annulled : Nat, attended : Nat]]
      /\ \A s \in Regs : published'[s].attended = published[s].attended
      /\ \A s \in Regs :
           published'[s].annulled = IF s = r THEN version + 1 ELSE published[s].annulled
  BY <1>1 DEF ServerTypeOK
<1>4. ServerTypeOK'
  BY <1>1, <1>2, <1>3 DEF ServerTypeOK
<1>5. RowsDated'
  BY <1>1, <1>2 DEF ServerTypeOK, ServerInv, RowsDated, ItemOf
<1>6. PublishedSeen'
  BY <1>2, <1>3 DEF ServerInv, PublishedSeen
<1>7. LedgerGrows
  BY <1>1, <1>2, <1>3 DEF LedgerGrows, ServerTypeOK
<1> QED BY <1>4, <1>5, <1>6, <1>7 DEF ServerStep

\* One item of a request, whoever's: a confirmation is true of the server.
LEMMA ServeServerStep ==
  ASSUME ServerTypeOK, ServerInv, NEW i \in ItemOf(Regs \cup {NoOne}), NEW status,
         Serve(i, status)
  PROVE  /\ ServerStep
         /\ status \in Confirmed => /\ i.reg \in Regs
                                    /\ regs'[i.reg].first # NoTime
                                    /\ RecordedAs(i)'
<1>1. CASE status = "ALREADY_PROCESSED" /\ RecordedAs(i) /\ UNCHANGED <<ledgerVars, published>>
  <2>1. PICK a \in rows : a.item = i
    BY <1>1 DEF RecordedAs
  <2>2. i.reg \in Regs /\ regs[i.reg].first # NoTime
    BY <2>1 DEF ServerTypeOK, ServerInv, RowsDated, ItemOf
  <2>3. ServerStep
    BY <1>1, ServerStutters
  <2>4. regs' = regs /\ RecordedAs(i)'
    BY <1>1 DEF ledgerVars, RecordedAs
  <2> QED BY <2>2, <2>3, <2>4
<1>2. CASE status \notin Confirmed /\ UNCHANGED <<ledgerVars, published>>
  BY <1>2, ServerStutters
<1>3. CASE /\ Record(i)
           /\ published' = IF regs' = regs THEN published
                           ELSE [published EXCEPT ![i.reg].attended = version']
  <2>1. i \in ItemOf(Regs)
    BY <1>3 DEF Record, ItemOf
  <2> QED BY <1>3, <2>1, RecordServerStep DEF ItemOf
<1> QED BY <1>1, <1>2, <1>3 DEF Serve, Confirmed

-----------------------------------------------------------------------------
\* What every step does to the marks, the cases and the bundles it does not
\* build: nothing newly handed over or confirmed, nothing taken back.
MarksKept ==
  /\ MarksTypeOK' /\ Marks' = Marks /\ MarksPlaced'
  /\ \A m \in Marks :
       /\ marks[m].state # "unused" => /\ marks'[m].state # "unused"
                                       /\ marks'[m].reg = marks[m].reg
       /\ marks[m].state \in Gone => marks'[m] = marks[m]

NoneSettled ==
  \A m \in Marks : marks'[m].state \in {"confirmed", "handedOff"} => marks'[m] = marks[m]

CasesKept ==
  /\ CasesTypeOK'
  /\ \A m \in Marks : cases[m] # NoCase => cases'[m] # NoCase /\ cases'[m].why = cases[m].why

\* The flows read no mark but queued ones, learn no new result and build no
\* bundle.
RestKept ==
  Flows' = Flows /\ \A f \in Flows : rest'[f] \subseteq rest[f] \cup Unresolved

ResultsKept ==
  Flows' = Flows /\ \A f \in Flows : results'[f] \subseteq results[f]

BundlesKept ==
  /\ Flows' = Flows
  /\ \A f \in Flows : bundle'[f] \in {bundle[f], NoBundle}
  /\ cache' \in {cache, NoBundle} \cup {bundle[f] : f \in Flows}

NothingLearnt == RestKept /\ ResultsKept /\ BundlesKept

LEMMA MarksStutter ==
  ASSUME MarksTypeOK, MarksPlaced, UNCHANGED marks
  PROVE  MarksKept /\ NoneSettled /\ Unresolved' = Unresolved
BY DEF MarksTypeOK, MarksPlaced, MarksKept, NoneSettled, Marks, Unresolved, InStore

LEMMA CasesStutter ==
  ASSUME CasesTypeOK, UNCHANGED cases, Marks' = Marks
  PROVE  CasesKept
BY DEF CasesTypeOK, CasesKept

LEMMA SetStateKeeps ==
  ASSUME MarksTypeOK, MarksPlaced, NEW S, S \subseteq Unresolved,
         NEW state \in {"PENDING", "SYNCING", "erased", "handedOff"}, SetState(S, state)
  PROVE  /\ MarksKept
         /\ state # "handedOff" => NoneSettled
         /\ \A m \in Marks : marks'[m] = IF m \in S THEN [marks[m] EXCEPT !.state = state]
                                                    ELSE marks[m]
         /\ Unresolved' \subseteq Unresolved
<1>1. /\ Marks' = Marks
      /\ \A m \in Marks : marks'[m] = IF m \in S THEN [marks[m] EXCEPT !.state = state]
                                                  ELSE marks[m]
      /\ marks' = [m \in Marks |-> marks'[m]]
  BY DEF SetState, Marks
<1>2. \A m \in Marks : marks[m] \in MarkRecord
  BY DEF MarksTypeOK
<1>3. ASSUME NEW m \in Marks
      PROVE  /\ marks'[m] \in MarkRecord
             /\ marks'[m].reg = marks[m].reg
             /\ marks[m].state # "unused" => marks'[m].state # "unused"
             /\ marks[m].state = "unused" => marks'[m].state = "unused"
             /\ marks[m].state \in Gone => marks'[m] = marks[m]
             /\ state # "handedOff" /\ marks'[m].state \in {"confirmed", "handedOff"} =>
                  marks'[m] = marks[m]
             /\ marks'[m].state \in Stored => marks[m].state \in Stored
  <2>1. CASE m \in S
    <3>1. marks[m].state \in Stored
      BY <2>1 DEF Unresolved, InStore
    <3> QED BY <1>1, <1>2, <2>1, <3>1 DEF MarkRecord, Stored, Gone
  <2>2. CASE m \notin S
    BY <1>1, <1>2, <2>2
  <2> QED BY <2>1, <2>2
<1>4. MarksTypeOK'
  BY <1>1, <1>3 DEF MarksTypeOK, MarkRecord
<1>5. MarksPlaced'
  BY <1>1, <1>3 DEF MarksPlaced
<1>6. Unresolved' \subseteq Unresolved
  BY <1>1, <1>3 DEF Unresolved, InStore
<1> QED BY <1>1, <1>3, <1>4, <1>5, <1>6 DEF MarksKept, NoneSettled

LEMMA StoredStays ==
  ASSUME LedgerGrows, MarksKept, NEW m \in Marks, marks[m].state # "unused",
         StoredOnServer(m)
  PROVE  StoredOnServer(m)'
BY DEF LedgerGrows, MarksKept, StoredOnServer, RecordedAs, Item

LEMMA ResultStays ==
  ASSUME ServerTypeOK, MarksPlaced, LedgerGrows, MarksKept,
         NEW r, r.mark \in Marks, ResultTrue(r)
  PROVE  ResultTrue(r)'
<1>1. marks'[r.mark].state # "unused" /\ marks'[r.mark].reg = marks[r.mark].reg
  BY DEF ResultTrue, MarksKept
<1>2. CASE r.status \in Confirmed
  <2>1. StoredOnServer(r.mark)'
    BY <1>2, StoredStays DEF ResultTrue
  <2>2. regs'[marks[r.mark].reg].first = regs[marks[r.mark].reg].first
    BY <1>2 DEF ResultTrue, LedgerGrows, MarksPlaced
  <2> QED BY <1>1, <1>2, <2>1, <2>2 DEF ResultTrue
<1> QED BY <1>1, <1>2 DEF ResultTrue

LEMMA BundleStays ==
  ASSUME ServerTypeOK, LedgerGrows, ServerTypeOK',
         NEW b, b = NoBundle \/ b \in Bundles, BundleOK(b)
  PROVE  BundleOK(b)'
<1>1. b.version \in Nat /\ DOMAIN b.first \subseteq Regs
  <2>1. CASE b = NoBundle
    BY <2>1 DEF NoBundle
  <2>2. CASE b \in Bundles
    BY <2>2 DEF Bundles
  <2> QED BY <2>1, <2>2
<1>2. b.version <= version'
  BY <1>1 DEF ServerTypeOK, LedgerGrows, BundleOK
<1>3. \A r \in DOMAIN b.first : b.first[r] \in {NoTime, regs'[r].first}
  BY <1>1 DEF LedgerGrows, BundleOK
<1>4. ASSUME NEW r \in Regs
      PROVE  /\ published'[r].annulled \in 1..b.version => published[r].annulled \in 1..b.version
             /\ published'[r].attended \in 1..b.version => published[r].attended \in 1..b.version
  BY <1>1 DEF ServerTypeOK, LedgerGrows, BundleOK
<1> QED BY <1>2, <1>3, <1>4 DEF BundleOK

LEMMA NoBundleOK ==
  ASSUME ServerTypeOK
  PROVE  BundleOK(NoBundle)
BY DEF NoBundle, BundleOK, ServerTypeOK

\* The parts of DataInv that hold whatever step is taken, if nothing is
\* learnt from the server.
LEMMA RestStaysUsed ==
  ASSUME RequestTypeOK, RestUsed, MarksKept, RestKept
  PROVE  RestUsed'
<1> SUFFICES ASSUME NEW f \in Flows, NEW m \in rest'[f]
             PROVE  marks'[m].state # "unused"
  BY DEF RestKept, RestUsed
<1>1. m \in Marks /\ marks[m].state # "unused"
  BY DEF RestKept, RequestTypeOK, RestUsed, Unresolved, InStore, Stored
<1> QED BY <1>1 DEF MarksKept

LEMMA ResultsStay ==
  ASSUME TypeOK, DataInv, LedgerGrows, MarksKept, ResultsKept
  PROVE  ResultsTrue'
<1> SUFFICES ASSUME NEW f \in Flows, NEW r \in results'[f]
             PROVE  ResultTrue(r)'
  BY DEF ResultsKept, ResultsTrue
<1>1. r \in results[f] /\ r.mark \in Marks /\ ResultTrue(r)
  BY TypeParts DEF ResultsKept, RequestTypeOK, ResultsTrue, DataInv
<1> QED BY <1>1, ResultStays, TypeParts DEF DataInv

LEMMA BundlesStay ==
  ASSUME TypeOK, BundlesOK, ServerStep, BundlesKept
  PROVE  BundlesOK'
<1>1. ASSUME NEW b, b = NoBundle \/ b = cache \/ \E f \in Flows : b = bundle[f]
      PROVE  BundleOK(b)'
  <2>1. BundleOK(b) /\ (b = NoBundle \/ b \in Bundles)
    BY <1>1, TypeParts, NoBundleOK DEF BundlesOK, CacheTypeOK, PlaceTypeOK
  <2> QED BY <2>1, BundleStays, TypeParts DEF ServerStep
<1>2. PICK c : c = cache'
  OBVIOUS
<1>3. BundleOK(c)'
  BY <1>1, <1>2 DEF BundlesKept
<1>4. ASSUME NEW f \in Flows PROVE BundleOK(bundle[f])'
  <2>1. PICK b : b = bundle'[f]
    OBVIOUS
  <2>2. BundleOK(b)'
    BY <1>1, <2>1 DEF BundlesKept
  <2> QED BY <2>1, <2>2 DEF BundleOK
<1>5. BundleOK(cache)'
  BY <1>2, <1>3 DEF BundleOK
<1> QED BY <1>4, <1>5 DEF BundlesOK, BundlesKept

LEMMA MarksNotLost ==
  ASSUME TypeOK, DataInv, LedgerGrows, MarksKept, CasesKept, NoneSettled
  PROVE  NoMarkLost'
<1> SUFFICES ASSUME NEW m \in Marks
             PROVE  /\ marks'[m].state = "confirmed" => StoredOnServer(m)'
                    /\ marks'[m].state = "handedOff" =>
                         cases'[m] # NoCase /\ cases'[m].why = marks'[m].why
  BY DEF NoMarkLost, MarksKept
<1>1. marks'[m].state \in {"confirmed", "handedOff"} => marks'[m] = marks[m]
  BY DEF NoneSettled
<1>2. marks'[m].state = "confirmed" => StoredOnServer(m)'
  BY <1>1, StoredStays DEF DataInv, NoMarkLost
<1>3. marks'[m].state = "handedOff" => cases'[m] # NoCase /\ cases'[m].why = marks'[m].why
  BY <1>1 DEF DataInv, NoMarkLost, CasesKept
<1> QED BY <1>2, <1>3

LEMMA DataStays ==
  ASSUME TypeOK, DataInv, ServerStep, MarksKept, CasesKept, NoneSettled, NothingLearnt
  PROVE  DataInv'
<1>1. MarksPlaced'
  BY DEF MarksKept
<1>2. RestUsed'
  BY RestStaysUsed, TypeParts DEF DataInv, NothingLearnt
<1>3. ResultsTrue'
  BY ResultsStay DEF ServerStep, NothingLearnt
<1>4. BundlesOK'
  BY BundlesStay DEF DataInv, NothingLearnt
<1>5. NoMarkLost'
  BY MarksNotLost DEF ServerStep
<1> QED BY <1>1, <1>2, <1>3, <1>4, <1>5 DEF DataInv

-----------------------------------------------------------------------------
MoveLabels == PCs \ (Sending \cup {"handoff", "ack"})

\* Flow f goes on to some label and holds on to what it had, or forgets it.
FlowMoves(f) ==
  /\ \E l \in MoveLabels, b \in {bundle[f], NoBundle} :
       /\ PlacedAt(f, l, b)
       /\ pc' = [pc EXCEPT ![f] = l]
       /\ bundle' = [bundle EXCEPT ![f] = b]
  /\ who' \in [Flows -> Users \cup {NoOne}]
  /\ (UNCHANGED requestVars /\ pc[f] \notin Sending) \/ ForgetRequest(f)

\* What a step does to the sessions.
SessionsStep ==
  /\ SessionTypeOK'
  /\ \A s \in live' : sessions'[s] \in Users
  /\ \A s \in 1..MaxLogins : sessions[s] \in Users => sessions'[s] \in Users

LEMMA SessionsStutter ==
  ASSUME SessionTypeOK, SessionsKnown, UNCHANGED sessions, live' \subseteq live,
         cookie' \in {cookie, 0}
  PROVE  SessionsStep
BY DEF SessionTypeOK, SessionsKnown, SessionsStep

LEMMA FlowMovesRest ==
  ASSUME TypeOK, NEW f \in Flows, FlowMoves(f), NEW g \in Flows
  PROVE  rest'[g] \subseteq rest[g]
<1>1. CASE UNCHANGED requestVars
  BY <1>1 DEF requestVars
<1>2. CASE ForgetRequest(f)
  BY <1>2, TypeParts DEF ForgetRequest, RequestTypeOK
<1> QED BY <1>1, <1>2 DEF FlowMoves

LEMMA FlowMovesRequests ==
  ASSUME TypeOK, NEW f \in Flows, FlowMoves(f), Marks' = Marks
  PROVE  /\ Flows' = Flows /\ RequestTypeOK'
         /\ \A g \in Flows : rest'[g] \subseteq rest[g] /\ results'[g] \subseteq results[g]
         /\ \A g \in Flows : g # f => auth'[g] = auth[g]
<1>1. Flows' = Flows
  BY DEF FlowMoves, Flows
<1>2. CASE UNCHANGED requestVars
  BY <1>1, <1>2, TypeParts DEF requestVars, RequestTypeOK
<1>3. CASE ForgetRequest(f)
  <2> USE <1>1, <1>3, TypeParts DEF ForgetRequest, RequestTypeOK
  <2>1. /\ rest' \in [Flows -> SUBSET Marks] /\ batch' \in [Flows -> SUBSET Marks]
        /\ todo' \in [Flows -> SUBSET Marks] /\ auth' \in [Flows -> 0..MaxLogins]
    OBVIOUS
  <2>2. results' \in [Flows -> SUBSET [mark : Marks, status : Confirmed \cup Rejections,
                                       first : Clients \cup {NoTime}]]
    OBVIOUS
  <2>3. \A g \in Flows : todo'[g] \subseteq batch'[g] /\ batch'[g] \subseteq rest'[g]
    OBVIOUS
  <2>4. /\ \A g \in Flows : rest'[g] \subseteq rest[g] /\ results'[g] \subseteq results[g]
        /\ \A g \in Flows : g # f => auth'[g] = auth[g]
    OBVIOUS
  <2> QED BY <2>1, <2>2, <2>3, <2>4
<1> QED BY <1>2, <1>3 DEF FlowMoves

LEMMA FlowMovesPlaces ==
  ASSUME TypeOK, FlowsPlaced, NEW f \in Flows, FlowMoves(f)
  PROVE  /\ Flows' = Flows /\ PlaceTypeOK' /\ FlowsPlaced'
         /\ \A g \in Flows : bundle'[g] \in {bundle[g], NoBundle}
         /\ \A g \in Flows : pc'[g] \in Sending \cup {"handoff", "ack"} => g # f
         /\ \A g \in Flows : g # f => pc'[g] = pc[g]
<1>1. PICK l \in MoveLabels, b \in {bundle[f], NoBundle} :
        /\ PlacedAt(f, l, b)
        /\ pc' = [pc EXCEPT ![f] = l]
        /\ bundle' = [bundle EXCEPT ![f] = b]
  BY DEF FlowMoves
<1>2. /\ Flows' = Flows /\ pc' \in [Flows -> PCs] /\ pc'[f] = l
      /\ \A g \in Flows : g # f => pc'[g] = pc[g]
  BY <1>1, TypeParts DEF PlaceTypeOK, Flows, MoveLabels
<1>3. /\ DOMAIN bundle' = Flows /\ bundle' = [g \in Flows |-> bundle'[g]] /\ bundle'[f] = b
      /\ \A g \in Flows : g # f => bundle'[g] = bundle[g]
  BY <1>1 DEF FlowsPlaced
<1>4. ASSUME NEW g \in Flows PROVE PlacedAt(g, pc'[g], bundle'[g])
  <2>1. CASE g = f
    BY <1>1, <1>2, <1>3, <2>1
  <2>2. CASE g # f
    BY <1>2, <1>3, <2>2 DEF FlowsPlaced
  <2> QED BY <2>1, <2>2
<1>7. ASSUME NEW g \in Flows, pc'[g] \notin Sending PROVE rest'[g] = {}
  <2>1. CASE g = f
    <3>1. CASE UNCHANGED requestVars /\ pc[f] \notin Sending
      BY <2>1, <3>1 DEF FlowsPlaced, requestVars
    <3>2. CASE ForgetRequest(f)
      BY <2>1, <3>2, TypeParts DEF ForgetRequest, RequestTypeOK
    <3> QED BY <3>1, <3>2 DEF FlowMoves
  <2>2. CASE g # f
    <3>1. rest[g] = {}
      BY <1>2, <1>7, <2>2 DEF FlowsPlaced
    <3> QED BY <1>2, <3>1, FlowMovesRest
  <2> QED BY <2>1, <2>2
<1>5. FlowsPlaced'
  BY <1>2, <1>3, <1>4, <1>7 DEF FlowsPlaced, PlacedAt
<1>6. PlaceTypeOK'
  <2>1. who' \in [Flows -> Users \cup {NoOne}]
    BY DEF FlowMoves
  <2>2. \A g \in Flows : bundle'[g] = NoBundle \/ bundle'[g] \in Bundles
    BY <1>4 DEF PlacedAt
  <2> QED BY <1>2, <2>1, <2>2 DEF PlaceTypeOK
<1> QED BY <1>1, <1>2, <1>3, <1>5, <1>6 DEF MoveLabels

LEMMA FlowMovesFlowInv ==
  ASSUME TypeOK, FlowInv, NEW f \in Flows, FlowMoves(f), SessionsStep,
         Marks' = Marks, CasesKept, UNCHANGED claim
  PROVE  FlowInv'
<1>1. Flows' = Flows /\ FlowsPlaced'
  BY FlowMovesPlaces DEF FlowInv
<1>2. SessionsKnown'
  <2> SUFFICES ASSUME NEW g \in Flows, pc'[g] = "serving"
               PROVE  auth'[g] \in 1..MaxLogins /\ sessions'[auth'[g]] \in Users
    BY <1>1 DEF SessionsStep, SessionsKnown
  <2>1. g # f /\ pc[g] = "serving"
    BY FlowMovesPlaces DEF FlowInv, Sending
  <2>2. auth'[g] = auth[g]
    BY <2>1, FlowMovesRequests
  <2> QED BY <2>1, <2>2 DEF FlowInv, SessionsKnown, SessionsStep
<1>3. HandoffStored'
  <2> SUFFICES ASSUME NEW g \in Flows, pc'[g] \in {"handoff", "ack"}
               PROVE  /\ claim'.mark \in Marks
                      /\ pc'[g] = "ack" => /\ cases'[claim'.mark] # NoCase
                                           /\ cases'[claim'.mark].why = claim'.why
    BY <1>1 DEF HandoffStored
  <2>1. pc'[g] = pc[g]
    BY FlowMovesPlaces DEF FlowInv
  <2> QED BY <2>1 DEF FlowInv, HandoffStored, CasesKept
<1> QED BY <1>1, <1>2, <1>3 DEF FlowInv

\* A step in which one flow moves and nothing is learnt from the server.
LEMMA QuietStep ==
  ASSUME Inv, ServerStep, MarksKept, NoneSettled, CasesKept, SessionsStep,
         NEW f \in Flows, FlowMoves(f), UNCHANGED claim,
         cache' \in {cache, NoBundle, bundle[f]},
         OwnerTypeOK', TabTypeOK', HistoryTypeOK'
  PROVE  Inv'
<1>1. TypeOK /\ ServerInv /\ FlowInv /\ DataInv /\ Marks' = Marks
  BY DEF Inv, MarksKept
<1>2. NothingLearnt
  BY <1>1, FlowMovesRequests, FlowMovesPlaces
  DEF FlowInv, NothingLearnt, RestKept, ResultsKept, BundlesKept
<1>3. DataInv'
  BY <1>1, <1>2, DataStays
<1>4. FlowInv'
  BY <1>1, FlowMovesFlowInv
<1>5. ServerInv' /\ ServerTypeOK'
  BY DEF ServerStep, ServerInv
<1>6. CacheTypeOK'
  BY <1>1, TypeParts DEF CacheTypeOK, PlaceTypeOK
<1>7. ClaimTypeOK'
  BY <1>1, TypeParts DEF ClaimTypeOK
<1>8. RequestTypeOK' /\ PlaceTypeOK'
  BY <1>1, FlowMovesRequests, FlowMovesPlaces DEF FlowInv
<1>9. TypeOK'
  BY <1>5, <1>6, <1>7, <1>8, TypePartsNext DEF SessionsStep, MarksKept, CasesKept
<1> QED BY <1>3, <1>4, <1>5, <1>9 DEF Inv

\* A step in which no flow moves.
LEMMA StillStep ==
  ASSUME Inv, ServerStep, MarksKept, NoneSettled, CasesKept, SessionsStep,
         UNCHANGED flowVars, cache' \in {cache, NoBundle},
         OwnerTypeOK', TabTypeOK', HistoryTypeOK'
  PROVE  Inv'
<1>1. TypeOK /\ ServerInv /\ FlowInv /\ DataInv /\ Marks' = Marks
  BY DEF Inv, MarksKept
<1>2. /\ pc' = pc /\ who' = who /\ rest' = rest /\ batch' = batch /\ auth' = auth
      /\ todo' = todo /\ results' = results /\ bundle' = bundle /\ claim' = claim
      /\ Flows' = Flows
  BY DEF flowVars, requestVars, Flows
<1>3. NothingLearnt
  BY <1>2 DEF NothingLearnt, RestKept, ResultsKept, BundlesKept
<1>4. DataInv'
  BY <1>1, <1>3, DataStays
<1>5. FlowInv'
  <2>1. FlowsPlaced'
    BY <1>1, <1>2 DEF FlowInv, FlowsPlaced, PlacedAt
  <2>2. SessionsKnown'
    BY <1>1, <1>2 DEF FlowInv, SessionsKnown, SessionsStep
  <2>3. HandoffStored'
    BY <1>1, <1>2 DEF FlowInv, HandoffStored, CasesKept
  <2> QED BY <2>1, <2>2, <2>3 DEF FlowInv
<1>6. ServerInv' /\ ServerTypeOK'
  BY DEF ServerStep, ServerInv
<1>7. CacheTypeOK'
  BY <1>1, TypeParts DEF CacheTypeOK
<1>8. RequestTypeOK' /\ PlaceTypeOK' /\ ClaimTypeOK'
  BY <1>1, <1>2, TypeParts DEF RequestTypeOK, PlaceTypeOK, ClaimTypeOK
<1>9. TypeOK'
  BY <1>6, <1>7, <1>8, TypePartsNext DEF SessionsStep, MarksKept, CasesKept
<1> QED BY <1>4, <1>5, <1>6, <1>9 DEF Inv

-----------------------------------------------------------------------------
\* The ways a flow goes on are all moves in this sense.
LEMMA GotoMoves ==
  ASSUME TypeOK, FlowsPlaced, NEW f \in Flows,
         NEW l \in MoveLabels, PlacedAt(f, l, bundle[f]), Goto(f, l),
         who' \in [Flows -> Users \cup {NoOne}], UNCHANGED bundle,
         (UNCHANGED requestVars /\ pc[f] \notin Sending) \/ ForgetRequest(f)
  PROVE  FlowMoves(f)
<1>1. bundle' = [bundle EXCEPT ![f] = bundle[f]]
  BY DEF FlowsPlaced
<1> QED BY <1>1 DEF FlowMoves, Goto

LEMMA WhoTyped ==
  ASSUME TypeOK, NEW f \in Flows, NEW u \in Users \cup {NoOne},
         who' = [who EXCEPT ![f] = u] \/ who' = who
  PROVE  who' \in [Flows -> Users \cup {NoOne}]
BY TypeParts DEF PlaceTypeOK

LEMMA EndMoves ==
  ASSUME TypeOK, FlowsPlaced, NEW f \in Flows, End(f)
  PROVE  FlowMoves(f)
<1>1. PlacedAt(f, "idle", NoBundle) /\ "idle" \in MoveLabels
  BY DEF PlacedAt, MoveLabels, Sending, PCs, Fetching
<1>2. who' \in [Flows -> Users \cup {NoOne}]
  BY WhoTyped DEF End
<1> QED BY <1>1, <1>2 DEF End, FlowMoves, Goto

LEMMA FlushDoneMoves ==
  ASSUME TypeOK, FlowsPlaced, NEW f \in Flows, FlushDone(f), pc[f] \notin Fetching
  PROVE  FlowMoves(f)
<1>1. CASE f \in {"reconnect", "logout"}
  <2> DEFINE l == IF f = "reconnect" THEN "version" ELSE "confirm"
  <2>1. bundle[f] = NoBundle
    BY DEF FlowsPlaced, PlacedAt
  <2>2. PlacedAt(f, l, bundle[f]) /\ l \in MoveLabels
    BY <1>1, <2>1 DEF PlacedAt, MoveLabels, Sending, PCs, Fetching
  <2>3. Goto(f, l) /\ ForgetRequest(f) /\ UNCHANGED <<who, bundle>>
    BY <1>1 DEF FlushDone
  <2>4. who' \in [Flows -> Users \cup {NoOne}]
    BY <2>3, TypeParts DEF PlaceTypeOK
  <2> HIDE DEF l
  <2> QED BY <2>2, <2>3, <2>4, GotoMoves
<1>2. CASE f \notin {"reconnect", "logout"}
  BY <1>2, EndMoves DEF FlushDone
<1> QED BY <1>1, <1>2

LEMMA FailMoves ==
  ASSUME TypeOK, FlowsPlaced, NEW f \in Flows, Fail(f)
  PROVE  FlowMoves(f) /\ view' \in {view, "login"}
<1>1. CASE f = "logout" /\ pc[f] # "revoke"
  <2>1. bundle[f] = NoBundle
    BY <1>1 DEF FlowsPlaced, PlacedAt, Fetching
  <2>2. PlacedAt(f, "confirm", bundle[f]) /\ "confirm" \in MoveLabels
    BY <1>1, <2>1 DEF PlacedAt, MoveLabels, Sending, PCs, Fetching
  <2>3. Goto(f, "confirm") /\ ForgetRequest(f) /\ UNCHANGED <<who, bundle, view>>
    BY <1>1 DEF Fail
  <2>4. who' \in [Flows -> Users \cup {NoOne}]
    BY <2>3, TypeParts DEF PlaceTypeOK
  <2> QED BY <2>2, <2>3, <2>4, GotoMoves
<1>2. CASE ~(f = "logout" /\ pc[f] # "revoke")
  BY <1>2, EndMoves DEF Fail
<1> QED BY <1>1, <1>2

LEMMA BoundMoves ==
  ASSUME TypeOK, FlowsPlaced, NEW f \in Flows, Bound(f), f # "handoff",
         pc[f] \notin Fetching \cup Sending
  PROVE  FlowMoves(f) /\ UNCHANGED <<view, operator>>
<1>1. bundle[f] = NoBundle
  BY DEF FlowsPlaced, PlacedAt
<1>2. PICK l \in {"list", "version", "read"} :
        /\ l = "list" => f = "load"
        /\ l = "version" => f = "prepare"
        /\ Goto(f, l) /\ UNCHANGED <<who, requestVars, bundle, view, operator>>
  BY DEF Bound
<1>3. PlacedAt(f, l, bundle[f]) /\ l \in MoveLabels
  BY <1>1, <1>2 DEF PlacedAt, MoveLabels, Sending, PCs, Fetching
<1>4. who' \in [Flows -> Users \cup {NoOne}]
  BY <1>2, TypeParts DEF PlaceTypeOK
<1> QED BY <1>2, <1>3, <1>4, GotoMoves

LEMMA StartMoves ==
  ASSUME TypeOK, FlowsPlaced, NEW f, NEW l, NEW u \in Users \cup {NoOne}, Start(f, l, u),
         f # "handoff", l \in {"queue", "session"} \/ (f = "logout" /\ l = "confirm")
  PROVE  f \in Flows /\ FlowMoves(f) /\ claim' = claim
<1>1. f \in Flows /\ pc[f] = "idle" /\ Goto(f, l) /\ who' = [who EXCEPT ![f] = u]
      /\ UNCHANGED <<requestVars, bundle, claim>>
  BY DEF Start
<1>2. bundle[f] = NoBundle
  BY <1>1 DEF FlowsPlaced, PlacedAt, Fetching
<1>3. PlacedAt(f, l, bundle[f]) /\ l \in MoveLabels
  BY <1>2 DEF PlacedAt, MoveLabels, Sending, PCs, Fetching
<1>4. who' \in [Flows -> Users \cup {NoOne}]
  BY <1>1, WhoTyped
<1>5. pc[f] \notin Sending
  BY <1>1 DEF Sending
<1> QED BY <1>1, <1>3, <1>4, <1>5, GotoMoves

LEMMA ServerRests ==
  ASSUME Inv, UNCHANGED serverVars, Marks' = Marks
  PROVE  ServerStep /\ CasesKept
<1>1. UNCHANGED <<ledgerVars, published>> /\ UNCHANGED cases
  BY DEF serverVars, ledgerVars
<1> QED BY <1>1, ServerStutters, CasesStutter, TypeParts DEF Inv

LEMMA SessionsRest ==
  ASSUME Inv, UNCHANGED sessionVars
  PROVE  SessionsStep
<1>1. sessions' = sessions /\ live' = live /\ cookie' = cookie
  BY DEF sessionVars
<1> QED BY <1>1, SessionsStutter, TypeParts DEF Inv, FlowInv

\* A flow moves, and only the device's owner and cache and the tab with it.
LEMMA LocalStep ==
  ASSUME Inv, NEW f \in Flows, FlowMoves(f),
         UNCHANGED <<serverVars, sessionVars, marks, claim, late>>,
         cache' \in {cache, NoBundle, bundle[f]},
         OwnerTypeOK', TabTypeOK', counted' \subseteq Marks, faults' \in Nat
  PROVE  Inv'
<1>1. MarksKept /\ NoneSettled /\ Marks' = Marks
  BY MarksStutter, TypeParts DEF Inv, DataInv, MarksKept
<1>2. ServerStep /\ CasesKept
  BY <1>1, ServerRests
<1>3. SessionsStep
  BY SessionsRest
<1>4. HistoryTypeOK'
  BY <1>1, TypeParts DEF HistoryTypeOK, Inv
<1> QED BY <1>1, <1>2, <1>3, <1>4, QuietStep

LEMMA FaultTyped ==
  ASSUME TypeOK, Fault \/ faults' = faults
  PROVE  faults' \in Nat
BY TypeParts DEF Fault, HistoryTypeOK

\* Nor the owner nor the cache.
LEMMA TabStep ==
  ASSUME Inv, NEW f \in Flows, FlowMoves(f),
         UNCHANGED <<serverVars, sessionVars, deviceVars, claim, late>>,
         TabTypeOK', counted' \subseteq Marks, Fault \/ faults' = faults
  PROVE  Inv'
<1>1. marks' = marks /\ owner' = owner /\ cache' = cache
  BY DEF deviceVars
<1>2. OwnerTypeOK'
  BY <1>1, TypeParts DEF Inv, OwnerTypeOK
<1>3. faults' \in Nat
  BY FaultTyped DEF Inv
<1> QED BY <1>1, <1>2, <1>3, LocalStep

LEMMA TabTyped ==
  ASSUME TypeOK, csrf' \in {csrf, cookie, 0}, operator' \in {operator, NoOne, owner.user} \cup Users,
         view' \in {view, "loading", "login", "events", "scanner"}
  PROVE  TabTypeOK'
BY TypeParts DEF TabTypeOK, OwnerTypeOK, SessionTypeOK

-----------------------------------------------------------------------------
\* Each action keeps the invariant: first those that start a flow.
LEMMA StartKeeps ==
  ASSUME Inv, NEW f, NEW l, NEW u \in Users \cup {NoOne}, Start(f, l, u), f # "handoff",
         l \in {"queue", "session"} \/ (f = "logout" /\ l = "confirm"),
         UNCHANGED <<serverVars, sessionVars, deviceVars, csrf, operator, late, counted, faults>>,
         view' \in {view, "loading"}
  PROVE  Inv'
<1>1. TypeOK /\ FlowsPlaced
  BY DEF Inv, FlowInv
<1>2. counted' \subseteq Marks
  BY <1>1, TypeParts DEF HistoryTypeOK
<1>3. f \in Flows /\ FlowMoves(f) /\ claim' = claim
  BY <1>1, StartMoves
<1>4. TabTypeOK'
  BY <1>1, TabTyped
<1> QED BY <1>2, <1>3, <1>4, TabStep

LEMMA StartsKeep ==
  ASSUME Inv, TapMark \/ (\E f \in Flows : StartFlush(f)) \/ LeaveEvent \/ StartLogout
  PROVE  Inv'
<1>1. operator \in Users \cup {NoOne}
  BY TypeParts DEF TabTypeOK, Inv
<1>2. CASE TapMark
  BY <1>1, <1>2, StartKeeps DEF TapMark, tabVars
<1>3. ASSUME NEW f \in Flows, StartFlush(f) PROVE Inv'
  <2>1. Start(f, "session", NoOne) /\ f # "handoff"
    BY <1>3 DEF StartFlush
  <2> QED BY <1>3, <2>1, StartKeeps DEF StartFlush, tabVars
<1>4. CASE LeaveEvent
  BY <1>4, StartKeeps DEF LeaveEvent
<1>5. CASE StartLogout
  <2>1. PICK l \in {"session", "confirm"} : Start("logout", l, NoOne)
    BY <1>5 DEF StartLogout
  <2> QED BY <1>5, <2>1, StartKeeps DEF StartLogout, tabVars
<1> QED BY <1>2, <1>3, <1>4, <1>5

LEMMA TabOnly ==
  ASSUME Inv, UNCHANGED <<serverVars, sessionVars, deviceVars, flowVars, late, counted>>,
         faults' \in Nat, TabTypeOK'
  PROVE  Inv'
<1>1. marks' = marks /\ owner' = owner /\ cache' = cache
  BY DEF deviceVars
<1>2. MarksKept /\ NoneSettled /\ Marks' = Marks
  BY <1>1, MarksStutter, TypeParts DEF Inv, DataInv, MarksKept
<1>3. ServerStep /\ CasesKept /\ SessionsStep
  BY <1>2, ServerRests, SessionsRest
<1>4. OwnerTypeOK' /\ HistoryTypeOK'
  BY <1>1, <1>2, TypeParts DEF Inv, OwnerTypeOK, HistoryTypeOK
<1> QED BY <1>1, <1>2, <1>3, <1>4, StillStep

LEMMA OpenEventKeeps == ASSUME Inv, OpenEvent PROVE Inv'
<1>1. CASE view' = "scanner" /\ UNCHANGED flowVars
  <2>1. TabTypeOK' /\ faults' \in Nat
    BY <1>1, TabTyped, FaultTyped DEF Inv, OpenEvent
  <2> QED BY <1>1, <2>1, TabOnly DEF OpenEvent
<1>2. CASE Start("prepare", "session", NoOne) /\ UNCHANGED view
  BY <1>2, StartKeeps DEF OpenEvent
<1> QED BY <1>1, <1>2 DEF OpenEvent

LEMMA ListEventsKeeps ==
  ASSUME Inv, NEW f \in Flows, ListEvents(f)
  PROVE  Inv'
<1>1. TypeOK /\ FlowsPlaced /\ counted' \subseteq Marks
  BY TypeParts DEF Inv, FlowInv, ListEvents, HistoryTypeOK
<1>2. f = "load"
  BY <1>1 DEF ListEvents, FlowsPlaced, PlacedAt
<1>3. who[f] \in Users \cup {NoOne}
  BY <1>1, TypeParts DEF PlaceTypeOK
<1>4. /\ FlowMoves(f)
      /\ operator' \in {operator, owner.user, who[f]} /\ csrf' = csrf
      /\ view' \in {view, "login", "events"}
      /\ Fault \/ faults' = faults
  BY <1>1, <1>2, EndMoves, FailMoves DEF ListEvents, LoadFails
<1>5. TabTypeOK'
  BY <1>1, <1>3, <1>4, TabTyped
<1> QED BY <1>1, <1>4, <1>5, TabStep DEF ListEvents

LEMMA AskSessionKeeps ==
  ASSUME Inv, NEW f \in Flows, AskSession(f)
  PROVE  Inv'
<1>1. TypeOK /\ FlowsPlaced /\ counted' \subseteq Marks
  BY TypeParts DEF Inv, FlowInv, AskSession, HistoryTypeOK
<1>2. /\ UNCHANGED <<serverVars, sessionVars, marks, claim, late>>
      /\ pc[f] \notin Sending /\ f # "handoff" /\ bundle[f] = NoBundle
  BY <1>1 DEF AskSession, deviceVars, FlowsPlaced, PlacedAt, Fetching, Sending
<1>3. CASE /\ SessionLive
           /\ csrf' = cookie
           /\ who' = [who EXCEPT ![f] = sessions[cookie]]
           /\ Goto(f, "bind")
           /\ UNCHANGED <<requestVars, bundle, view, operator, faults, deviceVars>>
  <2>1. sessions[cookie] \in Users
    BY <1>3 DEF Inv, FlowInv, SessionsKnown, SessionLive
  <2>2. who' \in [Flows -> Users \cup {NoOne}]
    BY <1>1, <1>3, <2>1, WhoTyped
  <2>3. PlacedAt(f, "bind", bundle[f]) /\ "bind" \in MoveLabels
    BY <1>2 DEF PlacedAt, MoveLabels, Sending, PCs, Fetching
  <2>4. FlowMoves(f)
    BY <1>1, <1>2, <1>3, <2>2, <2>3, GotoMoves
  <2>5. TabTypeOK'
    BY <1>1, <1>3, TabTyped
  <2> QED BY <1>1, <1>2, <1>3, <2>4, <2>5, TabStep DEF AskSession
<1>4. CASE /\ Fault
           /\ IF f = "load" THEN LoadFails ELSE Fail(f) /\ UNCHANGED operator
           /\ UNCHANGED <<csrf, deviceVars>>
  <2>1. FlowMoves(f) /\ operator' \in {operator, owner.user} /\ view' \in {view, "login", "events"}
    BY <1>1, <1>4, EndMoves, FailMoves DEF LoadFails
  <2>2. TabTypeOK'
    BY <1>1, <1>4, <2>1, TabTyped
  <2> QED BY <1>1, <1>2, <1>4, <2>1, <2>2, TabStep DEF AskSession
<1>5. CASE Fail(f) /\ UNCHANGED <<csrf, operator, faults, deviceVars>>
  <2>1. FlowMoves(f) /\ view' \in {view, "login"}
    BY <1>1, <1>5, FailMoves
  <2>2. TabTypeOK'
    BY <1>1, <1>5, <2>1, TabTyped
  <2> QED BY <1>1, <1>2, <1>5, <2>1, <2>2, TabStep DEF AskSession
<1>6. CASE /\ Goto(f, "disown")
           /\ UNCHANGED <<who, requestVars, bundle, view, csrf, operator, faults, deviceVars>>
  <2>1. PlacedAt(f, "disown", bundle[f]) /\ "disown" \in MoveLabels
    BY <1>2 DEF PlacedAt, MoveLabels, Sending, PCs, Fetching
  <2>2. who' \in [Flows -> Users \cup {NoOne}]
    BY <1>1, <1>6, TypeParts DEF PlaceTypeOK
  <2>3. FlowMoves(f)
    BY <1>1, <1>2, <1>6, <2>1, <2>2, GotoMoves
  <2>4. TabTypeOK'
    BY <1>1, <1>6, TabTyped
  <2> QED BY <1>1, <1>2, <1>6, <2>3, <2>4, TabStep DEF AskSession
<1> QED BY <1>3, <1>4, <1>5, <1>6 DEF AskSession

LEMMA ReadDisownedKeeps ==
  ASSUME Inv, NEW f \in Flows, ReadDisowned(f)
  PROVE  Inv'
<1>1. TypeOK /\ FlowsPlaced /\ counted' \subseteq Marks
  BY TypeParts DEF Inv, FlowInv, ReadDisowned, HistoryTypeOK
<1>2. /\ UNCHANGED <<serverVars, sessionVars, deviceVars, claim, late, faults>>
      /\ UNCHANGED <<requestVars, bundle, view, csrf, operator>>
      /\ pc[f] \notin Sending /\ f # "handoff" /\ bundle[f] = NoBundle
  BY <1>1 DEF ReadDisowned, tabVars, FlowsPlaced, PlacedAt, Fetching, Sending
<1>3. owner.user \in Users \cup {NoOne}
  BY <1>1, TypeParts DEF OwnerTypeOK
<1>4. who' \in [Flows -> Users \cup {NoOne}]
  BY <1>1, <1>3, WhoTyped DEF ReadDisowned
<1>5. PlacedAt(f, "disowned", bundle[f]) /\ "disowned" \in MoveLabels
  BY <1>2 DEF PlacedAt, MoveLabels, Sending, PCs, Fetching
<1>6. FlowMoves(f)
  BY <1>1, <1>2, <1>4, <1>5, GotoMoves DEF ReadDisowned
<1>7. TabTypeOK'
  BY <1>1, <1>2, TabTyped
<1> QED BY <1>1, <1>2, <1>6, <1>7, TabStep

LEMMA RevokeAccessKeeps ==
  ASSUME Inv, NEW f \in Flows, RevokeAccess(f)
  PROVE  Inv'
<1>1. TypeOK /\ FlowsPlaced /\ counted' \subseteq Marks /\ faults' \in Nat
  BY TypeParts DEF Inv, FlowInv, RevokeAccess, HistoryTypeOK
<1>2. /\ UNCHANGED <<serverVars, sessionVars, marks, claim, late, csrf, operator>>
      /\ pc[f] \notin Sending /\ f # "handoff" /\ bundle[f] = NoBundle
  BY <1>1 DEF RevokeAccess, FlowsPlaced, PlacedAt, Fetching, Sending
<1>3. who[f] \in Users \cup {NoOne}
  BY <1>1, TypeParts DEF PlaceTypeOK
<1>4. FlowMoves(f) /\ view' \in {view, "login"}
  BY <1>1, <1>2, FailMoves DEF RevokeAccess
<1>5. TabTypeOK'
  BY <1>1, <1>2, <1>4, TabTyped
<1>6. OwnerTypeOK' /\ cache' \in {cache, NoBundle}
  BY <1>1, <1>3, TypeParts DEF RevokeAccess, OwnerTypeOK
<1> QED BY <1>1, <1>2, <1>4, <1>5, <1>6, LocalStep

LEMMA ReadOwnerKeeps ==
  ASSUME Inv, NEW f \in Flows, ReadOwner(f)
  PROVE  Inv'
<1>1. TypeOK /\ FlowsPlaced /\ counted' \subseteq Marks /\ faults' \in Nat
  BY TypeParts DEF Inv, FlowInv, ReadOwner, HistoryTypeOK
<1>2. /\ UNCHANGED <<serverVars, sessionVars, marks, claim, late, cache, csrf>>
      /\ pc[f] \notin Fetching \cup Sending /\ f # "handoff" /\ bundle[f] = NoBundle
  BY <1>1 DEF ReadOwner, FlowsPlaced, PlacedAt, Fetching, Sending
<1>3. CASE owner' = [owner EXCEPT !.valid = TRUE] /\ Bound(f)
  <2>1. FlowMoves(f) /\ UNCHANGED <<view, operator>>
    BY <1>1, <1>2, <1>3, BoundMoves
  <2>2. TabTypeOK' /\ OwnerTypeOK'
    BY <1>1, <1>2, <1>3, <2>1, TabTyped, TypeParts DEF OwnerTypeOK
  <2> QED BY <1>1, <1>2, <2>1, <2>2, LocalStep
<1>4. ASSUME NEW l \in {"adopt", "switch"}, Goto(f, l),
             UNCHANGED <<owner, who, requestVars, bundle, view, operator>>
      PROVE  Inv'
  <2>1. PlacedAt(f, l, bundle[f]) /\ l \in MoveLabels
    BY <1>2 DEF PlacedAt, MoveLabels, Sending, PCs, Fetching
  <2>2. who' \in [Flows -> Users \cup {NoOne}]
    BY <1>1, <1>4, TypeParts DEF PlaceTypeOK
  <2>3. FlowMoves(f)
    BY <1>1, <1>2, <1>4, <2>1, <2>2, GotoMoves
  <2>4. TabTypeOK' /\ OwnerTypeOK'
    BY <1>1, <1>2, <1>4, TabTyped, TypeParts DEF OwnerTypeOK
  <2> QED BY <1>1, <1>2, <2>3, <2>4, LocalStep
<1>5. CASE Fail(f) /\ UNCHANGED <<owner, operator>>
  <2>1. FlowMoves(f) /\ view' \in {view, "login"}
    BY <1>1, <1>5, FailMoves
  <2>2. TabTypeOK' /\ OwnerTypeOK'
    BY <1>1, <1>2, <1>5, <2>1, TabTyped, TypeParts DEF OwnerTypeOK
  <2> QED BY <1>1, <1>2, <2>1, <2>2, LocalStep
<1> QED BY <1>3, <1>4, <1>5 DEF ReadOwner

LEMMA BindOwnerKeeps ==
  ASSUME Inv, NEW f \in Flows, BindOwner(f)
  PROVE  Inv'
<1>1. TypeOK /\ FlowsPlaced
  BY DEF Inv, FlowInv
<1>2. /\ UNCHANGED <<serverVars, sessionVars, claim, late, counted, faults, csrf>>
      /\ pc[f] \notin Fetching \cup Sending /\ f # "handoff"
  BY <1>1 DEF BindOwner, FlowsPlaced, PlacedAt, Fetching, Sending
<1>3. FlowMoves(f) /\ UNCHANGED <<view, operator>>
  BY <1>1, <1>2, BoundMoves DEF BindOwner
<1>4. PICK S : S = IF pc[f] = "switch" THEN Unresolved ELSE {}
  OBVIOUS
<1>5. S \subseteq Unresolved /\ SetState(S, "erased")
  BY <1>4 DEF BindOwner
<1>6. MarksKept /\ NoneSettled /\ Marks' = Marks
  BY <1>1, <1>5, SetStateKeeps, TypeParts DEF Inv, DataInv, MarksKept
<1>7. who[f] \in Users \cup {NoOne}
  BY <1>1, TypeParts DEF PlaceTypeOK
<1>8. OwnerTypeOK' /\ TabTypeOK' /\ HistoryTypeOK' /\ cache' = NoBundle
  BY <1>1, <1>2, <1>3, <1>6, <1>7, TabTyped, TypeParts
  DEF BindOwner, OwnerTypeOK, HistoryTypeOK
<1>9. ServerStep /\ CasesKept /\ SessionsStep
  BY <1>2, <1>6, ServerRests, SessionsRest
<1> QED BY <1>2, <1>3, <1>6, <1>8, <1>9, QuietStep

LEMMA ClearDeviceKeeps == ASSUME Inv, ClearDevice PROVE Inv'
<1>1. PICK f \in Flows : f = "logout"
  BY DEF ClearDevice
<1>2. TypeOK /\ FlowsPlaced
  BY DEF Inv, FlowInv
<1>3. /\ UNCHANGED <<serverVars, sessionVars, claim, late, counted, faults>>
      /\ cache' = NoBundle /\ FlowMoves(f)
  BY <1>1, <1>2, EndMoves DEF ClearDevice
<1>4. MarksKept /\ NoneSettled /\ Marks' = Marks
  BY <1>2, SetStateKeeps, TypeParts DEF Inv, DataInv, MarksKept, ClearDevice
<1>5. OwnerTypeOK' /\ TabTypeOK' /\ HistoryTypeOK'
  BY <1>2, <1>3, <1>4, TabTyped, TypeParts DEF ClearDevice, OwnerTypeOK, NoOwner, HistoryTypeOK
<1>6. ServerStep /\ CasesKept /\ SessionsStep
  BY <1>3, <1>4, ServerRests, SessionsRest
<1> QED BY <1>3, <1>4, <1>5, <1>6, QuietStep

LEMMA ResetPendingKeeps ==
  ASSUME Inv, NEW f \in Flows, ResetPending(f)
  PROVE  Inv'
<1>1. TypeOK /\ FlowsPlaced
  BY DEF Inv, FlowInv
<1>2. /\ UNCHANGED <<serverVars, sessionVars, owner, cache, csrf, operator, claim, late,
                     counted, faults>>
      /\ FlowMoves(f) /\ view' \in {view, "login"}
  BY <1>1, FailMoves DEF ResetPending
<1>3. MarksKept /\ NoneSettled /\ Marks' = Marks
  <2>1. batch[f] \cap Unresolved \subseteq Unresolved
    OBVIOUS
  <2> QED BY <1>1, <2>1, SetStateKeeps, TypeParts DEF Inv, DataInv, MarksKept, ResetPending
<1>4. OwnerTypeOK' /\ TabTypeOK' /\ HistoryTypeOK'
  BY <1>1, <1>2, <1>3, TabTyped, TypeParts DEF OwnerTypeOK, HistoryTypeOK
<1>5. ServerStep /\ CasesKept /\ SessionsStep
  BY <1>2, <1>3, ServerRests, SessionsRest
<1> QED BY <1>2, <1>3, <1>4, <1>5, QuietStep

LEMMA BundleLostKeeps ==
  ASSUME Inv, NEW f \in Flows, BundleLost(f)
  PROVE  Inv'
<1>1. TypeOK /\ FlowsPlaced /\ counted' \subseteq Marks
  BY TypeParts DEF Inv, FlowInv, BundleLost, HistoryTypeOK
<1>2. FlowMoves(f) /\ view' \in {view, "login"}
  BY <1>1, FailMoves DEF BundleLost
<1>3. TabTypeOK'
  BY <1>1, <1>2, TabTyped DEF BundleLost
<1> QED BY <1>1, <1>2, <1>3, TabStep DEF BundleLost

LEMMA CheckBundleKeeps ==
  ASSUME Inv, NEW f \in Flows, CheckBundle(f)
  PROVE  Inv'
<1>1. TypeOK /\ FlowsPlaced /\ counted' \subseteq Marks /\ pc[f] = "arrived"
  BY TypeParts DEF Inv, FlowInv, CheckBundle, HistoryTypeOK
<1>2. FlowMoves(f) /\ view' \in {view, "login"}
  <2>1. CASE Goto(f, "replace") /\ UNCHANGED <<who, requestVars, bundle, view>>
    <3>1. PlacedAt(f, "replace", bundle[f]) /\ "replace" \in MoveLabels /\ pc[f] \notin Sending
      BY <1>1 DEF FlowsPlaced, PlacedAt, Fetching, Sending, MoveLabels, PCs
    <3>2. who' \in [Flows -> Users \cup {NoOne}]
      BY <1>1, <2>1, TypeParts DEF PlaceTypeOK
    <3> QED BY <1>1, <2>1, <3>1, <3>2, GotoMoves
  <2>2. CASE Fail(f)
    BY <1>1, <2>2, FailMoves
  <2> QED BY <2>1, <2>2 DEF CheckBundle
<1>3. TabTypeOK'
  BY <1>1, <1>2, TabTyped DEF CheckBundle
<1> QED BY <1>1, <1>2, <1>3, TabStep DEF CheckBundle

LEMMA ReplaceBundleKeeps ==
  ASSUME Inv, NEW f \in Flows, ReplaceBundle(f)
  PROVE  Inv'
<1>1. TypeOK /\ FlowsPlaced /\ counted' \subseteq Marks
  BY TypeParts DEF Inv, FlowInv, ReplaceBundle, HistoryTypeOK
<1>2. FlowMoves(f) /\ view' \in {view, "scanner"} /\ cache' = bundle[f]
  BY <1>1, EndMoves DEF ReplaceBundle
<1>3. TabTypeOK' /\ OwnerTypeOK' /\ faults' \in Nat
  BY <1>1, <1>2, TabTyped, FaultTyped, TypeParts DEF ReplaceBundle, OwnerTypeOK
<1> QED BY <1>1, <1>2, <1>3, LocalStep DEF ReplaceBundle

LEMMA ConfirmLogoutKeeps == ASSUME Inv, ConfirmLogout PROVE Inv'
<1>1. PICK f \in Flows : f = "logout" /\ pc[f] = "confirm"
  BY DEF ConfirmLogout
<1>2. TypeOK /\ FlowsPlaced
  BY DEF Inv, FlowInv
<1>3. CASE counted' = Unresolved /\ Goto(f, "revoke") /\ UNCHANGED <<who, requestVars, bundle>>
  <2>1. /\ PlacedAt(f, "revoke", bundle[f]) /\ "revoke" \in MoveLabels /\ pc[f] \notin Sending
    BY <1>1, <1>2 DEF FlowsPlaced, PlacedAt, Fetching, Sending, MoveLabels, PCs
  <2>2. who' \in [Flows -> Users \cup {NoOne}]
    BY <1>2, <1>3, TypeParts DEF PlaceTypeOK
  <2>3. FlowMoves(f) /\ counted' \subseteq Marks
    BY <1>2, <1>3, <2>1, <2>2, GotoMoves DEF Unresolved
  <2>4. TabTypeOK'
    BY <1>2, TabTyped DEF ConfirmLogout, tabVars
  <2> QED BY <2>3, <2>4, TabStep DEF ConfirmLogout
<1>4. CASE End(f) /\ UNCHANGED counted
  <2>1. FlowMoves(f) /\ counted' \subseteq Marks /\ TabTypeOK'
    BY <1>2, <1>4, EndMoves, TabTyped, TypeParts DEF ConfirmLogout, tabVars, HistoryTypeOK
  <2> QED BY <2>1, TabStep DEF ConfirmLogout
<1> QED BY <1>1, <1>3, <1>4 DEF ConfirmLogout

LEMMA RevokeSessionKeeps == ASSUME Inv, RevokeSession PROVE Inv'
<1>1. PICK f \in Flows : f = "logout" /\ pc[f] = "revoke"
  BY DEF RevokeSession
<1>2. TypeOK /\ FlowsPlaced /\ SessionTypeOK
  BY TypeParts DEF Inv, FlowInv
<1>3. /\ UNCHANGED <<serverVars, sessions, deviceVars, operator, claim, late, counted>>
      /\ live' \subseteq live /\ cookie' \in {cookie, 0} /\ csrf' \in {csrf, 0}
      /\ Fault \/ faults' = faults
      /\ \/ Fail(f)
         \/ Goto(f, "clear") /\ UNCHANGED <<who, requestVars, bundle, view>>
  BY <1>1 DEF RevokeSession
<1>4. FlowMoves(f) /\ view' \in {view, "login"}
  <2>1. CASE Goto(f, "clear") /\ UNCHANGED <<who, requestVars, bundle, view>>
    <3>1. /\ PlacedAt(f, "clear", bundle[f]) /\ "clear" \in MoveLabels /\ pc[f] \notin Sending
      BY <1>1, <1>2 DEF FlowsPlaced, PlacedAt, Fetching, Sending, MoveLabels, PCs
    <3>2. who' \in [Flows -> Users \cup {NoOne}]
      BY <1>2, <2>1, TypeParts DEF PlaceTypeOK
    <3> QED BY <1>2, <2>1, <3>1, <3>2, GotoMoves
  <2>2. CASE Fail(f)
    BY <1>2, <2>2, FailMoves
  <2> QED BY <1>3, <2>1, <2>2
<1>5. marks' = marks /\ owner' = owner /\ cache' = cache
  BY <1>3 DEF deviceVars
<1>6. MarksKept /\ NoneSettled /\ Marks' = Marks
  BY <1>2, <1>5, MarksStutter, TypeParts DEF Inv, DataInv, MarksKept
<1>7. SessionsStep
  BY <1>2, <1>3, SessionsStutter DEF Inv, FlowInv
<1>8. ServerStep /\ CasesKept
  BY <1>3, <1>6, ServerRests
<1>9. OwnerTypeOK' /\ TabTypeOK' /\ HistoryTypeOK'
  BY <1>2, <1>3, <1>4, <1>5, <1>6, TabTyped, FaultTyped, TypeParts DEF OwnerTypeOK, HistoryTypeOK
<1> QED BY <1>3, <1>4, <1>5, <1>6, <1>7, <1>8, <1>9, QuietStep

LEMMA SessionEndsKeeps == ASSUME Inv, SessionEnds PROVE Inv'
<1>1. /\ UNCHANGED <<serverVars, sessions, cookie, deviceVars, tabVars, flowVars, late, counted>>
      /\ live' \subseteq live /\ Fault
  BY DEF SessionEnds
<1>2. TypeOK /\ marks' = marks /\ owner' = owner /\ cache' = cache
  BY <1>1 DEF deviceVars, Inv
<1>3. MarksKept /\ NoneSettled /\ Marks' = Marks
  BY <1>2, MarksStutter, TypeParts DEF Inv, DataInv, MarksKept
<1>4. SessionsStep
  BY <1>1, <1>2, SessionsStutter, TypeParts DEF Inv, FlowInv
<1>5. ServerStep /\ CasesKept
  BY <1>1, <1>3, ServerRests
<1>6. OwnerTypeOK' /\ TabTypeOK' /\ HistoryTypeOK'
  BY <1>1, <1>2, <1>3, TabTyped, FaultTyped, TypeParts DEF OwnerTypeOK, HistoryTypeOK, tabVars
<1> QED BY <1>1, <1>2, <1>3, <1>4, <1>5, <1>6, StillStep

LEMMA ExpireCacheKeeps == ASSUME Inv, ExpireCache PROVE Inv'
<1>1. /\ UNCHANGED <<serverVars, sessionVars, marks, owner, tabVars, flowVars, late, counted>>
      /\ cache' = NoBundle /\ Fault /\ TypeOK
  BY DEF ExpireCache, Inv
<1>2. MarksKept /\ NoneSettled /\ Marks' = Marks
  BY <1>1, MarksStutter, TypeParts DEF Inv, DataInv, MarksKept
<1>3. ServerStep /\ CasesKept /\ SessionsStep
  BY <1>1, <1>2, ServerRests, SessionsRest
<1>4. OwnerTypeOK' /\ TabTypeOK' /\ HistoryTypeOK'
  BY <1>1, <1>2, TabTyped, FaultTyped, TypeParts DEF OwnerTypeOK, HistoryTypeOK, tabVars
<1> QED BY <1>1, <1>2, <1>3, <1>4, StillStep

-----------------------------------------------------------------------------
\* The steps that read, send, answer or abandon a request.
LEMMA Assembled ==
  ASSUME ServerStep, MarksKept, CasesKept, SessionsStep,
         OwnerTypeOK', CacheTypeOK', TabTypeOK', RequestTypeOK', PlaceTypeOK',
         ClaimTypeOK', HistoryTypeOK', FlowInv', DataInv'
  PROVE  Inv'
<1>1. TypeOK'
  BY TypePartsNext DEF ServerStep, MarksKept, CasesKept, SessionsStep
<1>2. ServerInv'
  BY DEF ServerStep, ServerInv
<1> QED BY <1>1, <1>2 DEF Inv

LEMMA FlowGoes ==
  ASSUME TypeOK, FlowInv, NEW f \in Flows, NEW l \in PCs \ {"handoff", "ack"},
         pc' = [pc EXCEPT ![f] = l], UNCHANGED <<who, bundle, claim>>,
         PlacedAt(f, l, bundle[f]),
         l \notin Sending => rest'[f] = {},
         l = "serving" => auth'[f] \in 1..MaxLogins /\ sessions[auth'[f]] \in Users,
         \A g \in Flows \ {f} : rest'[g] = rest[g] /\ auth'[g] = auth[g],
         SessionsStep, CasesKept, Marks' = Marks
  PROVE  Flows' = Flows /\ PlaceTypeOK' /\ FlowInv'
<1>1. /\ Flows' = Flows /\ pc' \in [Flows -> PCs] /\ pc'[f] = l
      /\ \A g \in Flows \ {f} : pc'[g] = pc[g]
  BY TypeParts DEF PlaceTypeOK, Flows
<1>2. FlowsPlaced'
  <2>1. \A g \in Flows : PlacedAt(g, pc'[g], bundle'[g])
    BY <1>1 DEF FlowInv, FlowsPlaced
  <2>2. ASSUME NEW g \in Flows, pc'[g] \notin Sending PROVE rest'[g] = {}
    BY <1>1, <2>2 DEF FlowInv, FlowsPlaced
  <2> QED BY <1>1, <2>1, <2>2 DEF FlowInv, FlowsPlaced, PlacedAt
<1>3. SessionsKnown'
  <2> SUFFICES ASSUME NEW g \in Flows, pc'[g] = "serving"
               PROVE  auth'[g] \in 1..MaxLogins /\ sessions'[auth'[g]] \in Users
    BY <1>1 DEF SessionsStep, SessionsKnown
  <2>1. CASE g = f
    BY <1>1, <2>1 DEF SessionsStep
  <2>2. CASE g # f
    BY <1>1, <2>2 DEF SessionsStep, FlowInv, SessionsKnown
  <2> QED BY <2>1, <2>2
<1>4. HandoffStored'
  BY <1>1 DEF FlowInv, HandoffStored, CasesKept
<1>5. PlaceTypeOK'
  BY <1>1, TypeParts DEF PlaceTypeOK
<1> QED BY <1>1, <1>2, <1>3, <1>4, <1>5 DEF FlowInv

\* A step of a request that hears nothing from the server and settles no mark.
LEMMA RequestStep ==
  ASSUME Inv, NEW f \in Flows, NEW l \in PCs \ {"handoff", "ack"},
         pc' = [pc EXCEPT ![f] = l], PlacedAt(f, l, bundle[f]),
         l \notin Sending => rest'[f] = {},
         l = "serving" => auth'[f] \in 1..MaxLogins /\ sessions[auth'[f]] \in Users,
         \A g \in Flows \ {f} : rest'[g] = rest[g] /\ auth'[g] = auth[g],
         rest'[f] \subseteq rest[f] \cup Unresolved,
         RequestTypeOK', UNCHANGED results, MarksKept, NoneSettled,
         UNCHANGED <<serverVars, sessionVars, owner, cache, tabVars, who, bundle, claim, counted>>,
         late' \subseteq late \cup Orphans({f}), Fault \/ faults' = faults
  PROVE  Inv'
<1>1. TypeOK /\ FlowInv /\ DataInv /\ Marks' = Marks
  BY DEF Inv, MarksKept
<1>2. ServerStep /\ CasesKept /\ SessionsStep
  BY <1>1, ServerRests, SessionsRest
<1>3. Flows' = Flows /\ PlaceTypeOK' /\ FlowInv'
  BY <1>1, <1>2, FlowGoes
<1>4. NothingLearnt
  BY <1>3 DEF NothingLearnt, RestKept, ResultsKept, BundlesKept
<1>5. DataInv'
  BY <1>1, <1>2, <1>4, DataStays
<1>6. OwnerTypeOK' /\ CacheTypeOK' /\ TabTypeOK' /\ ClaimTypeOK'
  BY <1>1, TypeParts DEF OwnerTypeOK, CacheTypeOK, TabTypeOK, ClaimTypeOK, tabVars
<1>7. HistoryTypeOK'
  <2>1. Orphans({f}) \subseteq [mark : Marks, user : Users]
    BY <1>1, TypeParts DEF Orphans, RequestTypeOK, FlowInv, SessionsKnown
  <2> QED BY <1>1, <2>1, FaultTyped, TypeParts DEF HistoryTypeOK
<1> QED BY <1>2, <1>3, <1>5, <1>6, <1>7, Assembled

LEMMA MinIsMember ==
  ASSUME NEW S \in SUBSET Nat, S # {}
  PROVE  Min(S) \in S
<1>1. PICK x \in S : \A y \in S : ~(<<y, x>> \in OpToRel(<, Nat))
  BY WFMin, NatLessThanWellFounded
<1>2. ASSUME NEW y \in S PROVE x <= y
  <2>1. ~(y < x)
    <3>1. ASSUME y < x PROVE <<y, x>> \in OpToRel(<, Nat)
      BY <3>1 DEF OpToRel
    <3> QED BY <1>1, <3>1
  <2> QED BY <2>1
<1> QED BY <1>2 DEF Min

LEMMA QueueMarkKeeps == ASSUME Inv, QueueMark PROVE Inv'
<1> DEFINE unused == {m \in Marks : marks[m].state = "unused"}
<1>1. PICK f \in Flows : f = "record" /\ pc[f] = "queue"
  BY DEF QueueMark
<1>2. TypeOK /\ FlowsPlaced /\ MarksTypeOK /\ MarksPlaced
  BY TypeParts DEF Inv, FlowInv, DataInv
<1>3. /\ UNCHANGED <<serverVars, sessionVars, owner, cache, tabVars, claim, late, counted, faults>>
      /\ \/ unused = {} /\ End(f) /\ UNCHANGED marks
         \/ /\ unused # {}
            /\ \E r \in Regs : marks' = [marks EXCEPT ![Min(unused)] =
                  [state |-> "PENDING", why |-> "none", reg |-> r, by |-> who[f]]]
            /\ \/ Goto(f, "read") /\ UNCHANGED <<who, requestVars, bundle>>
               \/ End(f)
  BY <1>1 DEF QueueMark
<1>4. FlowMoves(f)
  <2>1. CASE Goto(f, "read") /\ UNCHANGED <<who, requestVars, bundle>>
    <3>1. /\ PlacedAt(f, "read", bundle[f]) /\ "read" \in MoveLabels /\ pc[f] \notin Sending
      BY <1>1, <1>2 DEF FlowsPlaced, PlacedAt, Fetching, Sending, MoveLabels, PCs
    <3>2. who' \in [Flows -> Users \cup {NoOne}]
      BY <1>2, <2>1, TypeParts DEF PlaceTypeOK
    <3> QED BY <1>2, <2>1, <3>1, <3>2, GotoMoves
  <2>2. CASE End(f)
    BY <1>2, <2>2, EndMoves
  <2> QED BY <1>3, <2>1, <2>2
<1>5. MarksKept /\ NoneSettled /\ Marks' = Marks
  <2>1. CASE UNCHANGED marks
    BY <1>2, <2>1, MarksStutter DEF MarksKept
  <2>2. CASE unused # {} /\ \E r \in Regs : marks' = [marks EXCEPT ![Min(unused)] =
               [state |-> "PENDING", why |-> "none", reg |-> r, by |-> who[f]]]
    <3>0. PICK n : n = Min(unused)
      OBVIOUS
    <3>1. PICK r \in Regs : marks' = [marks EXCEPT ![n] =
               [state |-> "PENDING", why |-> "none", reg |-> r, by |-> who[f]]]
      BY <2>2, <3>0
    <3>2. n \in Marks /\ marks[n].state = "unused"
      <4>1. unused \in SUBSET Nat
        BY <1>2 DEF MarksPlaced
      <4>2. Min(unused) \in unused
        BY <2>2, <4>1, MinIsMember
      <4> QED BY <3>0, <4>2
    <3>3. who[f] \in Users \cup {NoOne}
      BY <1>2, TypeParts DEF PlaceTypeOK
    <3>4. marks' \in [Marks -> MarkRecord] /\ Marks' = Marks
      BY <1>2, <3>1, <3>3 DEF MarksTypeOK, MarkRecord, Stored, Marks
    <3>5. /\ marks'[n].state = "PENDING" /\ marks'[n].reg \in Regs
          /\ \A m \in Marks \ {n} : marks'[m] = marks[m]
      BY <1>2, <3>1, <3>2 DEF MarksTypeOK
    <3>6. MarksTypeOK' /\ MarksPlaced'
      BY <1>2, <3>4, <3>5 DEF MarksTypeOK, MarkRecord, MarksPlaced
    <3>7. NoneSettled
      BY <3>5 DEF NoneSettled
    <3>8. MarksKept
      BY <3>2, <3>4, <3>5, <3>6 DEF MarksKept, Gone
    <3> QED BY <3>4, <3>7, <3>8
  <2> QED BY <1>3, <2>1, <2>2
<1>6. ServerStep /\ CasesKept /\ SessionsStep
  BY <1>3, <1>5, ServerRests, SessionsRest
<1>7. OwnerTypeOK' /\ TabTypeOK' /\ HistoryTypeOK'
  BY <1>2, <1>3, <1>5, TabTyped, TypeParts DEF OwnerTypeOK, HistoryTypeOK, tabVars
<1> QED BY <1>3, <1>4, <1>5, <1>6, <1>7, QuietStep

LEMMA LoginKeeps == ASSUME Inv, NEW u \in Users, Login(u) PROVE Inv'
<1> DEFINE used == {t \in 1..MaxLogins : sessions[t] # NoOne}
<1>1. PICK s : /\ s = Cardinality(used) + 1
               /\ s <= MaxLogins
               /\ sessions' = [sessions EXCEPT ![s] = u]
               /\ live' = (live \ {cookie}) \cup {s}
               /\ cookie' = s
               /\ csrf' = s
  BY DEF Login
<1>2. s \in 1..MaxLogins
  <2>1. Cardinality(used) \in Nat
    <3>1. IsFiniteSet(1..MaxLogins) /\ used \in SUBSET (1..MaxLogins)
      BY FS_Interval
    <3> HIDE DEF used
    <3> QED BY <3>1, FS_Subset, FS_CardinalityType
  <2> HIDE DEF used
  <2> QED BY <1>1, <2>1
<1>3. /\ TypeOK /\ FlowsPlaced /\ SessionTypeOK /\ SessionsKnown /\ HistoryTypeOK
      /\ OwnerTypeOK /\ operator \in Users \cup {NoOne}
  BY TypeParts DEF Inv, FlowInv, TabTypeOK
<1>4. /\ UNCHANGED <<serverVars, deviceVars, operator, late, counted, faults>>
      /\ view' = "loading" /\ Start("load", "session", NoOne)
  BY DEF Login
<1>5. PICK f \in Flows : f = "load" /\ FlowMoves(f) /\ claim' = claim
  BY <1>3, <1>4, StartMoves
<1>6. SessionsStep
  <2> HIDE DEF used
  <2>1. /\ sessions' \in [1..MaxLogins -> Users \cup {NoOne}] /\ sessions'[s] \in Users
        /\ \A t \in 1..MaxLogins : t # s => sessions'[t] = sessions[t]
    BY <1>1, <1>2, <1>3 DEF SessionTypeOK
  <2>2. SessionTypeOK'
    <3>1. live' \subseteq 1..MaxLogins
      BY <1>1, <1>2, <1>3 DEF SessionTypeOK
    <3>2. cookie' \in 0..MaxLogins
      BY <1>1, <1>2
    <3> QED BY <2>1, <3>1, <3>2 DEF SessionTypeOK
  <2>3. \A t \in live' : sessions'[t] \in Users
    BY <1>1, <1>2, <1>3, <2>1 DEF SessionTypeOK, SessionsKnown
  <2> QED BY <2>1, <2>2, <2>3 DEF SessionsStep
<1>7. marks' = marks /\ owner' = owner /\ cache' = cache
  BY <1>4 DEF deviceVars
<1>8. MarksKept /\ NoneSettled /\ Marks' = Marks
  BY <1>3, <1>7, MarksStutter, TypeParts DEF Inv, DataInv, MarksKept
<1>9. ServerStep /\ CasesKept
  BY <1>4, <1>8, ServerRests
<1>10. OwnerTypeOK' /\ TabTypeOK' /\ HistoryTypeOK'
  BY <1>1, <1>2, <1>3, <1>4, <1>7, <1>8 DEF OwnerTypeOK, TabTypeOK, HistoryTypeOK
<1> QED BY <1>4, <1>5, <1>6, <1>7, <1>8, <1>9, <1>10, QuietStep

LEMMA ReadPendingKeeps ==
  ASSUME Inv, NEW f \in Flows, ReadPending(f)
  PROVE  Inv'
<1>1. /\ TypeOK /\ FlowsPlaced /\ MarksTypeOK /\ MarksPlaced /\ RequestTypeOK
      /\ counted' \subseteq Marks
  BY TypeParts DEF Inv, FlowInv, DataInv, ReadPending, HistoryTypeOK
<1>2. /\ pc[f] = "read" /\ rest[f] = {} /\ f # "handoff" /\ bundle[f] = NoBundle
      /\ UNCHANGED <<serverVars, sessionVars, deviceVars, tabVars, claim, late, counted, faults>>
  BY <1>1 DEF ReadPending, FlowsPlaced, PlacedAt, Sending, Fetching
<1>3. CASE FlushDone(f)
  <2>1. FlowMoves(f) /\ TabTypeOK'
    BY <1>1, <1>2, <1>3, FlushDoneMoves, TabTyped DEF Fetching, tabVars
  <2> QED BY <1>1, <1>2, <2>1, TabStep
<1>4. CASE /\ rest' = [rest EXCEPT ![f] = Pending]
           /\ Goto(f, "send")
           /\ UNCHANGED <<who, batch, auth, todo, results, bundle>>
  <2>1. PlacedAt(f, "send", bundle[f]) /\ "send" \in PCs
    BY <1>2 DEF PlacedAt, PCs, Fetching
  <2>2. marks' = marks /\ owner' = owner /\ cache' = cache
    BY <1>2 DEF deviceVars
  <2>3. MarksKept /\ NoneSettled /\ Marks' = Marks
    BY <1>1, <2>2, MarksStutter DEF MarksKept
  <2>4. /\ Pending \subseteq Unresolved /\ Pending \subseteq Marks
        /\ rest'[f] = Pending /\ \A g \in Flows \ {f} : rest'[g] = rest[g]
        /\ rest' \in [Flows -> SUBSET Marks]
    BY <1>1, <1>4 DEF Pending, Unresolved, RequestTypeOK
  <2>5. RequestTypeOK'
    <3>1. Flows' = Flows
      BY <1>1, <1>4 DEF Flows, Goto
    <3>2. \A g \in Flows : todo[g] \subseteq batch[g] /\ batch[g] \subseteq rest'[g]
      BY <1>1, <1>2, <2>4 DEF RequestTypeOK
    <3> QED BY <1>1, <1>4, <2>3, <2>4, <3>1, <3>2 DEF RequestTypeOK
  <2> QED BY <1>1, <1>2, <1>4, <2>1, <2>2, <2>3, <2>4, <2>5, RequestStep DEF Goto, Sending
<1> QED BY <1>3, <1>4 DEF ReadPending

LEMMA SendBatchKeeps ==
  ASSUME Inv, NEW f \in Flows, SendBatch(f)
  PROVE  Inv'
<1>1. /\ TypeOK /\ FlowsPlaced /\ MarksTypeOK /\ MarksPlaced /\ RequestTypeOK
      /\ SessionTypeOK
  BY TypeParts DEF Inv, FlowInv, DataInv
<1>2. /\ pc[f] = "send" /\ f # "handoff" /\ bundle[f] = NoBundle
      /\ UNCHANGED <<serverVars, sessionVars, owner, cache, tabVars, who, rest, results,
                     bundle, claim, late, counted, faults>>
  BY <1>1 DEF SendBatch, FlowsPlaced, PlacedAt, Sending, Fetching
<1>3. PICK B : B = Oldest(rest[f])
  OBVIOUS
<1>4. /\ B \subseteq rest[f] /\ SetState(B \cap Unresolved, "SYNCING")
      /\ batch' = [batch EXCEPT ![f] = B] /\ todo' = [todo EXCEPT ![f] = B]
      /\ auth' = [auth EXCEPT ![f] = Authentic] /\ Goto(f, "sent")
  BY <1>3 DEF SendBatch, Oldest
<1>5. PlacedAt(f, "sent", bundle[f]) /\ "sent" \in PCs
  BY <1>2 DEF PlacedAt, PCs, Fetching
<1>6. MarksKept /\ NoneSettled /\ Marks' = Marks
  BY <1>1, <1>4, SetStateKeeps DEF MarksKept
<1>7. Authentic \in 0..MaxLogins
  BY <1>1 DEF Authentic, SessionTypeOK
<1>8. RequestTypeOK'
  <2>1. Flows' = Flows
    BY <1>1, <1>4, TypeParts DEF Flows, Goto, PlaceTypeOK
  <2>2. /\ batch' \in [Flows -> SUBSET Marks] /\ todo' \in [Flows -> SUBSET Marks]
        /\ \A g \in Flows : todo'[g] \subseteq batch'[g] /\ batch'[g] \subseteq rest[g]
    BY <1>1, <1>4 DEF RequestTypeOK
  <2>3. auth' \in [Flows -> 0..MaxLogins]
    BY <1>1, <1>4, <1>7 DEF RequestTypeOK
  <2> QED BY <1>1, <1>2, <1>6, <2>1, <2>2, <2>3 DEF RequestTypeOK
<1>9. \A g \in Flows \ {f} : rest'[g] = rest[g] /\ auth'[g] = auth[g]
  BY <1>1, <1>2, <1>4 DEF RequestTypeOK
<1> QED BY <1>2, <1>4, <1>5, <1>6, <1>8, <1>9, RequestStep DEF Goto, Sending

LEMMA ArriveKeeps ==
  ASSUME Inv, NEW f \in Flows, Arrive(f)
  PROVE  Inv'
<1> DEFINE l == IF auth[f] \in live THEN "serving" ELSE "reset"
<1>1. /\ TypeOK /\ FlowsPlaced /\ MarksTypeOK /\ MarksPlaced /\ RequestTypeOK
      /\ SessionTypeOK /\ SessionsKnown
  BY TypeParts DEF Inv, FlowInv, DataInv
<1>2. /\ pc[f] = "sent" /\ f # "handoff" /\ bundle[f] = NoBundle /\ Goto(f, l)
      /\ UNCHANGED <<serverVars, sessionVars, deviceVars, tabVars, who, requestVars, bundle,
                     claim, late, counted, faults>>
  BY <1>1 DEF Arrive, FlowsPlaced, PlacedAt, Sending, Fetching
<1>3. PlacedAt(f, l, bundle[f]) /\ l \in PCs \ {"handoff", "ack"} /\ l \in Sending
  BY <1>2 DEF PlacedAt, PCs, Fetching, Sending
<1>4. marks' = marks /\ owner' = owner /\ cache' = cache
  BY <1>2 DEF deviceVars
<1>5. MarksKept /\ NoneSettled /\ Marks' = Marks
  BY <1>1, <1>4, MarksStutter DEF MarksKept
<1>6. /\ rest' = rest /\ batch' = batch /\ auth' = auth /\ todo' = todo /\ results' = results
      /\ Flows' = Flows
  BY <1>1, <1>2, TypeParts DEF requestVars, Flows, Goto, PlaceTypeOK
<1>7. RequestTypeOK'
  BY <1>1, <1>5, <1>6 DEF RequestTypeOK
<1>8. l = "serving" => auth'[f] \in 1..MaxLogins /\ sessions[auth'[f]] \in Users
  BY <1>1, <1>6 DEF SessionTypeOK, SessionsKnown
<1> HIDE DEF l
<1> QED BY <1>2, <1>3, <1>4, <1>5, <1>6, <1>7, <1>8, RequestStep DEF Goto

LEMMA AbandonKeeps ==
  ASSUME Inv, NEW f \in Flows, Abandon(f)
  PROVE  Inv'
<1>1. /\ TypeOK /\ FlowsPlaced /\ MarksTypeOK /\ MarksPlaced /\ RequestTypeOK
  BY TypeParts DEF Inv, FlowInv, DataInv
<1>2. /\ f # "handoff" /\ bundle[f] = NoBundle /\ Goto(f, "reset") /\ Fault
      /\ late' \subseteq late \cup Orphans({f}) /\ todo' = [todo EXCEPT ![f] = {}]
      /\ UNCHANGED <<serverVars, sessionVars, deviceVars, tabVars, who, rest, batch, auth,
                     results, bundle, claim, counted>>
  BY <1>1 DEF Abandon, FlowsPlaced, PlacedAt, Sending, Fetching
<1>3. PlacedAt(f, "reset", bundle[f]) /\ "reset" \in PCs
  BY <1>2 DEF PlacedAt, PCs, Fetching
<1>4. marks' = marks /\ owner' = owner /\ cache' = cache
  BY <1>2 DEF deviceVars
<1>5. MarksKept /\ NoneSettled /\ Marks' = Marks
  BY <1>1, <1>4, MarksStutter DEF MarksKept
<1>6. RequestTypeOK'
  <2>1. Flows' = Flows
    BY <1>1, <1>2, TypeParts DEF Flows, Goto, PlaceTypeOK
  <2>2. todo' \in [Flows -> SUBSET Marks] /\ \A g \in Flows : todo'[g] \subseteq batch[g]
    BY <1>1, <1>2 DEF RequestTypeOK
  <2> QED BY <1>1, <1>2, <1>5, <2>1, <2>2 DEF RequestTypeOK
<1> QED BY <1>2, <1>3, <1>4, <1>5, <1>6, RequestStep DEF Goto, Sending

-----------------------------------------------------------------------------
\* The steps that build a bundle, each from what the server holds.
LEMMA BundleStep ==
  ASSUME Inv, NEW f \in Flows, NEW l \in Fetching, NEW b \in Bundles, BundleOK(b),
         PlacedAt(f, l, b), pc[f] \notin Sending,
         pc' = [pc EXCEPT ![f] = l], bundle' = [bundle EXCEPT ![f] = b],
         UNCHANGED <<serverVars, sessionVars, deviceVars, tabVars, who, requestVars,
                     claim, late, counted, faults>>
  PROVE  Inv'
<1>1. /\ TypeOK /\ FlowInv /\ DataInv /\ FlowsPlaced /\ MarksTypeOK /\ MarksPlaced
      /\ RequestTypeOK
  BY TypeParts DEF Inv, FlowInv, DataInv
<1>2. /\ marks' = marks /\ owner' = owner /\ cache' = cache
      /\ rest' = rest /\ batch' = batch /\ auth' = auth /\ todo' = todo
      /\ results' = results /\ who' = who
  BY DEF deviceVars, requestVars
<1>3. MarksKept /\ NoneSettled /\ Marks' = Marks
  BY <1>1, <1>2, MarksStutter DEF MarksKept
<1>4. ServerStep /\ CasesKept /\ SessionsStep
  BY <1>3, ServerRests, SessionsRest
<1>5. /\ Flows' = Flows /\ pc' \in [Flows -> PCs] /\ pc'[f] = l /\ f # "handoff"
      /\ \A g \in Flows \ {f} : pc'[g] = pc[g]
  BY <1>1, TypeParts DEF PlaceTypeOK, Flows, PCs, Fetching, PlacedAt
<1>6. /\ DOMAIN bundle' = Flows /\ bundle' = [g \in Flows |-> bundle'[g]] /\ bundle'[f] = b
      /\ \A g \in Flows \ {f} : bundle'[g] = bundle[g]
  BY <1>1 DEF FlowsPlaced
<1>7. FlowInv'
  <2>1. \A g \in Flows : PlacedAt(g, pc'[g], bundle'[g])
    BY <1>1, <1>5, <1>6 DEF FlowsPlaced
  <2>2. FlowsPlaced'
    BY <1>1, <1>2, <1>5, <1>6, <2>1 DEF FlowsPlaced, PlacedAt, Fetching, Sending
  <2>3. SessionsKnown'
    BY <1>1, <1>2, <1>4, <1>5 DEF SessionsKnown, FlowInv, SessionsStep, Fetching
  <2>4. HandoffStored'
    BY <1>1, <1>3, <1>4, <1>5 DEF HandoffStored, FlowInv, CasesKept, Fetching
  <2> QED BY <2>2, <2>3, <2>4 DEF FlowInv
<1>8. BundlesOK'
  <2>1. ASSUME NEW c, c = b \/ c = cache \/ \E g \in Flows : c = bundle[g]
        PROVE  BundleOK(c)'
    <3>1. BundleOK(c) /\ (c = NoBundle \/ c \in Bundles)
      BY <1>1, <2>1, TypeParts DEF DataInv, BundlesOK, CacheTypeOK, PlaceTypeOK
    <3> QED BY <1>1, <1>4, <3>1, BundleStays, TypeParts DEF ServerStep
  <2>2. ASSUME NEW g \in Flows PROVE BundleOK(bundle[g])'
    <3>1. PICK c : c = bundle'[g]
      OBVIOUS
    <3>2. BundleOK(c)'
      BY <1>6, <2>1, <3>1
    <3> QED BY <3>1, <3>2 DEF BundleOK
  <2>3. BundleOK(cache)'
    <3>1. PICK c : c = cache
      OBVIOUS
    <3>2. BundleOK(c)'
      BY <2>1, <3>1
    <3> QED BY <1>2, <3>1, <3>2 DEF BundleOK
  <2> QED BY <1>5, <2>2, <2>3 DEF BundlesOK
<1>9. DataInv'
  <2>1. RestUsed' /\ ResultsTrue'
    BY <1>1, <1>2, <1>3, <1>4, <1>5, RestStaysUsed, ResultsStay
    DEF DataInv, RestKept, ResultsKept, ServerStep
  <2>2. NoMarkLost'
    BY <1>1, <1>3, <1>4, MarksNotLost DEF ServerStep
  <2> QED BY <1>3, <1>8, <2>1, <2>2 DEF DataInv, MarksKept
<1>10. PlaceTypeOK'
  BY <1>1, <1>2, <1>5, <1>6, TypeParts DEF PlaceTypeOK
<1>11. OwnerTypeOK' /\ CacheTypeOK' /\ TabTypeOK' /\ ClaimTypeOK' /\ HistoryTypeOK'
  BY <1>1, <1>2, <1>3, TypeParts
  DEF OwnerTypeOK, CacheTypeOK, TabTypeOK, tabVars, ClaimTypeOK, HistoryTypeOK
<1>12. RequestTypeOK'
  BY <1>1, <1>2, <1>3, <1>5 DEF RequestTypeOK
<1> QED BY <1>3, <1>4, <1>7, <1>9, <1>10, <1>11, <1>12, Assembled

LEMMA BundleVersionKeeps ==
  ASSUME Inv, NEW f \in Flows, BundleVersion(f)
  PROVE  Inv'
<1>1. TypeOK /\ FlowsPlaced /\ version \in Nat \ {0} /\ counted' \subseteq Marks
  BY TypeParts DEF Inv, FlowInv, ServerTypeOK, BundleVersion, HistoryTypeOK
<1>2. /\ pc[f] = "version" /\ bundle[f] = NoBundle /\ f \in {"prepare", "reconnect"}
  BY <1>1 DEF BundleVersion, FlowsPlaced, PlacedAt, Fetching
<1>3. CASE Fail(f)
  <2>1. FlowMoves(f) /\ view' \in {view, "login"}
    BY <1>1, <1>3, FailMoves
  <2>2. TabTypeOK'
    BY <1>1, <2>1, TabTyped DEF BundleVersion
  <2> QED BY <1>1, <2>1, <2>2, TabStep DEF BundleVersion
<1>4. CASE /\ bundle' = [bundle EXCEPT ![f].version = version]
           /\ Goto(f, "rows")
           /\ UNCHANGED <<who, requestVars, view>>
  <2>1. PICK b : b = [version |-> version, first |-> [r \in {} |-> NoTime]]
    OBVIOUS
  <2>2. b.version = version /\ DOMAIN b.first = {}
    BY <2>1
  <2>3. b \in Bundles
    <3>1. [r \in {} |-> NoTime] \in [{} -> Clients \cup {NoTime}] /\ {} \in SUBSET Regs
      OBVIOUS
    <3>2. [r \in {} |-> NoTime] \in UNION {[S -> Clients \cup {NoTime}] : S \in SUBSET Regs}
      BY <3>1
    <3> QED BY <1>1, <2>1, <3>2 DEF Bundles
  <2>4. BundleOK(b)
    BY <1>1, <2>2 DEF BundleOK
  <2>5. PlacedAt(f, "rows", b) /\ "rows" \in Fetching
    BY <1>2, <2>2, <2>3 DEF PlacedAt, Fetching, PCs
  <2>6. bundle' = [bundle EXCEPT ![f] = b]
    <3>1. b = [bundle[f] EXCEPT !.version = version]
      BY <1>2, <2>1 DEF NoBundle
    <3> QED BY <1>1, <1>4, <3>1 DEF FlowsPlaced
  <2>7. pc[f] \notin Sending
    BY <1>2 DEF Sending
  <2> QED BY <1>4, <2>3, <2>4, <2>5, <2>6, <2>7, BundleStep DEF BundleVersion, Goto, tabVars
<1> QED BY <1>3, <1>4 DEF BundleVersion

LEMMA BundleRowsKeeps ==
  ASSUME Inv, NEW f \in Flows, BundleRows(f)
  PROVE  Inv'
<1>1. /\ TypeOK /\ FlowsPlaced /\ ServerTypeOK /\ PublishedSeen /\ BundleOK(bundle[f])
  BY TypeParts DEF Inv, ServerInv, FlowInv, DataInv, BundlesOK
<1>2. /\ pc[f] = "rows" /\ bundle[f] \in Bundles /\ f \in {"prepare", "reconnect"}
  BY <1>1 DEF BundleRows, FlowsPlaced, PlacedAt, Fetching
<1>3. PICK v, S : v = bundle[f].version /\ S = Active
  OBVIOUS
<1>4. PICK b : b = [version |-> v, first |-> [r \in S |-> regs[r].first]]
  OBVIOUS
<1>5. /\ v \in Nat \ {0} /\ v <= version /\ S \subseteq Regs
      /\ \A r \in S : regs[r].status = "ACTIVE" /\ regs[r].first \in Clients \cup {NoTime}
  BY <1>1, <1>2, <1>3 DEF Bundles, Active, ServerTypeOK, Registration, BundleOK
<1>6. b \in Bundles
  <2>1. [r \in S |-> regs[r].first] \in [S -> Clients \cup {NoTime}] /\ S \in SUBSET Regs
    BY <1>5
  <2>2. [r \in S |-> regs[r].first] \in UNION {[T -> Clients \cup {NoTime}] : T \in SUBSET Regs}
    BY <2>1
  <2> QED BY <1>4, <1>5, <2>2 DEF Bundles
<1>7. /\ b.version = v /\ DOMAIN b.first = S /\ \A r \in S : b.first[r] = regs[r].first
  BY <1>4
<1>8. BundleOK(b)
  <2>1. ASSUME NEW r \in Regs
        PROVE  /\ published[r].annulled \in 1..v => r \notin S
               /\ published[r].attended \in 1..v /\ r \in S => b.first[r] # NoTime
    BY <1>1, <1>5, <1>7 DEF PublishedSeen
  <2> QED BY <1>5, <1>7, <2>1 DEF BundleOK
<1>9. PlacedAt(f, "arrived", b) /\ "arrived" \in Fetching
  BY <1>2, <1>6 DEF PlacedAt, Fetching, PCs
<1>10. bundle' = [bundle EXCEPT ![f] = b]
  <2>1. b = [bundle[f] EXCEPT !.first = [r \in Active |-> regs[r].first]]
    BY <1>2, <1>3, <1>4 DEF Bundles
  <2> QED BY <1>1, <2>1 DEF FlowsPlaced, BundleRows
<1>11. pc[f] \notin Sending
  BY <1>2 DEF Sending
<1> QED BY <1>6, <1>8, <1>9, <1>10, <1>11, BundleStep DEF BundleRows, Goto

-----------------------------------------------------------------------------
\* What the server does of its own accord.
LEMMA ServerMoves ==
  ASSUME Inv, ServerStep,
         UNCHANGED <<cases, sessionVars, deviceVars, tabVars, flowVars, counted, faults>>,
         late' \subseteq late
  PROVE  Inv'
<1>1. marks' = marks /\ owner' = owner /\ cache' = cache
  BY DEF deviceVars
<1>2. MarksKept /\ NoneSettled /\ Marks' = Marks
  BY <1>1, MarksStutter, TypeParts DEF Inv, DataInv, MarksKept
<1>3. CasesKept /\ SessionsStep
  BY <1>2, CasesStutter, SessionsRest, TypeParts DEF Inv
<1>4. OwnerTypeOK' /\ TabTypeOK' /\ HistoryTypeOK'
  BY <1>1, <1>2, TypeParts DEF Inv, OwnerTypeOK, TabTypeOK, tabVars, HistoryTypeOK
<1> QED BY <1>1, <1>2, <1>3, <1>4, StillStep

LEMMA ItemTyped ==
  ASSUME Inv, NEW m \in Marks, NEW u \in Users
  PROVE  Item(m, u) \in ItemOf(Regs \cup {NoOne})
<1>1. m \in Clients /\ marks[m].reg \in Regs \cup {NoOne}
  BY TypeParts DEF Inv, DataInv, MarksPlaced, MarksTypeOK, MarkRecord
<1> QED BY <1>1 DEF Item, ItemOf, Users

LEMMA ServeLateKeeps ==
  ASSUME Inv, NEW x \in late, ServeLate(x)
  PROVE  Inv'
<1>1. ServerTypeOK /\ ServerInv /\ x.mark \in Marks /\ x.user \in Users
  BY TypeParts DEF Inv, HistoryTypeOK
<1>2. ServerStep
  <2>1. CASE \E status \in Confirmed \cup Rejections : Serve(Item(x.mark, x.user), status)
    BY <1>1, <2>1, ItemTyped, ServeServerStep
  <2>2. CASE UNCHANGED <<ledgerVars, published>>
    BY <1>1, <2>2, ServerStutters
  <2> QED BY <2>1, <2>2 DEF ServeLate
<1> QED BY <1>2, ServerMoves DEF ServeLate

LEMMA OtherDeviceKeeps ==
  ASSUME Inv, NEW m \in OtherMarks, NEW r \in Regs, NEW u \in Users, OtherDevice(m, r, u)
  PROVE  Inv'
<1>1. ServerTypeOK /\ ServerInv
  BY TypeParts DEF Inv
<1>2. PICK i : i = [client |-> m, reg |-> r, payload |-> u, at |-> m]
  OBVIOUS
<1>3. i \in ItemOf(Regs) /\ i.reg = r
  BY <1>2 DEF ItemOf, OtherMarks, Users
<1>4. ServerStep
  BY <1>1, <1>2, <1>3, RecordServerStep DEF OtherDevice
<1> QED BY <1>4, ServerMoves DEF OtherDevice

LEMMA AnnulKeeps ==
  ASSUME Inv, NEW r \in Regs, Annul(r)
  PROVE  Inv'
<1>1. ServerTypeOK /\ ServerInv
  BY TypeParts DEF Inv
<1>2. ServerStep
  BY <1>1, AnnulServerStep DEF Annul
<1> QED BY <1>2, ServerMoves DEF Annul

LEMMA ResolveCaseKeeps ==
  ASSUME Inv, NEW m \in Marks, ResolveCase(m)
  PROVE  Inv'
<1>1. /\ UNCHANGED <<ledgerVars, published, sessionVars, deviceVars, tabVars, flowVars, late,
                     counted, faults>>
      /\ cases[m].status = "OPEN" /\ cases' = [cases EXCEPT ![m].status = "RESOLVED"]
  BY DEF ResolveCase
<1>2. marks' = marks /\ owner' = owner /\ cache' = cache
  BY <1>1 DEF deviceVars
<1>3. MarksKept /\ NoneSettled /\ Marks' = Marks
  BY <1>2, MarksStutter, TypeParts DEF Inv, DataInv, MarksKept
<1>4. CasesKept
  <2>1. CasesTypeOK
    BY TypeParts DEF Inv
  <2>2. CasesTypeOK'
    BY <1>1, <1>3, <2>1 DEF CasesTypeOK
  <2>3. /\ cases'[m].why = cases[m].why /\ cases'[m].status = "RESOLVED"
        /\ \A n \in Marks \ {m} : cases'[n] = cases[n]
    BY <1>1, <2>1 DEF CasesTypeOK
  <2>4. cases'[m] # NoCase
    BY <2>3 DEF NoCase
  <2> QED BY <2>2, <2>3, <2>4 DEF CasesKept
<1>5. ServerStep /\ SessionsStep
  BY <1>1, ServerStutters, SessionsRest, TypeParts DEF Inv
<1>6. OwnerTypeOK' /\ TabTypeOK' /\ HistoryTypeOK'
  BY <1>1, <1>2, <1>3, TypeParts DEF Inv, OwnerTypeOK, TabTypeOK, tabVars, HistoryTypeOK
<1> QED BY <1>1, <1>2, <1>3, <1>4, <1>5, <1>6, StillStep

-----------------------------------------------------------------------------
\* The handoff of a rejected mark.
LEMMA HandoffStep ==
  ASSUME Inv, "handoff" \in Flows, NEW l \in {"idle", "handoff", "ack"},
         pc' = [pc EXCEPT !["handoff"] = l],
         UNCHANGED <<ledgerVars, published, sessionVars, owner, cache, tabVars, who,
                     requestVars, bundle, late, counted>>,
         MarksKept, CasesKept, NoMarkLost', ClaimTypeOK', Fault \/ faults' = faults,
         l \in {"handoff", "ack"} => claim'.mark \in Marks,
         l = "ack" => cases'[claim'.mark] # NoCase /\ cases'[claim'.mark].why = claim'.why
  PROVE  Inv'
<1>1. TypeOK /\ FlowInv /\ DataInv /\ FlowsPlaced /\ RequestTypeOK /\ Marks' = Marks
  BY TypeParts DEF Inv, FlowInv, MarksKept
<1>2. /\ rest' = rest /\ batch' = batch /\ auth' = auth /\ todo' = todo
      /\ results' = results /\ who' = who /\ bundle' = bundle
  BY DEF requestVars
<1>3. ServerStep /\ SessionsStep
  BY ServerStutters, SessionsRest, TypeParts DEF Inv
<1>4. /\ Flows' = Flows /\ pc' \in [Flows -> PCs] /\ pc'["handoff"] = l
      /\ \A g \in Flows \ {"handoff"} : pc'[g] = pc[g]
  BY <1>1, TypeParts DEF PlaceTypeOK, Flows, PCs
<1>5. FlowsPlaced'
  <2>1. bundle["handoff"] = NoBundle /\ rest["handoff"] = {}
    BY <1>1 DEF FlowsPlaced, PlacedAt, Fetching, Sending
  <2>2. PlacedAt("handoff", l, bundle["handoff"])
    BY <2>1 DEF PlacedAt, PCs, Fetching
  <2>3. \A g \in Flows : PlacedAt(g, pc'[g], bundle[g])
    BY <1>1, <1>4, <2>2 DEF FlowsPlaced
  <2>4. \A g \in Flows : pc'[g] \notin Sending => rest[g] = {}
    BY <1>1, <1>4, <2>1 DEF FlowsPlaced
  <2> QED BY <1>1, <1>2, <1>4, <2>3, <2>4 DEF FlowsPlaced, PlacedAt
<1>6. SessionsKnown'
  BY <1>1, <1>2, <1>3, <1>4 DEF FlowInv, SessionsKnown, SessionsStep
<1>7. HandoffStored'
  <2>1. \A g \in Flows \ {"handoff"} : pc'[g] \notin {"handoff", "ack"}
    BY <1>1, <1>4 DEF FlowsPlaced, PlacedAt
  <2> QED BY <1>1, <1>4, <2>1 DEF HandoffStored
<1>8. DataInv'
  <2>1. RestUsed'
    BY <1>1, <1>2, <1>4, RestStaysUsed DEF DataInv, RestKept
  <2>2. ResultsTrue'
    BY <1>1, <1>2, <1>3, <1>4, ResultsStay DEF DataInv, ResultsKept, ServerStep
  <2>3. BundlesOK'
    BY <1>1, <1>2, <1>3, <1>4, BundlesStay DEF DataInv, BundlesKept
  <2> QED BY <2>1, <2>2, <2>3 DEF DataInv, MarksKept
<1>9. OwnerTypeOK' /\ CacheTypeOK' /\ TabTypeOK' /\ HistoryTypeOK'
  BY <1>1, FaultTyped, TypeParts DEF OwnerTypeOK, CacheTypeOK, TabTypeOK, tabVars, HistoryTypeOK
<1>10. RequestTypeOK' /\ PlaceTypeOK'
  BY <1>1, <1>2, <1>4, TypeParts DEF RequestTypeOK, PlaceTypeOK
<1> QED BY <1>3, <1>5, <1>6, <1>7, <1>8, <1>9, <1>10, Assembled DEF FlowInv

LEMMA StartHandoffKeeps == ASSUME Inv, StartHandoff PROVE Inv'
<1>1. PICK m \in Unresolved : claim' = [mark |-> m, why |-> marks[m].why]
  BY DEF StartHandoff
<1>2. /\ "handoff" \in Flows /\ Goto("handoff", "handoff")
      /\ UNCHANGED <<serverVars, sessionVars, deviceVars, tabVars, who, requestVars, bundle,
                     late, counted, faults>>
  BY DEF StartHandoff
<1>3. TypeOK /\ MarksTypeOK /\ MarksPlaced /\ DataInv
  BY TypeParts DEF Inv, DataInv
<1>4. marks' = marks /\ owner' = owner /\ cache' = cache
  BY <1>2 DEF deviceVars
<1>5. MarksKept /\ NoneSettled /\ Marks' = Marks
  BY <1>3, <1>4, MarksStutter DEF MarksKept
<1>6. ServerStep /\ CasesKept
  BY <1>2, <1>5, ServerRests
<1>7. NoMarkLost'
  BY <1>3, <1>5, <1>6, MarksNotLost DEF ServerStep
<1>8. m \in Marks /\ ClaimTypeOK'
  BY <1>1, <1>3, <1>5 DEF Unresolved, ClaimTypeOK, MarksTypeOK, MarkRecord
<1> QED BY <1>1, <1>2, <1>4, <1>5, <1>6, <1>7, <1>8, HandoffStep
        DEF Goto, serverVars, ledgerVars

LEMMA ServeHandoffKeeps == ASSUME Inv, ServeHandoff PROVE Inv'
<1>1. PICK m, case : m = claim.mark /\ case = [why |-> claim.why, user |-> sessions[cookie],
                                             status |-> "OPEN"]
  OBVIOUS
<1>2. /\ "handoff" \in Flows /\ pc["handoff"] = "handoff"
      /\ UNCHANGED <<ledgerVars, published, sessionVars, deviceVars, tabVars, who,
                     requestVars, bundle, late, counted>>
  BY DEF ServeHandoff
<1>3. /\ TypeOK /\ MarksTypeOK /\ MarksPlaced /\ DataInv /\ CasesTypeOK /\ ClaimTypeOK
      /\ m \in Marks
  BY <1>1, <1>2, TypeParts DEF Inv, DataInv, FlowInv, HandoffStored
<1>4. \/ EndHandoff /\ UNCHANGED <<cases, faults>>
      \/ /\ Authentic # 0
         /\ cases[m] = NoCase \/ cases[m].why = claim.why
         /\ cases' = IF cases[m] = NoCase THEN [cases EXCEPT ![m] = case] ELSE cases
         /\ \/ Goto("handoff", "ack") /\ UNCHANGED <<claim, faults>>
            \/ Fault /\ EndHandoff
  BY <1>1 DEF ServeHandoff
<1>5. marks' = marks /\ owner' = owner /\ cache' = cache
  BY <1>2 DEF deviceVars
<1>6. MarksKept /\ NoneSettled /\ Marks' = Marks
  BY <1>3, <1>5, MarksStutter DEF MarksKept
<1>7. /\ CasesKept
      /\ Goto("handoff", "ack") => cases'[m] # NoCase /\ cases'[m].why = claim.why
  <2>1. CASE UNCHANGED cases /\ EndHandoff
    <3>1. pc'["handoff"] = "idle"
      BY <1>2, <1>3, <2>1, TypeParts DEF EndHandoff, Goto, PlaceTypeOK
    <3>2. ~Goto("handoff", "ack")
      BY <1>2, <1>3, <3>1, TypeParts DEF Goto, PlaceTypeOK
    <3> QED BY <1>3, <1>6, <2>1, <3>2, CasesStutter
  <2>2. CASE /\ Authentic # 0
             /\ cases[m] = NoCase \/ cases[m].why = claim.why
             /\ cases' = IF cases[m] = NoCase THEN [cases EXCEPT ![m] = case] ELSE cases
    <3>1. CASE cases[m] = NoCase
      <4>1. /\ case.status = "OPEN" /\ case.why = claim.why
            /\ case \in [why : Rejections \cup {"none"}, user : Users \cup {NoOne},
                         status : {"none", "OPEN", "RESOLVED"}]
        <5>1. sessions[cookie] \in Users
          BY <2>2 DEF Authentic, SessionLive, Inv, FlowInv, SessionsKnown
        <5>2. claim.why \in Rejections \cup {"none"}
          BY <1>3 DEF ClaimTypeOK
        <5> QED BY <1>1, <5>1, <5>2
      <4>2. case # NoCase
        BY <4>1 DEF NoCase
      <4>3. cases'[m] = case /\ \A n \in Marks \ {m} : cases'[n] = cases[n]
        BY <1>3, <2>2, <3>1 DEF CasesTypeOK
      <4>4. CasesTypeOK'
        BY <1>3, <1>6, <2>2, <3>1, <4>1 DEF CasesTypeOK
      <4> QED BY <3>1, <4>1, <4>2, <4>3, <4>4 DEF CasesKept
    <3>2. CASE cases[m] # NoCase
      BY <1>3, <1>6, <2>2, <3>2, CasesStutter
    <3> QED BY <3>1, <3>2
  <2> QED BY <1>4, <2>1, <2>2
<1>8. ServerStep
  BY <1>2, ServerStutters, TypeParts DEF Inv
<1>9. NoMarkLost'
  BY <1>3, <1>6, <1>7, <1>8, MarksNotLost DEF ServerStep
<1>10. CASE EndHandoff /\ (Fault \/ faults' = faults)
  <2>1. ClaimTypeOK'
    BY <1>10 DEF EndHandoff, ClaimTypeOK, NoClaim
  <2> QED BY <1>2, <1>5, <1>6, <1>7, <1>9, <1>10, <2>1, HandoffStep DEF EndHandoff, Goto
<1>11. CASE Goto("handoff", "ack") /\ UNCHANGED <<claim, faults>>
  <2>1. ClaimTypeOK'
    BY <1>3, <1>6, <1>11 DEF ClaimTypeOK
  <2>2. cases'[claim'.mark] # NoCase /\ cases'[claim'.mark].why = claim'.why
    BY <1>1, <1>7, <1>11
  <2> QED BY <1>1, <1>2, <1>3, <1>5, <1>6, <1>7, <1>9, <1>11, <2>1, <2>2, HandoffStep DEF Goto
<1> QED BY <1>4, <1>10, <1>11

LEMMA AckHandoffKeeps == ASSUME Inv, AckHandoff PROVE Inv'
<1>1. PICK m, S : /\ m = claim.mark
                  /\ S = IF marks[m].state = "REJECTED" /\ marks[m].why = claim.why
                         THEN {m} ELSE {}
  OBVIOUS
<1>2. /\ "handoff" \in Flows /\ pc["handoff"] = "ack" /\ EndHandoff /\ SetState(S, "handedOff")
      /\ UNCHANGED <<serverVars, sessionVars, owner, cache, tabVars, who, requestVars, bundle,
                     late, counted, faults>>
  BY <1>1 DEF AckHandoff
<1>3. TypeOK /\ MarksTypeOK /\ MarksPlaced /\ DataInv
  BY TypeParts DEF Inv, DataInv
<1>4. m \in Marks /\ cases[m] # NoCase /\ cases[m].why = claim.why
  BY <1>1, <1>2 DEF Inv, FlowInv, HandoffStored
<1>5. S \subseteq Unresolved
  BY <1>1, <1>4 DEF Unresolved, InStore, Stored
<1>6. /\ MarksKept /\ Marks' = Marks
      /\ \A n \in Marks : marks'[n] = IF n \in S THEN [marks[n] EXCEPT !.state = "handedOff"]
                                                 ELSE marks[n]
  BY <1>2, <1>3, <1>5, SetStateKeeps DEF MarksKept
<1>7. ServerStep /\ CasesKept
  BY <1>2, <1>6, ServerRests
<1>8. NoMarkLost'
  <2> SUFFICES ASSUME NEW n \in Marks
               PROVE  /\ marks'[n].state = "confirmed" => StoredOnServer(n)'
                      /\ marks'[n].state = "handedOff" =>
                           cases'[n] # NoCase /\ cases'[n].why = marks'[n].why
    BY <1>6 DEF NoMarkLost
  <2>1. CASE n \in S
    <3>1. n = m /\ marks[n].why = claim.why
      BY <1>1, <2>1
    <3>2. marks'[n].state = "handedOff" /\ marks'[n].why = marks[n].why
      BY <1>3, <1>6, <2>1 DEF MarksTypeOK, MarkRecord
    <3> QED BY <1>4, <1>7, <3>1, <3>2 DEF CasesKept
  <2>2. CASE n \notin S
    <3>1. marks'[n] = marks[n]
      BY <1>6, <2>2
    <3>2. marks[n].state = "confirmed" => StoredOnServer(n)'
      BY <1>3, <1>6, <1>7, StoredStays DEF DataInv, NoMarkLost, ServerStep
    <3>3. marks[n].state = "handedOff" => cases'[n] # NoCase /\ cases'[n].why = marks[n].why
      BY <1>3, <1>7 DEF DataInv, NoMarkLost, CasesKept
    <3> QED BY <3>1, <3>2, <3>3
  <2> QED BY <2>1, <2>2
<1>9. ClaimTypeOK'
  BY <1>2 DEF EndHandoff, ClaimTypeOK, NoClaim
<1> QED BY <1>2, <1>6, <1>7, <1>8, <1>9, HandoffStep
        DEF EndHandoff, Goto, serverVars, ledgerVars

-----------------------------------------------------------------------------
LEMMA ReloadKeeps == ASSUME Inv, Reload PROVE Inv'
<1>1. /\ late' = late \cup Orphans(Flows) /\ view' = "loading" /\ csrf' = 0
      /\ operator' = NoOne /\ claim' = NoClaim /\ Fault
      /\ UNCHANGED <<serverVars, sessionVars, deviceVars, counted>>
  BY DEF Reload
<1>2. /\ pc' = [f \in Flows |-> IF f = "load" THEN "session" ELSE "idle"]
      /\ who' = [f \in Flows |-> NoOne]
      /\ rest' = [f \in Flows |-> {}] /\ batch' = [f \in Flows |-> {}]
      /\ auth' = [f \in Flows |-> 0] /\ todo' = [f \in Flows |-> {}]
      /\ results' = [f \in Flows |-> {}] /\ bundle' = [f \in Flows |-> NoBundle]
  BY DEF Reload
<1>3. Flows' = Flows
  BY <1>2 DEF Flows
<1>4. marks' = marks /\ owner' = owner /\ cache' = cache
  BY <1>1 DEF deviceVars
<1>5. /\ TypeOK /\ DataInv /\ FlowInv /\ MarksKept /\ NoneSettled /\ Marks' = Marks
  BY <1>4, MarksStutter, TypeParts DEF Inv, DataInv, MarksKept
<1>6. ServerStep /\ CasesKept /\ SessionsStep
  BY <1>1, <1>5, ServerRests, SessionsRest
<1>7. FlowInv'
  <2>1. \A f \in Flows : PlacedAt(f, pc'[f], bundle'[f]) /\ pc'[f] \in {"session", "idle"}
    BY <1>2 DEF PlacedAt, PCs, Fetching
  <2>2. FlowsPlaced'
    BY <1>2, <1>3, <2>1 DEF FlowsPlaced, PlacedAt
  <2> QED BY <1>3, <1>6, <2>1, <2>2 DEF FlowInv, SessionsKnown, SessionsStep, HandoffStored
<1>8. NothingLearnt
  BY <1>2, <1>3, <1>4 DEF NothingLearnt, RestKept, ResultsKept, BundlesKept
<1>9. DataInv'
  BY <1>5, <1>6, <1>8, DataStays
<1>10. RequestTypeOK'
  BY <1>2, <1>3 DEF RequestTypeOK
<1>11. PlaceTypeOK'
  BY <1>2, <1>3 DEF PlaceTypeOK, PCs
<1>12. HistoryTypeOK'
  <2>1. Orphans(Flows) \subseteq [mark : Marks, user : Users]
    BY <1>5, TypeParts DEF Orphans, RequestTypeOK, FlowInv, SessionsKnown
  <2> QED BY <1>1, <1>5, <2>1, FaultTyped, TypeParts DEF HistoryTypeOK
<1>13. OwnerTypeOK' /\ CacheTypeOK' /\ TabTypeOK' /\ ClaimTypeOK'
  BY <1>1, <1>4, <1>5, TypeParts DEF OwnerTypeOK, CacheTypeOK, TabTypeOK, ClaimTypeOK, NoClaim
<1> QED BY <1>5, <1>6, <1>7, <1>9, <1>10, <1>11, <1>12, <1>13, Assembled

-----------------------------------------------------------------------------
\* The server answers one item of a request.
LEMMA ServeItemKeeps ==
  ASSUME Inv, NEW f \in Flows, ServeItem(f)
  PROVE  Inv'
<1>1. /\ TypeOK /\ FlowInv /\ DataInv /\ FlowsPlaced /\ MarksTypeOK /\ MarksPlaced
      /\ RequestTypeOK /\ ServerTypeOK /\ ServerInv
  BY TypeParts DEF Inv, FlowInv, DataInv
<1>2. /\ pc[f] = "serving"
      /\ UNCHANGED <<cases, sessionVars, deviceVars, tabVars, pc, who, rest, batch, auth,
                     bundle, claim, late, counted, faults>>
  BY DEF ServeItem
<1>3. PICK m \in todo[f], status \in Confirmed \cup Rejections :
        /\ Serve(Item(m, sessions[auth[f]]), status)
        /\ results' = [results EXCEPT ![f] = @ \cup
             {[mark |-> m, status |-> status,
               first |-> IF status \in Confirmed
                         THEN regs'[Item(m, sessions[auth[f]]).reg].first ELSE NoTime]}]
        /\ todo' = [todo EXCEPT ![f] = @ \ {m}]
  BY DEF ServeItem
<1>4. PICK u : u = sessions[auth[f]]
  OBVIOUS
<1>5. PICK i : i = Item(m, u)
  OBVIOUS
<1>6. PICK r : r = [mark |-> m, status |-> status,
                    first |-> IF status \in Confirmed THEN regs'[i.reg].first ELSE NoTime]
  OBVIOUS
<1>7. /\ u \in Users /\ m \in Marks /\ marks[m].state # "unused"
      /\ i \in ItemOf(Regs \cup {NoOne}) /\ i.reg = marks[m].reg
      /\ Serve(i, status)
      /\ results' = [results EXCEPT ![f] = @ \cup {r}]
  <2>1. u \in Users
    BY <1>1, <1>2, <1>4 DEF FlowInv, SessionsKnown
  <2>2. m \in rest[f] /\ m \in Marks
    BY <1>1, <1>3 DEF RequestTypeOK
  <2>3. marks[m].state # "unused"
    BY <1>1, <2>2 DEF DataInv, RestUsed
  <2> QED BY <1>3, <1>4, <1>5, <1>6, <2>1, <2>2, <2>3, ItemTyped DEF Item
<1>8. /\ ServerStep
      /\ status \in Confirmed => /\ i.reg \in Regs
                                 /\ regs'[i.reg].first # NoTime
                                 /\ RecordedAs(i)'
  BY <1>1, <1>7, ServeServerStep
<1>9. /\ marks' = marks /\ owner' = owner /\ cache' = cache /\ Flows' = Flows
  BY <1>2 DEF deviceVars, Flows
<1>10. MarksKept /\ NoneSettled /\ Marks' = Marks
  BY <1>1, <1>9, MarksStutter DEF MarksKept
<1>11. CasesKept /\ SessionsStep
  BY <1>1, <1>2, <1>10, CasesStutter, SessionsRest, TypeParts
<1>12. ResultTrue(r)'
  <2>1. CASE status \in Confirmed
    <3>1. StoredOnServer(m)'
      BY <1>5, <1>7, <1>8, <1>9, <2>1 DEF StoredOnServer, Item, RecordedAs
    <3> QED BY <1>6, <1>7, <1>8, <1>9, <2>1, <3>1 DEF ResultTrue
  <2>2. CASE status \notin Confirmed
    BY <1>6, <1>7, <1>9, <2>2 DEF ResultTrue
  <2> QED BY <2>1, <2>2
<1>13. ResultsTrue'
  <2> SUFFICES ASSUME NEW g \in Flows, NEW x \in results'[g] PROVE ResultTrue(x)'
    BY <1>9 DEF ResultsTrue
  <2>1. CASE x = r
    BY <1>12, <2>1 DEF ResultTrue, StoredOnServer
  <2>2. CASE x # r
    <3>1. x \in results[g] /\ x.mark \in Marks /\ ResultTrue(x)
      BY <1>1, <1>7, <2>2 DEF RequestTypeOK, DataInv, ResultsTrue
    <3> QED BY <1>1, <1>8, <1>10, <3>1, ResultStays DEF ServerStep
  <2> QED BY <2>1, <2>2
<1>14. RequestTypeOK'
  <2>1. r \in [mark : Marks, status : Confirmed \cup Rejections, first : Clients \cup {NoTime}]
    <3>1. status \in Confirmed => regs'[i.reg].first \in Clients \cup {NoTime}
      BY <1>8 DEF ServerStep, ServerTypeOK, Registration
    <3> QED BY <1>6, <1>7, <3>1
  <2>2. results' \in [Flows -> SUBSET [mark : Marks, status : Confirmed \cup Rejections,
                                       first : Clients \cup {NoTime}]]
    BY <1>1, <1>7, <2>1 DEF RequestTypeOK
  <2>3. todo' \in [Flows -> SUBSET Marks] /\ \A g \in Flows : todo'[g] \subseteq batch[g]
    BY <1>1, <1>3 DEF RequestTypeOK
  <2> QED BY <1>1, <1>2, <1>9, <1>10, <2>2, <2>3 DEF RequestTypeOK
<1>15. FlowInv'
  <2>1. FlowsPlaced'
    BY <1>1, <1>2, <1>9 DEF FlowsPlaced, PlacedAt
  <2>2. SessionsKnown'
    BY <1>1, <1>2, <1>9, <1>11 DEF FlowInv, SessionsKnown, SessionsStep
  <2>3. HandoffStored'
    BY <1>1, <1>2, <1>9, <1>10, <1>11 DEF FlowInv, HandoffStored, CasesKept
  <2> QED BY <2>1, <2>2, <2>3 DEF FlowInv
<1>16. DataInv'
  <2>1. RestUsed'
    BY <1>1, <1>2, <1>9, <1>10, RestStaysUsed DEF DataInv, RestKept
  <2>2. BundlesOK'
    BY <1>1, <1>2, <1>8, <1>9, BundlesStay DEF DataInv, BundlesKept
  <2>3. NoMarkLost'
    BY <1>1, <1>8, <1>10, <1>11, MarksNotLost DEF ServerStep
  <2> QED BY <1>10, <1>13, <2>1, <2>2, <2>3 DEF DataInv, MarksKept
<1>17. PlaceTypeOK' /\ OwnerTypeOK' /\ CacheTypeOK' /\ TabTypeOK' /\ ClaimTypeOK'
  BY <1>1, <1>2, <1>9, <1>10, TypeParts
  DEF PlaceTypeOK, OwnerTypeOK, CacheTypeOK, TabTypeOK, tabVars, ClaimTypeOK
<1>18. HistoryTypeOK'
  BY <1>1, <1>2, <1>10, TypeParts DEF HistoryTypeOK
<1> QED BY <1>8, <1>10, <1>11, <1>14, <1>15, <1>16, <1>17, <1>18, Assembled

-----------------------------------------------------------------------------
\* The reply arrives.  First what it does to the marks.
Answered(f, m) == InStore(m) /\ \E r \in results[f] : r.mark = m

LEMMA ApplyMarks ==
  ASSUME TypeOK, DataInv, NEW f \in Flows, ApplyResults(f)
  PROVE  /\ MarksKept /\ Unresolved' \subseteq Unresolved
         /\ \A m \in Marks : InStore(m) => marks'[m].state # "erased"
         /\ \A m \in Marks : marks'[m].state \in {"confirmed", "handedOff"} =>
              \/ marks'[m] = marks[m]
                \/ /\ marks'[m].state = "confirmed" /\ StoredOnServer(m)
                   /\ marks[m].state # "unused"
<1> DEFINE answer(m) == CHOOSE x \in results[f] : x.mark = m
           new(m) == IF Answered(f, m)
                     THEN [marks[m] EXCEPT
                             !.state = ResultState(answer(m).status),
                             !.why = IF answer(m).status \in Rejections
                                     THEN answer(m).status ELSE @]
                     ELSE marks[m]
<1>1. marks' = [m \in Marks |-> new(m)]
  BY DEF ApplyResults, Answered
<1> HIDE DEF new
<1>4. Marks' = Marks /\ marks' = [m \in Marks |-> marks'[m]] /\ \A m \in Marks : marks'[m] = new(m)
  BY <1>1 DEF Marks
<1>2. /\ MarksTypeOK /\ MarksPlaced /\ RequestTypeOK
      /\ \A m \in Marks : marks[m] \in MarkRecord
  BY TypeParts DEF DataInv, MarksTypeOK
<1>3. ASSUME NEW m \in Marks
      PROVE  /\ marks'[m] \in MarkRecord
             /\ marks'[m].reg = marks[m].reg
             /\ marks[m].state # "unused" => marks'[m].state # "unused"
             /\ marks[m].state = "unused" => marks'[m].state = "unused"
             /\ marks[m].state \in Gone => marks'[m] = marks[m]
             /\ marks[m].state \in Stored => marks'[m].state # "erased"
             /\ marks'[m].state \in {"confirmed", "handedOff"} =>
                  \/ marks'[m] = marks[m]
                \/ /\ marks'[m].state = "confirmed" /\ StoredOnServer(m)
                   /\ marks[m].state # "unused"
  <2>1. CASE Answered(f, m)
    <3>1. PICK r : r = answer(m)
      OBVIOUS
    <3>2. r \in results[f] /\ r.mark = m
      BY <2>1, <3>1 DEF Answered
    <3>3. r.status \in Confirmed \cup Rejections /\ ResultTrue(r)
      BY <1>2, <3>2 DEF RequestTypeOK, DataInv, ResultsTrue
    <3>4. marks'[m] = [marks[m] EXCEPT !.state = ResultState(r.status),
                                       !.why = IF r.status \in Rejections THEN r.status ELSE @]
      BY <1>4, <2>1, <3>1 DEF new
    <3>5. marks[m] \in MarkRecord /\ marks[m].state \in Stored
      BY <1>2, <2>1 DEF Answered, InStore
    <3>6. /\ ResultState(r.status) \in {"confirmed", "REJECTED"}
          /\ ResultState(r.status) = "confirmed" => r.status \in Confirmed
      BY DEF ResultState
    <3>7. /\ marks'[m].state = ResultState(r.status) /\ marks'[m].reg = marks[m].reg
          /\ marks'[m] \in MarkRecord
      BY <3>4, <3>5, <3>6 DEF MarkRecord, Stored, Gone
    <3>8. marks'[m].state = "confirmed" => StoredOnServer(m)
      BY <3>2, <3>3, <3>6, <3>7 DEF ResultTrue
    <3> QED BY <3>5, <3>6, <3>7, <3>8 DEF Stored, Gone
  <2>2. CASE ~Answered(f, m)
    BY <1>2, <1>4, <2>2 DEF new, Stored
  <2> QED BY <2>1, <2>2
<1>5. MarksTypeOK' /\ MarksPlaced'
  BY <1>2, <1>3, <1>4 DEF MarksTypeOK, MarkRecord, MarksPlaced
<1>6. Unresolved' \subseteq Unresolved
  <2> SUFFICES ASSUME NEW m \in Marks, marks'[m].state \in Stored
               PROVE  marks[m].state \in Stored
    BY <1>4 DEF Unresolved, InStore
  <2> QED BY <1>2, <1>3 DEF MarkRecord, Stored, Gone
<1> QED BY <1>3, <1>4, <1>5, <1>6 DEF MarksKept, InStore

\* What it does to the cached bundle: every date it brings is the server's.
LEMMA ApplyCache ==
  ASSUME TypeOK, DataInv, NEW f \in Flows, ApplyResults(f)
  PROVE  /\ CacheTypeOK'
         /\ cache'.version = cache.version /\ DOMAIN cache'.first = DOMAIN cache.first
         /\ \A reg \in DOMAIN cache.first :
              \/ cache'.first[reg] = cache.first[reg]
              \/ cache'.first[reg] = regs[reg].first /\ regs[reg].first # NoTime
<1> DEFINE news(reg) == {x \in results[f] : /\ x.status \in Confirmed
                                            /\ InStore(x.mark)
                                            /\ marks[x.mark].reg = reg}
           fresh(reg) == IF news(reg) = {} THEN cache.first[reg]
                         ELSE (CHOOSE x \in news(reg) : TRUE).first
<1>1. cache' = [cache EXCEPT !.first = [reg \in DOMAIN cache.first |-> fresh(reg)]]
  BY DEF ApplyResults, FirstOf
<1>2. ASSUME NEW reg
      PROVE  fresh(reg) = cache.first[reg]
             \/ /\ fresh(reg) = regs[reg].first /\ regs[reg].first # NoTime
                /\ fresh(reg) \in Clients \cup {NoTime}
  <2>1. CASE news(reg) # {}
    <3>1. PICK r : r = CHOOSE x \in news(reg) : TRUE
      OBVIOUS
    <3>2. r \in news(reg)
      BY <2>1, <3>1
    <3>3. /\ r \in results[f] /\ r.status \in Confirmed /\ marks[r.mark].reg = reg
          /\ fresh(reg) = r.first
      BY <2>1, <3>1, <3>2
    <3>4. ResultTrue(r) /\ r.first \in Clients \cup {NoTime}
      BY <3>3, TypeParts DEF RequestTypeOK, DataInv, ResultsTrue
    <3> QED BY <3>3, <3>4 DEF ResultTrue
  <2>2. CASE news(reg) = {}
    BY <2>2
  <2> QED BY <2>1, <2>2
<1> HIDE DEF fresh
<1>3. CASE cache = NoBundle
  <2>1. /\ DOMAIN cache.first = {} /\ cache.version = 0 /\ cache = [version |-> 0, first |-> cache.first]
    BY <1>3 DEF NoBundle
  <2>2. cache' = NoBundle
    BY <1>1, <1>3, <2>1 DEF NoBundle
  <2> QED BY <1>3, <2>1, <2>2 DEF CacheTypeOK
<1>4. CASE cache \in Bundles
  <2>1. PICK S \in SUBSET Regs : cache.first \in [S -> Clients \cup {NoTime}]
    BY <1>4 DEF Bundles
  <2>2. [reg \in S |-> fresh(reg)] \in [S -> Clients \cup {NoTime}]
    BY <1>2, <2>1
  <2>3. /\ cache'.first = [reg \in S |-> fresh(reg)] /\ cache'.version = cache.version
        /\ cache' = [version |-> cache.version, first |-> [reg \in S |-> fresh(reg)]]
    BY <1>1, <1>4, <2>1 DEF Bundles
  <2>4. [reg \in S |-> fresh(reg)] \in UNION {[T -> Clients \cup {NoTime}] : T \in SUBSET Regs}
    BY <2>1, <2>2
  <2>5. cache' \in Bundles
    BY <1>4, <2>3, <2>4 DEF Bundles
  <2> QED BY <1>2, <2>1, <2>3, <2>5 DEF CacheTypeOK
<1> QED BY <1>3, <1>4, TypeParts DEF CacheTypeOK

\* And what it does to the flow.
LEMMA ApplyFlow ==
  ASSUME TypeOK, FlowInv, NEW f \in Flows, ApplyResults(f), SessionsStep, CasesKept,
         Marks' = Marks
  PROVE  /\ Flows' = Flows /\ RequestTypeOK' /\ PlaceTypeOK' /\ FlowInv'
         /\ RestKept /\ ResultsKept
         /\ \A g \in Flows : bundle'[g] \in {bundle[g], NoBundle}
<1>1. FlowsPlaced /\ RequestTypeOK
  BY TypeParts DEF FlowInv
<1>2. /\ pc[f] = "serving" /\ todo[f] = {} /\ f # "handoff" /\ bundle[f] = NoBundle
      /\ UNCHANGED claim
  BY <1>1 DEF ApplyResults, FlowsPlaced, PlacedAt, Fetching
<1>3. CASE FlushDone(f)
  <2>1. FlowMoves(f)
    BY <1>1, <1>2, <1>3, FlushDoneMoves DEF Fetching
  <2> QED BY <1>1, <1>2, <2>1, FlowMovesRequests, FlowMovesPlaces, FlowMovesFlowInv
          DEF RestKept, ResultsKept
<1>4. CASE /\ rest' = [rest EXCEPT ![f] = @ \ batch[f]]
           /\ batch' = [batch EXCEPT ![f] = {}]
           /\ auth' = [auth EXCEPT ![f] = 0]
           /\ results' = [results EXCEPT ![f] = {}]
           /\ Goto(f, "send")
           /\ UNCHANGED <<who, todo, bundle>>
  <2>1. PlacedAt(f, "send", bundle[f]) /\ "send" \in PCs \ {"handoff", "ack"}
    BY <1>2 DEF PlacedAt, PCs, Fetching
  <2>2. \A g \in Flows \ {f} : rest'[g] = rest[g] /\ auth'[g] = auth[g]
    BY <1>1, <1>4 DEF RequestTypeOK
  <2>3. Flows' = Flows /\ PlaceTypeOK' /\ FlowInv'
    BY <1>2, <1>4, <2>1, <2>2, FlowGoes DEF Goto, Sending
  <2>4. /\ \A g \in Flows : rest'[g] \subseteq rest[g] /\ results'[g] \subseteq results[g]
        /\ \A g \in Flows : todo[g] \subseteq batch'[g] /\ batch'[g] \subseteq rest'[g]
    BY <1>1, <1>2, <1>4 DEF RequestTypeOK
  <2>5. /\ rest' \in [Flows -> SUBSET Marks] /\ batch' \in [Flows -> SUBSET Marks]
        /\ auth' \in [Flows -> 0..MaxLogins]
    BY <1>1, <1>4 DEF RequestTypeOK
  <2>6. results' \in [Flows -> SUBSET [mark : Marks, status : Confirmed \cup Rejections,
                                       first : Clients \cup {NoTime}]]
    BY <1>1, <1>4 DEF RequestTypeOK
  <2>7. RequestTypeOK'
    BY <1>1, <1>4, <2>3, <2>4, <2>5, <2>6 DEF RequestTypeOK
  <2> QED BY <1>4, <2>3, <2>4, <2>7 DEF RestKept, ResultsKept
<1> QED BY <1>3, <1>4 DEF ApplyResults

LEMMA ApplyResultsKeeps ==
  ASSUME Inv, NEW f \in Flows, ApplyResults(f)
  PROVE  Inv'
<1>1. TypeOK /\ FlowInv /\ DataInv /\ ServerTypeOK
  BY TypeParts DEF Inv
<1>2. UNCHANGED <<serverVars, sessionVars, owner, tabVars, claim, late, counted, faults>>
  BY DEF ApplyResults
<1>3. /\ MarksKept /\ Marks' = Marks
      /\ \A m \in Marks : marks'[m].state \in {"confirmed", "handedOff"} =>
           \/ marks'[m] = marks[m]
                \/ /\ marks'[m].state = "confirmed" /\ StoredOnServer(m)
                   /\ marks[m].state # "unused"
  BY <1>1, ApplyMarks DEF MarksKept
<1>4. ServerStep /\ CasesKept /\ SessionsStep
  BY <1>2, <1>3, ServerRests, SessionsRest
<1>5. /\ Flows' = Flows /\ RequestTypeOK' /\ PlaceTypeOK' /\ FlowInv'
      /\ RestKept /\ ResultsKept
      /\ \A g \in Flows : bundle'[g] \in {bundle[g], NoBundle}
  BY <1>1, <1>3, <1>4, ApplyFlow
<1>6. /\ CacheTypeOK'
      /\ cache'.version = cache.version /\ DOMAIN cache'.first = DOMAIN cache.first
      /\ \A reg \in DOMAIN cache.first :
           \/ cache'.first[reg] = cache.first[reg]
           \/ cache'.first[reg] = regs[reg].first /\ regs[reg].first # NoTime
  BY <1>1, ApplyCache
<1>7. /\ regs' = regs /\ published' = published /\ version' = version
  BY <1>2 DEF serverVars
<1>8. BundlesOK'
  <2>1. BundleOK(cache)'
    BY <1>1, <1>6, <1>7 DEF DataInv, BundlesOK, BundleOK
  <2>2. ASSUME NEW g \in Flows PROVE BundleOK(bundle[g])'
    <3>1. PICK b : b = bundle'[g]
      OBVIOUS
    <3>2. BundleOK(b)
      BY <1>1, <1>5, <3>1, NoBundleOK DEF DataInv, BundlesOK
    <3> QED BY <1>7, <3>1, <3>2 DEF BundleOK
  <2> QED BY <1>5, <2>1, <2>2 DEF BundlesOK
<1>9. NoMarkLost'
  <2> SUFFICES ASSUME NEW m \in Marks
               PROVE  /\ marks'[m].state = "confirmed" => StoredOnServer(m)'
                      /\ marks'[m].state = "handedOff" =>
                           cases'[m] # NoCase /\ cases'[m].why = marks'[m].why
    BY <1>3 DEF NoMarkLost
  <2>1. ASSUME marks'[m].state = "confirmed" PROVE StoredOnServer(m)'
    <3>1. StoredOnServer(m)
      BY <1>1, <1>3, <2>1 DEF DataInv, NoMarkLost
    <3>2. marks[m].state # "unused"
      BY <1>3, <2>1
    <3> QED BY <1>3, <1>4, <3>1, <3>2, StoredStays DEF ServerStep
  <2>2. ASSUME marks'[m].state = "handedOff"
        PROVE  cases'[m] # NoCase /\ cases'[m].why = marks'[m].why
    <3>1. marks'[m] = marks[m]
      BY <1>3, <2>2
    <3> QED BY <1>1, <1>4, <2>2, <3>1 DEF DataInv, NoMarkLost, CasesKept
  <2> QED BY <2>1, <2>2
<1>10. DataInv'
  <2>1. RestUsed' /\ ResultsTrue'
    BY <1>1, <1>3, <1>4, <1>5, RestStaysUsed, ResultsStay, TypeParts DEF DataInv, ServerStep
  <2> QED BY <1>3, <1>8, <1>9, <2>1 DEF DataInv, MarksKept
<1>11. OwnerTypeOK' /\ TabTypeOK' /\ ClaimTypeOK' /\ HistoryTypeOK'
  BY <1>1, <1>2, <1>3, TypeParts DEF OwnerTypeOK, TabTypeOK, tabVars, ClaimTypeOK, HistoryTypeOK
<1> QED BY <1>3, <1>4, <1>5, <1>6, <1>10, <1>11, Assembled

-----------------------------------------------------------------------------
LEMMA InvInit == Init => Inv
<1> SUFFICES ASSUME Init PROVE Inv
  OBVIOUS
<1>1. PICK s \in Setups, u \in Users :
        /\ faults = s.faults
        /\ pc = [f \in s.flows |-> "idle"]
        /\ sessions = [n \in 1..MaxLogins |-> IF n = 1 THEN u ELSE NoOne]
        /\ owner = [user |-> u, valid |-> TRUE]
        /\ operator = u
        /\ \E reg \in [Queued -> Regs] :
             marks = [m \in s.marks |->
               IF m \in Queued
               THEN [state |-> "PENDING", why |-> "none", reg |-> reg[m], by |-> u]
               ELSE [state |-> "unused", why |-> "none", reg |-> NoOne, by |-> NoOne]]
  BY DEF Init
<1>2. PICK reg \in [Queued -> Regs] :
        marks = [m \in s.marks |->
          IF m \in Queued
          THEN [state |-> "PENDING", why |-> "none", reg |-> reg[m], by |-> u]
          ELSE [state |-> "unused", why |-> "none", reg |-> NoOne, by |-> NoOne]]
  BY <1>1
<1>3. /\ rows = {} /\ regs = [r \in Regs |-> [status |-> "ACTIVE", first |-> NoTime]]
      /\ version = 1
      /\ published = [r \in Regs |-> [annulled |-> 0, attended |-> 0]]
      /\ cases = [m \in Marks |-> NoCase]
      /\ live = {1} /\ cookie = 1 /\ view = "scanner" /\ csrf = 1
      /\ cache = [version |-> 1, first |-> [r \in Regs |-> NoTime]]
      /\ who = [f \in Flows |-> NoOne]
      /\ rest = [f \in Flows |-> {}] /\ batch = [f \in Flows |-> {}]
      /\ auth = [f \in Flows |-> 0] /\ todo = [f \in Flows |-> {}]
      /\ results = [f \in Flows |-> {}] /\ bundle = [f \in Flows |-> NoBundle]
      /\ claim = NoClaim /\ late = {} /\ counted = {}
  BY DEF Init, LedgerInit
<1>4. /\ ServerTypeOK /\ CasesTypeOK
  BY <1>3 DEF ServerTypeOK, CasesTypeOK, Registration, NoCase
<1>5. SessionTypeOK /\ \A t \in live : sessions[t] \in Users
  BY <1>1, <1>3 DEF SessionTypeOK
<1>6. MarksTypeOK /\ MarksPlaced
  <2>1. Marks = s.marks /\ Marks \subseteq Clients
    BY <1>2 DEF Marks
  <2>2. \A m \in Marks : marks[m] \in MarkRecord /\ (marks[m].state # "unused" => marks[m].reg \in Regs)
    BY <1>2, <2>1 DEF MarkRecord, Stored, Gone
  <2> QED BY <1>2, <2>1, <2>2 DEF MarksTypeOK, MarksPlaced
<1>7. cache \in Bundles
  <2>1. [r \in Regs |-> NoTime] \in [Regs -> Clients \cup {NoTime}] /\ Regs \in SUBSET Regs
    OBVIOUS
  <2>2. [r \in Regs |-> NoTime] \in UNION {[S -> Clients \cup {NoTime}] : S \in SUBSET Regs}
    BY <2>1
  <2> QED BY <1>3, <2>2 DEF Bundles
<1>8. OwnerTypeOK /\ CacheTypeOK /\ TabTypeOK
  BY <1>1, <1>3, <1>7 DEF OwnerTypeOK, CacheTypeOK, TabTypeOK
<1>9. Flows = s.flows /\ pc = [f \in Flows |-> "idle"]
  BY <1>1 DEF Flows
<1>10. RequestTypeOK /\ PlaceTypeOK
  BY <1>3, <1>9 DEF RequestTypeOK, PlaceTypeOK, PCs
<1>11. ClaimTypeOK /\ HistoryTypeOK
  BY <1>1, <1>3 DEF ClaimTypeOK, HistoryTypeOK, NoClaim
<1>12. ServerInv
  BY <1>3 DEF ServerInv, RowsDated, PublishedSeen
<1>13. FlowInv
  <2>1. FlowsPlaced
    BY <1>3, <1>9 DEF FlowsPlaced, PlacedAt, PCs, Fetching
  <2> QED BY <1>5, <1>9, <2>1 DEF FlowInv, SessionsKnown, HandoffStored
<1>14. BundlesOK
  <2>1. BundleOK(cache)
    BY <1>3 DEF BundleOK
  <2>2. \A f \in Flows : BundleOK(bundle[f])
    BY <1>3, <1>4, NoBundleOK
  <2> QED BY <2>1, <2>2 DEF BundlesOK
<1>15. NoMarkLost
  BY <1>2 DEF NoMarkLost, Marks
<1>16. DataInv
  BY <1>3, <1>6, <1>14, <1>15 DEF DataInv, RestUsed, ResultsTrue
<1> QED BY <1>4, <1>5, <1>6, <1>8, <1>10, <1>11, <1>12, <1>13, <1>16, TypeParts DEF Inv

LEMMA FlowStepKeeps ==
  ASSUME Inv, NEW f \in Flows, FlowStep(f)
  PROVE  Inv'
BY AskSessionKeeps, ReadDisownedKeeps, RevokeAccessKeeps, ReadOwnerKeeps, BindOwnerKeeps, ListEventsKeeps, ReadPendingKeeps,
   SendBatchKeeps, ArriveKeeps, ServeItemKeeps, ApplyResultsKeeps, ResetPendingKeeps,
   BundleVersionKeeps, BundleRowsKeeps, CheckBundleKeeps, ReplaceBundleKeeps
DEF FlowStep

LEMMA InvNext == Inv /\ [Next]_vars => Inv'
<1> SUFFICES ASSUME Inv, [Next]_vars PROVE Inv'
  OBVIOUS
<1>1. CASE TapMark \/ (\E f \in Flows : StartFlush(f)) \/ LeaveEvent \/ StartLogout
  BY <1>1, StartsKeep
<1>2. ASSUME NEW f \in Flows, FlowStep(f) \/ Abandon(f) \/ BundleLost(f) PROVE Inv'
  BY <1>2, FlowStepKeeps, AbandonKeeps, BundleLostKeeps
<1>3. CASE OpenEvent \/ Reload \/ SessionEnds \/ ExpireCache \/ QueueMark
  BY <1>3, OpenEventKeeps, ReloadKeeps, SessionEndsKeeps, ExpireCacheKeeps, QueueMarkKeeps
<1>4. ASSUME NEW u \in Users, Login(u) PROVE Inv'
  BY <1>4, LoginKeeps
<1>5. CASE ConfirmLogout \/ RevokeSession \/ ClearDevice
  BY <1>5, ConfirmLogoutKeeps, RevokeSessionKeeps, ClearDeviceKeeps
<1>6. CASE StartHandoff \/ ServeHandoff \/ AckHandoff
  BY <1>6, StartHandoffKeeps, ServeHandoffKeeps, AckHandoffKeeps
<1>7. ASSUME NEW m \in Marks, ResolveCase(m) PROVE Inv'
  BY <1>7, ResolveCaseKeeps
<1>8. ASSUME NEW x \in late, ServeLate(x) PROVE Inv'
  BY <1>8, ServeLateKeeps
<1>9. ASSUME NEW m \in OtherMarks, NEW r \in Regs, NEW u \in Users, OtherDevice(m, r, u)
      PROVE  Inv'
  BY <1>9, OtherDeviceKeeps
<1>10. ASSUME NEW r \in Regs, Annul(r) PROVE Inv'
  BY <1>10, AnnulKeeps
<1>11. CASE UNCHANGED vars
  <2>1. /\ UNCHANGED <<serverVars, sessionVars, deviceVars, flowVars, tabVars, late, counted>>
        /\ faults' = faults
    BY <1>11 DEF vars
  <2>2. TabTypeOK' /\ faults' \in Nat
    BY <2>1, TypeParts DEF Inv, TabTypeOK, tabVars, HistoryTypeOK
  <2> QED BY <2>1, <2>2, TabOnly
<1> QED BY <1>1, <1>2, <1>3, <1>4, <1>5, <1>6, <1>7, <1>8, <1>9, <1>10, <1>11 DEF Next

LEMMA Invariant == Spec => []Inv
<1> HIDE DEF Fairness
<1> QED BY InvInit, InvNext, PTL DEF Spec

-----------------------------------------------------------------------------
(***************************************************************************)
(* Every variable of the device, the tab, its flows and the server keeps   *)
(* its type, and a request holds no mark its flush did not read.           *)
(***************************************************************************)
THEOREM TypeCorrect == Spec => []TypeOK
<1>1. Inv => TypeOK
  BY DEF Inv
<1> QED BY <1>1, Invariant, PTL

(***************************************************************************)
(* Whatever replies are lost, requests go on after they were given up,     *)
(* pages die and other flows run between two awaits: a mark leaves the     *)
(* device as confirmed or handed over only when the server has stored it,  *)
(* or its case. (applySyncResults, resetPending,                           *)
(* acknowledgeRejectedHandoff)                                             *)
(***************************************************************************)
THEOREM NoMarkLostHolds == Spec => []NoMarkLost
<1>1. Inv => NoMarkLost
  BY DEF Inv, DataInv
<1> QED BY <1>1, Invariant, PTL

(***************************************************************************)
(* A first attendance the device shows is the server's, for any number of  *)
(* devices, replies and bundles in any order. (applySyncResults,           *)
(* replaceBundle)                                                          *)
(***************************************************************************)
THEOREM CacheAgreesHolds == Spec => []CacheAgreesWithServer
<1>1. Inv => CacheAgreesWithServer
  BY DEF Inv, DataInv, BundlesOK, BundleOK, CacheAgreesWithServer
<1> QED BY <1>1, Invariant, PTL

(***************************************************************************)
(* A cached bundle is never older than the version it carries, although    *)
(* the version is read before the registrations. (offline-bundle)          *)
(***************************************************************************)
THEOREM BundleNotAheadHolds == Spec => []BundleNotAhead
<1>1. Inv => BundleNotAhead
  BY DEF Inv, DataInv, BundlesOK, BundleOK, BundleNotAhead
<1> QED BY <1>1, Invariant, PTL

-----------------------------------------------------------------------------
\* A logout runs without a page load beside it, and reaches the transaction
\* that clears the device only over a dead session.
LogoutAlone ==
  /\ "logout" \in Flows /\ pc["logout"] # "idle" =>
       /\ view \in {"events", "scanner"}
       /\ "load" \in Flows => pc["load"] = "idle"
  /\ "logout" \in Flows /\ pc["logout"] = "clear" => ~SessionLive

\* Steps that leave the sessions to themselves and start neither flow.
LEMMA LogoutUndisturbed ==
  ASSUME Inv, LogoutAlone, Flows' = Flows, UNCHANGED cookie, live' \subseteq live,
         "logout" \in Flows => /\ pc["logout"] = "idle" => pc'["logout"] = "idle"
                               /\ pc'["logout"] = "clear" => pc["logout"] = "clear",
         "load" \in Flows => (pc["load"] = "idle" => pc'["load"] = "idle"),
         \/ view' \in {view, "events", "scanner"}
         \/ "load" \in Flows /\ pc["load"] # "idle"
  PROVE  LogoutAlone'
BY DEF LogoutAlone, SessionLive

\* Where a flow may go by itself.
Labels == PCs \ {"clear"}

\* A step of flow f, and where it goes on.
LEMMA FlowStepGoes ==
  ASSUME Inv, NEW f \in Flows, FlowStep(f) \/ Abandon(f) \/ BundleLost(f)
  PROVE  /\ UNCHANGED sessionVars /\ pc[f] # "idle"
         /\ \E l \in Labels : pc' = [pc EXCEPT ![f] = l]
         /\ f = "load" \/ view' \in {view, "scanner"}
<1>1. pc \in [Flows -> PCs] /\ FlowsPlaced
  BY TypeParts DEF Inv, FlowInv, PlaceTypeOK
<1>2. ASSUME Fail(f)
      PROVE  /\ \E l \in Labels : pc' = [pc EXCEPT ![f] = l]
             /\ f = "load" \/ view' = view
  BY <1>2 DEF Fail, End, Goto, Labels, PCs
<1>3. ASSUME FlushDone(f) \/ End(f)
      PROVE  \E l \in Labels : pc' = [pc EXCEPT ![f] = l]
  BY <1>3 DEF FlushDone, End, Goto, Labels, PCs
<1>4. ASSUME Bound(f)
      PROVE  /\ \E l \in Labels : pc' = [pc EXCEPT ![f] = l]
             /\ view' = view
  BY <1>4 DEF Bound, Goto, Labels, PCs
<1>5. CASE AskSession(f)
  <2>1. /\ UNCHANGED sessionVars /\ pc[f] = "session"
        /\ \/ Goto(f, "bind") /\ UNCHANGED view
           \/ Goto(f, "disown") /\ UNCHANGED view
           \/ Fail(f)
           \/ f = "load" /\ End(f)
    BY <1>5 DEF AskSession, LoadFails
  <2> QED BY <1>2, <1>3, <2>1 DEF Goto, Labels, PCs
<1>6. CASE ReadOwner(f)
  BY <1>2, <1>4, <1>6 DEF ReadOwner, Goto, Labels, PCs
<1>7. CASE BindOwner(f)
  BY <1>4, <1>7 DEF BindOwner
<1>8. CASE ListEvents(f)
  BY <1>1, <1>2, <1>8 DEF ListEvents, End, Goto, Labels, PCs, LoadFails, FlowsPlaced, PlacedAt
<1>9. CASE ReadPending(f) \/ SendBatch(f) \/ Arrive(f) \/ Abandon(f)
  BY <1>3, <1>9 DEF ReadPending, SendBatch, Arrive, Abandon, tabVars, Goto, Labels, PCs
<1>10. CASE ServeItem(f)
  <2>1. pc' = [pc EXCEPT ![f] = "serving"] /\ UNCHANGED <<sessionVars, tabVars>>
    BY <1>1, <1>10 DEF ServeItem
  <2> QED BY <1>10, <2>1 DEF ServeItem, tabVars, Labels, PCs
<1>11. CASE ApplyResults(f)
  BY <1>3, <1>11 DEF ApplyResults, tabVars, Goto, Labels, PCs
<1>12. CASE ResetPending(f) \/ BundleLost(f)
  BY <1>2, <1>12 DEF ResetPending, BundleLost
<1>13. CASE BundleVersion(f) \/ BundleRows(f) \/ CheckBundle(f)
  BY <1>2, <1>13 DEF BundleVersion, BundleRows, CheckBundle, tabVars, Goto, Labels, PCs
<1>14. CASE ReplaceBundle(f)
  BY <1>3, <1>14 DEF ReplaceBundle
<1>15. CASE ReadDisowned(f)
  BY <1>15 DEF ReadDisowned, tabVars, Goto, Labels, PCs
<1>16. CASE RevokeAccess(f)
  BY <1>2, <1>16 DEF RevokeAccess
<1> QED BY <1>5, <1>6, <1>7, <1>8, <1>9, <1>10, <1>11, <1>12, <1>13, <1>14, <1>15, <1>16
        DEF FlowStep

LEMMA LogoutAloneInit == Init => LogoutAlone
BY DEF Init, LogoutAlone, Flows

LEMMA LogoutAloneFlow ==
  ASSUME Inv, LogoutAlone, NEW f \in Flows, FlowStep(f) \/ Abandon(f) \/ BundleLost(f)
  PROVE  LogoutAlone'
<1>1. PICK l \in Labels : pc' = [pc EXCEPT ![f] = l]
  BY FlowStepGoes
<1>2. /\ pc \in [Flows -> PCs] /\ Flows' = Flows
      /\ \A g \in Flows : pc'[g] = IF g = f THEN l ELSE pc[g]
  BY <1>1, TypeParts DEF Inv, PlaceTypeOK, Flows
<1>3. UNCHANGED <<live, cookie>> /\ pc[f] # "idle"
  BY FlowStepGoes DEF sessionVars
<1>4. \/ view' \in {view, "events", "scanner"}
      \/ "load" \in Flows /\ pc["load"] # "idle"
  BY <1>3, FlowStepGoes
<1> QED BY <1>1, <1>2, <1>3, <1>4, LogoutUndisturbed DEF Labels

LEMMA LogoutAloneStart ==
  ASSUME Inv, LogoutAlone, NEW f, NEW l, NEW u, Start(f, l, u), l # "clear",
         UNCHANGED sessionVars,
         f \in {"load", "logout"} => ~Busy,
         f = "logout" => view' \in {"events", "scanner"},
         f # "load" => view' = view
  PROVE  LogoutAlone'
<1>1. /\ pc \in [Flows -> PCs] /\ Flows' = Flows /\ f \in Flows /\ pc[f] = "idle"
      /\ \A g \in Flows : pc'[g] = IF g = f THEN l ELSE pc[g]
  BY TypeParts DEF Inv, PlaceTypeOK, Flows, Start, Goto
<1>2. UNCHANGED <<live, cookie>>
  BY DEF sessionVars
<1>3. f \in {"load", "logout"} =>
        /\ "logout" \in Flows => pc["logout"] = "idle"
        /\ "load" \in Flows => pc["load"] = "idle"
  BY DEF Busy
<1> QED BY <1>1, <1>2, <1>3 DEF LogoutAlone, SessionLive

LEMMA LogoutAloneNext == Inv /\ LogoutAlone /\ [Next]_vars => LogoutAlone'
<1> SUFFICES ASSUME Inv, LogoutAlone, [Next]_vars PROVE LogoutAlone'
  OBVIOUS
<1>0. pc \in [Flows -> PCs] /\ SessionTypeOK
  BY TypeParts DEF Inv, PlaceTypeOK
<1>1. ASSUME UNCHANGED <<sessionVars, tabVars, pc>> PROVE LogoutAlone'
  BY <1>1 DEF LogoutAlone, SessionLive, sessionVars, tabVars, Flows
<1>2. ASSUME NEW f \in Flows, FlowStep(f) \/ Abandon(f) \/ BundleLost(f)
      PROVE  LogoutAlone'
  BY <1>2, LogoutAloneFlow
<1>3. CASE TapMark
  BY <1>3, LogoutAloneStart DEF TapMark, tabVars
<1>4. ASSUME NEW f \in Flows, StartFlush(f) PROVE LogoutAlone'
  BY <1>4, LogoutAloneStart DEF StartFlush, tabVars
<1>5. CASE LeaveEvent
  BY <1>5, LogoutAloneStart DEF LeaveEvent
<1>6. CASE StartLogout
  <2>1. PICK l \in {"session", "confirm"} : Start("logout", l, NoOne)
    BY <1>6 DEF StartLogout
  <2> QED BY <1>6, <2>1, LogoutAloneStart DEF StartLogout, tabVars
<1>7. CASE OpenEvent
  <2>1. CASE view' = "scanner" /\ UNCHANGED flowVars
    BY <1>7, <2>1 DEF OpenEvent, LogoutAlone, SessionLive, sessionVars, flowVars, Flows
  <2>2. CASE Start("prepare", "session", NoOne) /\ UNCHANGED view
    BY <1>7, <2>2, LogoutAloneStart DEF OpenEvent
  <2> QED BY <1>7, <2>1, <2>2 DEF OpenEvent
<1>8. ASSUME NEW u \in Users, Login(u) PROVE LogoutAlone'
  <2>1. view = "login" /\ Start("load", "session", NoOne)
    BY <1>8 DEF Login
  <2>2. /\ Flows' = Flows
        /\ \A g \in Flows : g # "load" => pc'[g] = pc[g]
    BY <1>0, <2>1 DEF Start, Goto, Flows
  <2> QED BY <2>1, <2>2 DEF LogoutAlone
<1>9. CASE Reload
  BY <1>9 DEF Reload, LogoutAlone, Flows
<1>10. CASE SessionEnds
  <2>1. pc' = pc /\ view' = view /\ live' \subseteq live /\ cookie' = cookie
    BY <1>10 DEF SessionEnds, flowVars, tabVars
  <2> QED BY <2>1 DEF LogoutAlone, SessionLive, Flows
<1>11. CASE QueueMark
  <2>1. PICK f \in Flows : f = "record"
    BY <1>11 DEF QueueMark
  <2>2. /\ End(f) \/ Goto(f, "read")
        /\ UNCHANGED <<sessionVars, tabVars>>
    BY <1>11, <2>1 DEF QueueMark
  <2>3. Flows' = Flows /\ \A g \in Flows : g # f => pc'[g] = pc[g]
    BY <1>0, <2>2 DEF End, Goto, Flows
  <2>4. live' = live /\ cookie' = cookie /\ view' = view
    BY <2>2 DEF sessionVars, tabVars
  <2> QED BY <2>1, <2>3, <2>4 DEF LogoutAlone, SessionLive
<1>12. CASE ConfirmLogout
  <2>1. "logout" \in Flows /\ pc["logout"] = "confirm"
    BY <1>12 DEF ConfirmLogout
  <2>2. End("logout") \/ Goto("logout", "revoke")
    BY <1>12 DEF ConfirmLogout
  <2>3. /\ Flows' = Flows /\ \A g \in Flows : g # "logout" => pc'[g] = pc[g]
        /\ pc'["logout"] \in {"idle", "revoke"}
    BY <1>0, <2>1, <2>2 DEF End, Goto, Flows
  <2>4. live' = live /\ cookie' = cookie /\ view' = view
    BY <1>12 DEF ConfirmLogout, sessionVars, tabVars
  <2> QED BY <2>1, <2>3, <2>4 DEF LogoutAlone, SessionLive
<1>13. CASE RevokeSession
  <2>1. "logout" \in Flows /\ pc["logout"] = "revoke"
    BY <1>13 DEF RevokeSession
  <2>2. \/ Goto("logout", "clear") /\ view' = view /\ cookie' = 0 /\ live' \subseteq live
        \/ Goto("logout", "clear") /\ view' = view /\ ~SessionLive /\ UNCHANGED <<cookie, live>>
        \/ End("logout")
    BY <1>13, <2>1 DEF RevokeSession, Fail
  <2>3. /\ Flows' = Flows /\ \A g \in Flows : g # "logout" => pc'[g] = pc[g]
        /\ End("logout") => pc'["logout"] = "idle"
    BY <1>0, <2>1, <2>2 DEF End, Goto, Flows
  <2> QED BY <1>0, <2>1, <2>2, <2>3 DEF LogoutAlone, SessionLive, SessionTypeOK
<1>14. CASE ClearDevice
  <2>1. "logout" \in Flows /\ End("logout")
    BY <1>14 DEF ClearDevice
  <2>2. Flows' = Flows /\ pc'["logout"] = "idle"
    BY <1>0, <2>1 DEF End, Goto, Flows
  <2> QED BY <2>2 DEF LogoutAlone
<1>15. CASE StartHandoff \/ ServeHandoff \/ AckHandoff
  <2>1. /\ UNCHANGED <<sessionVars, tabVars>>
        /\ \E l \in {"idle", "handoff", "ack"} : Goto("handoff", l)
    BY <1>15 DEF StartHandoff, ServeHandoff, AckHandoff, EndHandoff
  <2>2. Flows' = Flows /\ \A g \in Flows : g # "handoff" => pc'[g] = pc[g]
    BY <1>0, <2>1 DEF Goto, Flows
  <2>3. live' = live /\ cookie' = cookie /\ view' = view
    BY <2>1 DEF sessionVars, tabVars
  <2> QED BY <2>2, <2>3 DEF LogoutAlone, SessionLive
<1>16. CASE \/ ExpireCache \/ (\E m \in Marks : ResolveCase(m))
            \/ (\E x \in late : ServeLate(x)) \/ (\E r \in Regs : Annul(r))
            \/ \E m \in OtherMarks, r \in Regs, u \in Users : OtherDevice(m, r, u)
  BY <1>1, <1>16 DEF ExpireCache, ResolveCase, ServeLate, Annul, OtherDevice, flowVars
<1>17. CASE UNCHANGED vars
  BY <1>1, <1>17 DEF vars, flowVars
<1> QED BY <1>2, <1>3, <1>4, <1>5, <1>6, <1>7, <1>8, <1>9, <1>10, <1>11, <1>12, <1>13,
           <1>14, <1>15, <1>16, <1>17 DEF Next

\* The owner is forgotten by the transaction that clears the device, or
\* over a dead session.
LEMMA OwnerForgotten ==
  Inv /\ LogoutAlone /\ [Next]_vars => (owner # NoOwner /\ owner' = NoOwner => ~SessionLive)
<1> SUFFICES ASSUME Inv, LogoutAlone, [Next]_vars, owner # NoOwner, owner' = NoOwner
             PROVE  ~SessionLive
  OBVIOUS
<1>1. ASSUME NEW f \in Flows, ReadOwner(f) \/ BindOwner(f) PROVE FALSE
  <2>1. owner'.valid \/ owner' = owner
    BY <1>1, TypeParts DEF ReadOwner, BindOwner, Inv, OwnerTypeOK
  <2> QED BY <2>1 DEF NoOwner
<1>2. ASSUME NEW f \in Flows, RevokeAccess(f) PROVE FALSE
  BY <1>2 DEF RevokeAccess, NoOwner
<1>3. CASE ClearDevice
  BY <1>3 DEF ClearDevice, LogoutAlone
<1>4. ASSUME NEW f \in Flows, FlowStep(f), ~RevokeAccess(f), ~ReadOwner(f), ~BindOwner(f)
      PROVE  UNCHANGED owner
  BY <1>4
  DEF FlowStep, AskSession, ReadDisowned, ListEvents, ReadPending, SendBatch, Arrive, ServeItem, ApplyResults,
      ResetPending, BundleVersion, BundleRows, CheckBundle, ReplaceBundle, deviceVars
<1>5. ASSUME NEW f \in Flows, StartFlush(f) \/ Abandon(f) \/ BundleLost(f)
      PROVE  UNCHANGED owner
  BY <1>5 DEF StartFlush, Abandon, BundleLost, deviceVars
<1>6. ASSUME \/ TapMark \/ QueueMark \/ OpenEvent \/ LeaveEvent \/ Reload \/ SessionEnds
             \/ ExpireCache \/ (\E u \in Users : Login(u)) \/ StartLogout \/ ConfirmLogout
      PROVE  UNCHANGED owner
  BY <1>6 DEF TapMark, QueueMark, OpenEvent, LeaveEvent, Reload, SessionEnds,
     ExpireCache, Login, StartLogout, ConfirmLogout, deviceVars
<1>7. ASSUME RevokeSession \/ StartHandoff \/ ServeHandoff \/ AckHandoff
      PROVE  UNCHANGED owner
  BY <1>7 DEF RevokeSession, StartHandoff, ServeHandoff, AckHandoff, deviceVars
<1>8. ASSUME \/ (\E m \in Marks : ResolveCase(m)) \/ (\E x \in late : ServeLate(x))
             \/ (\E m \in OtherMarks, r \in Regs, u \in Users : OtherDevice(m, r, u))
             \/ (\E r \in Regs : Annul(r)) \/ UNCHANGED vars
      PROVE  UNCHANGED owner
  BY <1>8 DEF ResolveCase, ServeLate, OtherDevice, Annul, vars, deviceVars
<1> QED BY <1>1, <1>2, <1>3, <1>4, <1>5, <1>6, <1>7, <1>8 DEF Next

(***************************************************************************)
(* The device forgets its owner only over a session that is already dead   *)
(* on the server, whatever runs beside the logout and whichever of its     *)
(* replies are lost. (logout in App.tsx, clearBusinessData,                *)
(* revokeOfflineAccess)                                                    *)
(***************************************************************************)
THEOREM LogoutRevokesFirstHolds == Spec => LogoutRevokesFirst
<1> HIDE DEF Fairness
<1>1. Spec => []LogoutAlone
  BY LogoutAloneInit, LogoutAloneNext, Invariant, PTL DEF Spec
<1> QED BY <1>1, OwnerForgotten, Invariant, PTL DEF Spec, LogoutRevokesFirst

=============================================================================
