--------------------------- MODULE AdminConsoleProofs ---------------------------
(***************************************************************************)
(* Proofs about the console, for any objects and calls.  Each page has an  *)
(* invariant of its own.  Scoring: published periods stay disjoint and the *)
(* awards of the season never contradict it.  Review: it implements its    *)
(* ledger, and a stored decision replaces only what its author had before  *)
(* him.  Registrations: a request that is repeated is applied once, and    *)
(* workbooks are imported as was decided.  People: a roster is imported    *)
(* only after a clean preview of it.  Then the console, which mounts one   *)
(* of the pages.                                                           *)
(***************************************************************************)
EXTENDS AdminConsole, EventsPageProofs, FiniteSetTheorems

-----------------------------------------------------------------------------
(* Scoring. *)
RowFields == {"policy", "state", "sound", "span"}
Stored(v) == version[v].state # "ABSENT"

VersionsOK ==
  /\ DOMAIN version = Versions
  /\ \A v \in Versions : DOMAIN version[v] = RowFields
  /\ PeriodsDisjoint

\* The awards and the season fit, and a version that awarded is stored.
SeasonOK ==
  /\ season.from \in Instants \cup {0}
  /\ moment \in [ScoredEvents -> Instants] /\ awards \subseteq AwardRow
  /\ \A a \in awards : a.engine = "V2" => a.version \in Versions /\ Stored(a.version)
  /\ HistoryFitsSeason

\* What a transaction read of the versions agrees with them on the policies.
SnapshotOK(data) ==
  \A v \in Versions : data[v].state \in {"PUBLISHED", "RETIRED"} =>
    Stored(v) /\ data[v].policy = version[v].policy
\* What the calls that touch the season and its awards ask for.
SeasonOps == {"award", "assignSeason", "moveEvent"}
SeasonAsk(o, a) ==
  /\ o = "award" => a \in ScoredEvents
  /\ o = "assignSeason" => a.from \in Instants \cup {0} /\ (a.policy # Null => a.from \in Instants)
  /\ o = "moveEvent" => a.event \in ScoredEvents /\ a.to \in Instants
ScoringAskOK(c) ==
  /\ SeasonAsk(c.op, c.arg)
  /\ c.op = "award" /\ c.phase = "open" => SnapshotOK(c.data)
ScoringAsksOK ==
  /\ CallsTyped
  /\ \A i \in DOMAIN calls : calls[i].phase \in {"sent", "open"} => ScoringAskOK(calls[i])

ScoringInv == VersionsOK /\ SeasonOK /\ ScoringAsksOK

\* A stored version keeps its policy and stays stored.
VersionsKept ==
  \A v \in Versions : Stored(v) => Stored(v)' /\ version'[v].policy = version[v].policy

-----------------------------------------------------------------------------
(* The calls. *)
LEMMA ScoringAsksSend ==
  ASSUME ScoringAsksOK, VersionsKept, CallsTyped', NEW o, NEW a, Sends(o, a),
         SeasonAsk(o, a)
  PROVE  ScoringAsksOK'
<1>1. \A d : SnapshotOK(d) => SnapshotOK(d)'
  BY DEF SnapshotOK, VersionsKept
<1> QED
  BY <1>1 DEF ScoringAsksOK, ScoringAskOK, Sends

LEMMA ScoringAsksStay ==
  ASSUME ScoringAsksOK, VersionsKept, CallsTyped', SendsNone
  PROVE  ScoringAsksOK'
<1>1. \A d : SnapshotOK(d) => SnapshotOK(d)'
  BY DEF SnapshotOK, VersionsKept
<1> QED
  BY <1>1 DEF ScoringAsksOK, ScoringAskOK, SendsNone

LEMMA Appends ==
  ASSUME ScoringAsksOK, VersionsKept, NEW o, NEW a,
         calls' = Append(calls, Call(o, a)) \/ calls' = Append(calls, OthersCall(o, a)),
         SeasonAsk(o, a)
  PROVE  ScoringAsksOK'
BY AppendSends, ScoringAsksSend DEF ScoringAsksOK

LEMMA Overs ==
  ASSUME ScoringAsksOK, VersionsKept, NEW i \in DOMAIN calls, calls' = Over(i)
  PROVE  ScoringAsksOK'
<1>1. CallsTyped' /\ SendsNone
  BY StepMoves DEF ScoringAsksOK
<1> QED
  BY <1>1, ScoringAsksStay

LEMMA GoesOn ==
  ASSUME ScoringAsksOK, VersionsKept, NEW i \in DOMAIN calls, NEW o, NEW a,
         calls' = Append(Over(i), Call(o, a)), o \notin SeasonOps
  PROVE  ScoringAsksOK'
BY TakeSends, ScoringAsksSend DEF ScoringAsksOK, SeasonAsk, SeasonOps

LEMMA ScoringAnswers ==
  ASSUME ScoringAsksOK, VersionsKept, NEW i \in DOMAIN calls, NEW d, Done(i, d) \/ Refused(i)
  PROVE  ScoringAsksOK'
<1>1. PICK k \in BOOLEAN : \E e : Answer(i, k, e)
  BY DEF Done, Refused, RefusedAs
<1>2. CallsTyped' /\ SendsNone
  BY <1>1, StepMoves DEF ScoringAsksOK
<1> QED
  BY <1>2, ScoringAsksStay

-----------------------------------------------------------------------------
(* The page. *)
LEMMA NothingStored ==
  ASSUME UNCHANGED <<version, season, moment, awards>>
  PROVE  /\ VersionsKept
         /\ VersionsOK => VersionsOK'
         /\ SeasonOK => SeasonOK'
BY DEF VersionsKept, VersionsOK, SeasonOK, Stored, PeriodsDisjoint, HistoryFitsSeason, Disjoint,
       Fits, UsesV2

LEMMA ScoringClickKeeps ==
  ASSUME ScoringInv, ScoringClicks
  PROVE  ScoringInv'
<1>1. UNCHANGED <<version, season, moment, awards>>
  BY DEF ScoringClicks, CreatePolicy, NewDraft, EditValues, CloseEditor, SaveVersion,
         RetireVersion, OpenSeasonForm, CloseSeasonForm, AssignStatus, Calculate, OpenPolicy,
         AssignSeason, OpenVersion, PublishVersion, SearchPeople, ClearPerson, SelectPerson,
         OpenStatusForm, RetireStatus, SelectPlay, EditorCall, scoringVars, scoringServer
<1>2. ScoringAsksOK'
  <2>1. CASE UNCHANGED calls
    BY <1>1, <2>1, NothingStored
       DEF ScoringInv, ScoringAsksOK, ScoringAskOK, SnapshotOK, Stored, CallsTyped
  <2>2. ASSUME NEW o, NEW a, calls' = Append(calls, Call(o, a)),
               o \notin SeasonOps
        PROVE  ScoringAsksOK'
    BY <1>1, <2>2, NothingStored, Appends DEF ScoringInv, SeasonAsk, SeasonOps
  <2>3. ASSUME NEW p \in Policies, NEW t \in Instants, AssignSeason(p, t)
        PROVE  ScoringAsksOK'
    <3>1. SeasonAsk("assignSeason", [policy |-> p, from |-> t])
      BY DEF SeasonAsk
    <3> QED
      BY <1>1, <2>3, <3>1, NothingStored, Appends DEF ScoringInv, AssignSeason
  <2>4. CASE \/ NewDraft \/ EditValues \/ CloseEditor \/ OpenSeasonForm \/ CloseSeasonForm
             \/ \E k \in Panels : ClearPerson(k)
             \/ \E open \in BOOLEAN : OpenStatusForm(open)
             \/ \E x \in Plays : SelectPlay(x)
    BY <2>1, <2>4 DEF NewDraft, EditValues, CloseEditor, OpenSeasonForm, CloseSeasonForm,
                      ClearPerson, OpenStatusForm, SelectPlay, shell
  <2>5. CASE CreatePolicy \/ SaveVersion \/ RetireVersion \/ AssignStatus \/ Calculate
    BY <2>2, <2>5 DEF CreatePolicy, SaveVersion, RetireVersion, AssignStatus, Calculate, EditorCall, SeasonOps
  <2>6. ASSUME NEW p \in Policies, OpenPolicy(p) PROVE ScoringAsksOK'
    BY <2>2, <2>6 DEF OpenPolicy, SeasonOps
  <2>7. ASSUME NEW v \in Versions, OpenVersion(v) PROVE ScoringAsksOK'
    BY <2>2, <2>7 DEF OpenVersion, SeasonOps
  <2>8. ASSUME NEW span \in Periods, PublishVersion(span) PROVE ScoringAsksOK'
    BY <2>2, <2>8 DEF PublishVersion, EditorCall, SeasonOps
  <2>9. ASSUME NEW k \in Panels, SearchPeople(k) PROVE ScoringAsksOK'
    BY <2>2, <2>9 DEF SearchPeople, SeasonOps
  <2>10. ASSUME NEW k \in Panels, NEW p \in People, SelectPerson(k, p) PROVE ScoringAsksOK'
    <3>1. CASE k = "statuses"
      BY <2>2, <2>10, <3>1 DEF SelectPerson, SeasonOps
    <3>2. CASE k # "statuses"
      BY <2>2, <2>10, <3>2 DEF SelectPerson, SeasonOps
    <3> QED
      BY <3>1, <3>2
  <2>11. ASSUME NEW s \in Statuses, RetireStatus(s) PROVE ScoringAsksOK'
    BY <2>2, <2>11 DEF RetireStatus, SeasonOps
  <2> QED
    BY <2>3, <2>4, <2>5, <2>6, <2>7, <2>8, <2>9, <2>10, <2>11 DEF ScoringClicks
<1> QED
  BY <1>1, <1>2, NothingStored DEF ScoringInv

LEMMA OtherScoringKeeps ==
  ASSUME ScoringInv, OtherScoring
  PROVE  ScoringInv'
<1>1. UNCHANGED <<version, season, moment, awards>>
  BY DEF OtherScoring, scoringVars, scoringServer
<1>2. ASSUME NEW o, NEW a, calls' = Append(calls, OthersCall(o, a)),
             SeasonAsk(o, a)
      PROVE  ScoringAsksOK'
  BY <1>1, <1>2, NothingStored, Appends DEF ScoringInv
<1>3. ScoringAsksOK'
  <2>1. CASE \E e \in ScoredEvents : calls' = Append(calls, OthersCall("award", e))
    BY <1>2, <2>1 DEF SeasonAsk
  <2>2. CASE \E t \in Instants, p \in policies :
               calls' = Append(calls, OthersCall("assignSeason", [policy |-> p, from |-> t]))
    <3>1. PICK t \in Instants, p \in policies :
               calls' = Append(calls, OthersCall("assignSeason", [policy |-> p, from |-> t]))
      BY <2>2
    <3>2. SeasonAsk("assignSeason", [policy |-> p, from |-> t])
      BY DEF SeasonAsk
    <3> QED
      BY <1>2, <3>1, <3>2
  <2>3. CASE calls' = Append(calls, OthersCall("assignSeason", [policy |-> Null, from |-> 0]))
    <3>1. SeasonAsk("assignSeason", [policy |-> Null, from |-> 0])
      BY DEF SeasonAsk
    <3> QED
      BY <1>2, <2>3, <3>1
  <2>4. CASE \E e \in ScoredEvents, t \in Instants :
               calls' = Append(calls, OthersCall("moveEvent", [event |-> e, to |-> t]))
    <3>1. PICK e \in ScoredEvents, t \in Instants :
               calls' = Append(calls, OthersCall("moveEvent", [event |-> e, to |-> t]))
      BY <2>4
    <3>2. SeasonAsk("moveEvent", [event |-> e, to |-> t])
      BY DEF SeasonAsk
    <3> QED
      BY <1>2, <3>1, <3>2
  <2>5. CASE \E v \in Versions :
               \/ \E sound \in BOOLEAN :
                    calls' = Append(calls, OthersCall("saveVersion", [id |-> v, sound |-> sound]))
               \/ \E span \in Periods :
                    calls' = Append(calls, OthersCall("publish", [id |-> v, span |-> span]))
               \/ calls' = Append(calls, OthersCall("retireVersion", [id |-> v]))
    BY <1>2, <2>5 DEF SeasonAsk
  <2>6. CASE \E s \in Statuses :
               \/ calls' = Append(calls, OthersCall("assignStatus", [person |-> StatusOf[s]]))
               \/ calls' = Append(calls, OthersCall("retireStatus",
                                                  [person |-> StatusOf[s], id |-> s]))
    BY <1>2, <2>6 DEF SeasonAsk
  <2> QED
    BY <2>1, <2>2, <2>3, <2>4, <2>5, <2>6 DEF OtherScoring
<1> QED
  BY <1>1, <1>3, NothingStored DEF ScoringInv

LEMMA ScoringReceiveKeeps ==
  ASSUME ScoringInv, NEW i \in DOMAIN calls, ScoringReceives(i)
  PROVE  ScoringInv'
<1>1. UNCHANGED <<version, season, moment, awards>>
  BY DEF ScoringReceives, LookUpVersions, CommitReferences, ReferencesFail, PolicyCreated,
         ChangeFails, ShowVersions, ShowVersion, EditorSaved, EditorFails, SeasonAssigned,
         ShowPeople, StatusChanged, ShowStatuses, StatusesFail, ShowParticipations, ShowPreview,
         scoringVars, scoringServer
<1>2. CASE calls' = Over(i)
  BY <1>1, <1>2, NothingStored, Overs DEF ScoringInv
<1>3. ASSUME NEW o, NEW a, calls' = Append(Over(i), Call(o, a)), o \notin SeasonOps
      PROVE  ScoringInv'
  BY <1>1, <1>3, NothingStored, GoesOn DEF ScoringInv
<1> QED
  BY <1>2, <1>3
     DEF ScoringReceives, LookUpVersions, CommitReferences, ReferencesFail, PolicyCreated,
         ChangeFails, ShowVersions, ShowVersion, EditorSaved, EditorFails, SeasonAssigned,
         ShowPeople, StatusChanged, ShowStatuses, StatusesFail, ShowParticipations, ShowPreview, Reload,
         SeasonOps

-----------------------------------------------------------------------------
(* The transactions of the versions. *)

\* A version changed without being stored or its span growing keeps the rest.
LEMMA VersionStep ==
  ASSUME ScoringInv, UNCHANGED <<season, moment, awards>>, VersionsOK', VersionsKept
  PROVE  SeasonOK'
BY DEF ScoringInv, SeasonOK, Stored, VersionsKept, HistoryFitsSeason, Fits, UsesV2

LEMMA CreateVersionKeeps ==
  ASSUME ScoringInv, NEW i \in DOMAIN calls, ServeCreateVersion(i)
  PROVE  ScoringInv'
<1>1. PICK v \in Versions :
        /\ ~Stored(v)
        /\ version' = [version EXCEPT ![v] = [policy |-> calls[i].arg.policy, state |-> "DRAFT",
                                             sound |-> calls[i].arg.sound, span |-> {}]]
  BY DEF ServeCreateVersion, Stored
<1>2. /\ DOMAIN version' = Versions /\ version'[v].state = "DRAFT"
      /\ DOMAIN version'[v] = RowFields
      /\ \A w \in Versions : w # v => version'[w] = version[w]
  BY <1>1 DEF ScoringInv, VersionsOK, RowFields
<1>3. VersionsKept
  BY <1>1, <1>2 DEF VersionsKept, Stored
<1>4. VersionsOK'
  BY <1>2 DEF ScoringInv, VersionsOK, PeriodsDisjoint, Disjoint
<1>5. UNCHANGED <<season, moment, awards>> /\ ScoringAsksOK'
  BY <1>3, ScoringAnswers DEF ServeCreateVersion, ScoringInv
<1> QED
  BY <1>3, <1>4, <1>5, VersionStep DEF ScoringInv

LEMMA SaveVersionKeeps ==
  ASSUME ScoringInv, NEW i \in DOMAIN calls, ServeSaveVersion(i)
  PROVE  ScoringInv'
<1>1. CASE UNCHANGED version
  BY <1>1, NothingStored, ScoringAnswers DEF ServeSaveVersion, ScoringInv
<1>2. CASE version' = [version EXCEPT ![calls[i].arg.id].sound = calls[i].arg.sound]
  <2> DEFINE v == calls[i].arg.id
             sound == calls[i].arg.sound
  <2>0. version' = [version EXCEPT ![v].sound = sound]
    BY <1>2
  <2> HIDE DEF v, sound
  <2>1. /\ DOMAIN version' = Versions
        /\ \A w \in Versions :
             /\ DOMAIN version'[w] = RowFields
             /\ version'[w].state = version[w].state /\ version'[w].policy = version[w].policy
             /\ version'[w].span = version[w].span
    BY <2>0 DEF ScoringInv, VersionsOK, RowFields
  <2>2. VersionsKept
    BY <2>1 DEF VersionsKept, Stored
  <2>3. VersionsOK'
    BY <2>1 DEF ScoringInv, VersionsOK, PeriodsDisjoint, Disjoint
  <2>4. UNCHANGED <<season, moment, awards>> /\ ScoringAsksOK'
    BY <2>2, ScoringAnswers DEF ServeSaveVersion, ScoringInv
  <2> QED
    BY <2>2, <2>3, <2>4, VersionStep DEF ScoringInv
<1> QED
  BY <1>1, <1>2 DEF ServeSaveVersion

\* The overlap is looked for under the lock of the policy.
LEMMA PublishKeeps ==
  ASSUME ScoringInv, NEW i \in DOMAIN calls, ServePublish(i)
  PROVE  ScoringInv'
<1> DEFINE v == calls[i].arg.id
           span == calls[i].arg.span
<1>1. CASE UNCHANGED version
  BY <1>1, NothingStored, ScoringAnswers DEF ServePublish, ScoringInv
<1>2. CASE ~UNCHANGED version
  <2>1. /\ version[v].state = "DRAFT" /\ ~Overlaps(v, span)
        /\ version' = [version EXCEPT ![v] = [@ EXCEPT !.state = "PUBLISHED", !.span = span]]
    BY <1>2 DEF ServePublish
  <2> HIDE DEF v, span
  <2>2. /\ DOMAIN version' = Versions
        /\ \A w \in Versions : w # v => version'[w] = version[w]
        /\ v \in Versions => /\ DOMAIN version'[v] = RowFields
                             /\ version'[v].state = "PUBLISHED" /\ version'[v].span = span
                             /\ version'[v].policy = version[v].policy
    BY <2>1 DEF ScoringInv, VersionsOK, RowFields
  <2>3. VersionsKept
    BY <2>2 DEF VersionsKept, Stored
  <2>4. PeriodsDisjoint'
    <3>1. \A w \in Versions \ {v} :
            version[w].policy = version[v].policy /\ version[w].state \in {"PUBLISHED", "RETIRED"}
              => version[w].span \cap span = {}
      BY <2>1 DEF Overlaps
    <3> QED
      BY <2>2, <3>1 DEF ScoringInv, VersionsOK, PeriodsDisjoint, Disjoint
  <2>5. VersionsOK'
    BY <2>2, <2>4 DEF ScoringInv, VersionsOK
  <2>6. UNCHANGED <<season, moment, awards>> /\ ScoringAsksOK'
    BY <2>3, ScoringAnswers DEF ServePublish, ScoringInv
  <2> QED
    BY <2>3, <2>5, <2>6, VersionStep DEF ScoringInv
<1> QED
  BY <1>1, <1>2

LEMMA RetireKeeps ==
  ASSUME ScoringInv, NEW i \in DOMAIN calls, ServeRetire(i)
  PROVE  ScoringInv'
<1> DEFINE v == calls[i].arg.id
<1>1. CASE UNCHANGED version
  BY <1>1, NothingStored, ScoringAnswers DEF ServeRetire, ScoringInv
<1>2. CASE ~UNCHANGED version
  <2>1. /\ version[v].state = "PUBLISHED"
        /\ \/ version' = [version EXCEPT ![v].state = "CANCELLED"]
           \/ version' = [version EXCEPT ![v] = CutOff(version[v])]
    BY <1>2 DEF ServeRetire
  <2>2. v \in Versions =>
          /\ DOMAIN CutOff(version[v]) = RowFields
          /\ CutOff(version[v]).state = "RETIRED"
          /\ CutOff(version[v]).span \subseteq version[v].span
          /\ CutOff(version[v]).policy = version[v].policy
    BY DEF ScoringInv, VersionsOK, RowFields, CutOff
  <2> HIDE DEF v
  <2>3. /\ DOMAIN version' = Versions
        /\ \A w \in Versions : w # v => version'[w] = version[w]
        /\ v \in Versions => /\ DOMAIN version'[v] = RowFields
                             /\ version'[v].state \in {"CANCELLED", "RETIRED"}
                             /\ version'[v].span \subseteq version[v].span
                             /\ version'[v].policy = version[v].policy
    <3>1. CASE version' = [version EXCEPT ![v].state = "CANCELLED"]
      BY <3>1 DEF ScoringInv, VersionsOK, RowFields
    <3>2. CASE version' = [version EXCEPT ![v] = CutOff(version[v])]
      BY <2>2, <3>2 DEF ScoringInv, VersionsOK
    <3> QED
      BY <2>1, <3>1, <3>2
  <2>4. VersionsKept
    BY <2>3 DEF VersionsKept, Stored
  <2>5. VersionsOK'
    BY <2>1, <2>3 DEF ScoringInv, VersionsOK, PeriodsDisjoint, Disjoint
  <2>6. UNCHANGED <<season, moment, awards>> /\ ScoringAsksOK'
    BY <2>4, ScoringAnswers DEF ServeRetire, ScoringInv
  <2> QED
    BY <2>4, <2>5, <2>6, VersionStep DEF ScoringInv
<1> QED
  BY <1>1, <1>2

-----------------------------------------------------------------------------
(* The season and its awards. *)

\* A season that awarded by a policy keeps it; one that did not gets a policy
\* only from a moment after the Events it awarded, or none.
LEMMA AssignSeasonKeeps ==
  ASSUME ScoringInv, NEW i \in DOMAIN calls, ServeAssignSeason(i)
  PROVE  ScoringInv'
<1>1. UNCHANGED <<version, moment, awards>>
  BY DEF ServeAssignSeason
<1>2. VersionsKept /\ VersionsOK'
  BY <1>1 DEF VersionsKept, VersionsOK, Stored, ScoringInv, PeriodsDisjoint, Disjoint
<1>3. ScoringAsksOK'
  BY <1>2, ScoringAnswers DEF ServeAssignSeason, ScoringInv
<1>4. CASE UNCHANGED season
  BY <1>1, <1>3, <1>4, NothingStored DEF ScoringInv
<1>5. CASE ~UNCHANGED season
  <2> DEFINE wanted == calls[i].arg
  <2>1. /\ Waits(i, "assignSeason") /\ MayAssign(wanted)
        /\ season'.policy = wanted.policy /\ season'.from = wanted.from
    BY <1>5 DEF ServeAssignSeason
  <2>2. SeasonAsk("assignSeason", wanted)
    BY <2>1 DEF ScoringInv, ScoringAsksOK, ScoringAskOK, Waits
  <2>3. /\ season'.from \in Instants \cup {0}
        /\ season'.policy # Null => season'.from \in Instants
    BY <2>1, <2>2 DEF SeasonAsk
  <2> HIDE DEF wanted
  <2>4. ASSUME season.policy = wanted.policy /\ season.from = wanted.from
        PROVE  SeasonOK'
    <3>1. season'.policy = season.policy /\ season'.from = season.from
      BY <2>1, <2>4
    <3>2. HistoryFitsSeason'
      BY <1>1, <3>1 DEF ScoringInv, SeasonOK, HistoryFitsSeason, Fits, UsesV2
    <3> QED
      BY <1>1, <2>3, <3>2 DEF ScoringInv, SeasonOK, Stored
  <2>5. ASSUME ~(season.policy = wanted.policy /\ season.from = wanted.from)
        PROVE  SeasonOK'
    <3>1. \A a \in awards : a.engine = "V1"
      BY <2>1, <2>5 DEF MayAssign
    <3>2. wanted.policy # Null => \A a \in awards : moment[a.event] < wanted.from
      BY <2>1, <2>5 DEF MayAssign
    <3>3. \A a \in awards : a.event \in ScoredEvents /\ moment[a.event] \in Nat
      BY InstantsAreNumbers DEF ScoringInv, SeasonOK, AwardRow
    <3>4. \A a \in awards : ~UsesV2(season', moment[a.event])
      <4>1. season'.policy # Null => season'.from \in Nat
        BY <2>3, InstantsAreNumbers
      <4>2. season'.policy # Null => \A a \in awards : ~(moment[a.event] >= season'.from)
        BY <2>1, <3>2, <3>3, <4>1
      <4> QED
        BY <4>2 DEF UsesV2
    <3>5. HistoryFitsSeason'
      BY <1>1, <3>1, <3>4 DEF HistoryFitsSeason, Fits
    <3> QED
      BY <1>1, <2>3, <3>5 DEF ScoringInv, SeasonOK, Stored
  <2>6. SeasonOK'
    BY <2>4, <2>5
  <2> QED
    BY <1>2, <1>3, <2>6 DEF ScoringInv
<1> QED
  BY <1>4, <1>5

\* An award whose Event moved is marked; the others keep their moment.
LEMMA MoveEventKeeps ==
  ASSUME ScoringInv, NEW i \in DOMAIN calls, ServeMoveEvent(i)
  PROVE  ScoringInv'
<1>1. UNCHANGED <<version, season>>
  BY DEF ServeMoveEvent
<1>2. VersionsKept /\ VersionsOK'
  BY <1>1 DEF VersionsKept, VersionsOK, Stored, ScoringInv, PeriodsDisjoint, Disjoint
<1>3. ScoringAsksOK'
  BY <1>2, ScoringAnswers DEF ServeMoveEvent, ScoringInv
<1>4. CASE UNCHANGED <<moment, awards>>
  BY <1>1, <1>3, <1>4, NothingStored DEF ScoringInv
<1>5. CASE ~UNCHANGED <<moment, awards>>
  <2>1. SeasonAsk("moveEvent", calls[i].arg)
    BY DEF ServeMoveEvent, ScoringInv, ScoringAsksOK, ScoringAskOK, Waits
  <2>2. PICK e \in ScoredEvents, to \in Instants :
          /\ moment' = [moment EXCEPT ![e] = to]
          /\ awards' = {[a EXCEPT !.moved = @ \/ (a.event = e /\ moment[e] # to)] : a \in awards}
    BY <1>5, <2>1 DEF ServeMoveEvent, SeasonAsk
  <2>3. moment' \in [ScoredEvents -> Instants]
    BY <2>2 DEF ScoringInv, SeasonOK
  <2>4. ASSUME NEW b \in awards'
        PROVE  \E a \in awards : /\ b \in AwardRow
                                 /\ b.event = a.event /\ b.engine = a.engine /\ b.version = a.version
                                 /\ ~b.moved => ~a.moved /\ moment'[b.event] = moment[a.event]
    <3>1. PICK a \in awards : b = [a EXCEPT !.moved = @ \/ (a.event = e /\ moment[e] # to)]
      BY <2>2, <2>4
    <3>2. a \in AwardRow
      BY DEF ScoringInv, SeasonOK
    <3>3. /\ b \in AwardRow
          /\ b.event = a.event /\ b.engine = a.engine /\ b.version = a.version
          /\ b.moved = (a.moved \/ (a.event = e /\ moment[e] # to))
      BY <3>1, <3>2 DEF AwardRow
    <3>4. a.event \in ScoredEvents
      BY <3>2 DEF AwardRow
    <3>5. a.event # e => moment'[a.event] = moment[a.event]
      BY <2>2, <3>4 DEF ScoringInv, SeasonOK
    <3>6. a.event = e /\ moment[e] = to => moment'[a.event] = moment[a.event]
      BY <2>2 DEF ScoringInv, SeasonOK
    <3> QED
      BY <3>3, <3>5, <3>6
  <2>5. awards' \subseteq AwardRow
    BY <2>4
  <2>6. \A b \in awards' : b.engine = "V2" => b.version \in Versions /\ Stored(b.version)'
    BY <1>1, <2>4 DEF ScoringInv, SeasonOK, Stored
  <2>7. HistoryFitsSeason'
    BY <1>1, <2>4 DEF ScoringInv, SeasonOK, HistoryFitsSeason, Fits
  <2>8. SeasonOK'
    BY <1>1, <2>3, <2>5, <2>6, <2>7 DEF ScoringInv, SeasonOK
  <2> QED
    BY <1>2, <1>3, <2>8 DEF ScoringInv
<1> QED
  BY <1>4, <1>5

LEMMA BeginAwardKeeps ==
  ASSUME ScoringInv, NEW i \in DOMAIN calls, BeginAward(i)
  PROVE  ScoringInv'
<1>1. UNCHANGED <<version, season, moment, awards>>
  BY DEF BeginAward, scoringVars, scoringServer
<1>2. /\ CallsTyped' /\ OnlyMoves(i) /\ DOMAIN calls' = DOMAIN calls
      /\ calls'[i].op = calls[i].op /\ calls'[i].arg = calls[i].arg
      /\ calls'[i].phase = "open" /\ calls'[i].data = version
  BY BeganOpens DEF BeginAward, ScoringInv, ScoringAsksOK
<1>3. calls[i].op = "award" /\ SeasonAsk("award", calls[i].arg)
  BY DEF BeginAward, Waits, ScoringInv, ScoringAsksOK, ScoringAskOK
<1>4. \A v \in Versions : version[v].state \in {"PUBLISHED", "RETIRED"} => Stored(v)
  BY DEF Stored
<1>5. \A j \in DOMAIN calls : calls'[j].phase \in {"sent", "open"} => ScoringAskOK(calls[j])'
  <2>1. CASE TRUE
    BY <1>1, <1>2, <1>3, <1>4 DEF ScoringInv, ScoringAsksOK, ScoringAskOK, SnapshotOK, Stored, OnlyMoves
  <2> QED
    BY <2>1
<1>6. ScoringAsksOK'
  BY <1>2, <1>5 DEF ScoringAsksOK
<1> QED
  BY <1>1, <1>6, NothingStored DEF ScoringInv

\* An award follows the season as it is now; the version comes from the
\* snapshot, and no version that was in force then has another policy now.
LEMMA AwardKeeps ==
  ASSUME ScoringInv, NEW i \in DOMAIN calls, ServeAward(i)
  PROVE  ScoringInv'
<1>1. UNCHANGED <<version, season, moment>>
  BY DEF ServeAward
<1>2. VersionsKept /\ VersionsOK'
  BY <1>1 DEF VersionsKept, VersionsOK, Stored, ScoringInv, PeriodsDisjoint, Disjoint
<1>3. ScoringAsksOK'
  BY <1>2, ScoringAnswers DEF ServeAward, ScoringInv
<1>4. CASE UNCHANGED awards
  BY <1>1, <1>3, <1>4, NothingStored DEF ScoringInv
<1>5. CASE ~UNCHANGED awards
  <2> DEFINE e == calls[i].arg
             d == calls[i].data
  <2>1. e \in ScoredEvents /\ SnapshotOK(d)
    BY DEF ServeAward, IsOpen, ScoringInv, ScoringAsksOK, ScoringAskOK, SeasonAsk
  <2>2. PICK g, v :
          /\ g \in {"V1", "V2"}
          /\ awards' = awards \cup {[event |-> e, engine |-> g, version |-> v, moved |-> FALSE]}
          /\ g = "V2" <=> UsesV2(season, moment[e])
          /\ g = "V2" => /\ v \in Versions /\ d[v].policy = season.policy
                         /\ d[v].state \in {"PUBLISHED", "RETIRED"}
          /\ g = "V1" => v = Null
    <3>1. CASE ~UsesV2(season, moment[e])
      BY <1>5, <3>1 DEF ServeAward
    <3>2. CASE UsesV2(season, moment[e])
      BY <1>5, <3>2 DEF ServeAward
    <3> QED
      BY <3>1, <3>2
  <2> HIDE DEF e, d
  <2>3. g = "V2" => Stored(v) /\ version[v].policy = season.policy
    BY <2>1, <2>2 DEF SnapshotOK
  <2>4. PICK new : /\ awards' = awards \cup {new} /\ new \in AwardRow
                   /\ new.event = e /\ new.engine = g /\ new.version = v
    <3>1. v \in Versions \cup {Null}
      BY <2>2
    <3>2. PICK new : new = [event |-> e, engine |-> g, version |-> v, moved |-> FALSE]
      OBVIOUS
    <3>3. new.event = e /\ new.engine = g /\ new.version = v /\ new \in AwardRow
      BY <2>1, <2>2, <3>1, <3>2, SMTT(20) DEF AwardRow
    <3> QED
      BY <2>2, <3>2, <3>3
  <2>5. HistoryFitsSeason'
    BY <1>1, <2>2, <2>3, <2>4 DEF ScoringInv, SeasonOK, HistoryFitsSeason, Fits
  <2>6. \A a \in awards' : a.engine = "V2" => a.version \in Versions /\ Stored(a.version)'
    BY <1>1, <2>2, <2>3, <2>4 DEF ScoringInv, SeasonOK, Stored
  <2>7. SeasonOK'
    BY <1>1, <2>4, <2>5, <2>6 DEF ScoringInv, SeasonOK
  <2> QED
    BY <1>2, <1>3, <2>7 DEF ScoringInv
<1> QED
  BY <1>4, <1>5

LEMMA ScoringServeKeeps ==
  ASSUME ScoringInv, NEW i \in DOMAIN calls, ScoringServes(i)
  PROVE  ScoringInv'
<1>1. ASSUME UNCHANGED <<version, season, moment, awards>>, NEW d, Done(i, d) \/ Refused(i)
      PROVE  ScoringInv'
  BY <1>1, NothingStored, ScoringAnswers DEF ScoringInv
<1>2. CASE ServeReferences(i) \/ ServePublishable(i) \/ ServeVersions(i) \/ ServeVersion(i)
  BY <1>1, <1>2 DEF ServeReferences, ServePublishable, ServeVersions, ServeVersion,
                    scoringVars, scoringServer
<1>3. CASE ServePeople(i) \/ ServeStatuses(i) \/ ServeParticipations(i) \/ ServePreview(i)
  BY <1>1, <1>3 DEF ServePeople, ServeStatuses, ServeParticipations, ServePreview,
                    scoringVars, scoringServer
<1>4. CASE ServeCreatePolicy(i) \/ ServeAssignStatus(i) \/ ServeRetireStatus(i)
  BY <1>1, <1>4 DEF ServeCreatePolicy, ServeAssignStatus, ServeRetireStatus
<1>5. CASE ProbePublish(i) \/ ProbeRetire(i)
  <2>1. UNCHANGED <<version, season, moment, awards>>
    BY <1>5 DEF ProbePublish, ProbeRetire, scoringVars, scoringServer
  <2>2. PICK d : Began(i, d)
    BY <1>5 DEF ProbePublish, ProbeRetire
  <2>3. calls[i].op \notin SeasonOps
    BY <1>5 DEF ProbePublish, ProbeRetire, Waits, SeasonOps
  <2>4. /\ CallsTyped' /\ OnlyMoves(i) /\ DOMAIN calls' = DOMAIN calls
        /\ calls'[i].op = calls[i].op
    BY <2>2, BeganOpens DEF ScoringInv, ScoringAsksOK
  <2>5. ScoringAsksOK'
    BY <2>1, <2>3, <2>4 DEF ScoringInv, ScoringAsksOK, ScoringAskOK, SeasonAsk, SeasonOps,
                            SnapshotOK, Stored, OnlyMoves
  <2> QED
    BY <2>1, <2>5, NothingStored DEF ScoringInv
<1> QED
  BY <1>2, <1>3, <1>4, <1>5, CreateVersionKeeps, SaveVersionKeeps, PublishKeeps, RetireKeeps,
     AssignSeasonKeeps, BeginAwardKeeps, AwardKeeps,
     MoveEventKeeps
     DEF ScoringServes

-----------------------------------------------------------------------------
(* The page by itself. *)
LEMMA ScoringStarts ==
  ASSUME ScoringStart
  PROVE  VersionsOK /\ SeasonOK
<1>1. VersionsOK
  BY FirstVersions DEF ScoringStart, VersionsOK, PeriodsDisjoint, VersionRow, RowFields
<1>2. SeasonOK
  <2>1. CASE awards = {} /\ season = NoSeasonPolicy
    BY <2>1, FirstAwards DEF ScoringStart, SeasonOK, NoSeasonPolicy, HistoryFitsSeason, Fits
  <2>2. CASE awards = InitialAwards /\ season = InitialSeason
    BY <2>2, FirstAwards DEF ScoringStart, SeasonOK, HistoryFitsSeason, SeasonRow, AwardRow, Stored
  <2> QED
    BY <2>1, <2>2 DEF ScoringStart
<1> QED
  BY <1>1, <1>2

LEMMA ScoringStepKeeps ==
  ASSUME ScoringInv, ScoringNext
  PROVE  ScoringInv'
<1>1. CASE \E i \in DOMAIN calls : ScoringServes(i)
  BY <1>1, ScoringServeKeeps
<1>2. CASE \E i \in DOMAIN calls : ScoringReceives(i)
  BY <1>2, ScoringReceiveKeeps
<1>3. ASSUME NEW i \in DOMAIN calls, LoseCall(i) /\ UNCHANGED scoringVars
      PROVE  ScoringInv'
  <2>1. UNCHANGED <<version, season, moment, awards>>
    BY <1>3 DEF scoringVars, scoringServer
  <2>2. CallsTyped' /\ SendsNone
    <3>1. PICK k \in BOOLEAN : calls' = Became(i, calls[i].arg, "done", k, Null)
      BY <1>3 DEF LoseCall
    <3> QED
      BY <3>1, StepMoves DEF ScoringInv, ScoringAsksOK
  <2> QED
    BY <2>1, <2>2, NothingStored, ScoringAsksStay DEF ScoringInv
<1>4. CASE \E i \in DOMAIN calls : LoseCall(i) /\ UNCHANGED scoringVars
  BY <1>3, <1>4
<1> QED
  BY <1>1, <1>2, <1>4, ScoringClickKeeps, OtherScoringKeeps, Zenon DEF ScoringNext

LEMMA ScoringBegins == ScoringInit => ScoringInv
<1>1. ASSUME ScoringInit PROVE ScoringAsksOK
  <2>1. calls = <<>> \/ calls = <<Call("references", [after |-> "mount", made |-> Null])>>
    BY <1>1 DEF ScoringInit, Mounted, ScoringFirst, Reload
  <2> QED
    BY <2>1, FirstCall DEF ScoringAsksOK, ScoringAskOK, SeasonAsk
<1> QED
  BY <1>1, ScoringStarts DEF ScoringInit, ScoringInv

LEMMA ScoringRests == ScoringInv /\ UNCHANGED <<shell, scoringVars>> => ScoringInv'
BY NothingStored DEF ScoringInv, shell, scoringVars, scoringServer,
                     ScoringAsksOK, ScoringAskOK, SnapshotOK, Stored, CallsTyped

LEMMA ScoringInvariant == ScoringSpec => []ScoringInv
<1>1. ScoringInv /\ [ScoringNext]_<<shell, scoringVars>> => ScoringInv'
  BY ScoringRests, ScoringStepKeeps
<1> QED
  BY <1>1, ScoringBegins, PTL DEF ScoringSpec

\* Whoever publishes and retires versions at once, and whatever was lost: no
\* moment belongs to two versions of a policy that were ever in force.
THEOREM PublishedPeriodsDisjoint == ScoringSpec => []PeriodsDisjoint
<1>1. ScoringInv => PeriodsDisjoint
  BY DEF ScoringInv, VersionsOK
<1> QED
  BY <1>1, ScoringInvariant, PTL

\* Awards made while the season's policy is changed or taken away, by versions
\* read before they were retired, and of Events that are given another start
\* before and after, never contradict the season: an Event's own move alone
\* leaves its awards to the engine they came from, and a season with awards of
\* a policy keeps that policy.
THEOREM AwardsFitSeason == ScoringSpec => []HistoryFitsSeason
<1>1. ScoringInv => HistoryFitsSeason
  BY DEF ScoringInv, SeasonOK
<1> QED
  BY <1>1, ScoringInvariant, PTL

-----------------------------------------------------------------------------
(* The review. *)
\* What is decided names a role; what stands is the last award of those who
\* are confirmed, and nothing else.
HasRole(x) == "role" \in DOMAIN x /\ x.role \in RoleNames
ItemsNameRoles ==
  /\ DOMAIN reviewDb.item = Attendees
  /\ \A r \in Attendees : reviewDb.item[r] # Null => HasRole(reviewDb.item[r])
LastStands(row, confirmed) ==
  /\ \A k \in 1..Len(row) : k # Len(row) => row[k].reversed
  /\ confirmed => row # <<>> /\ ~row[Len(row)].reversed
  /\ ~confirmed /\ row # <<>> => row[Len(row)].reversed
AwardsStand ==
  /\ reviewDb.awards \in [Attendees -> Seq(AwardOf)]
  /\ \A r \in Attendees : LastStands(reviewDb.awards[r], r \in reviewDb.confirmed)
ReviewDbOK ==
  /\ DOMAIN reviewDb = {"state", "corrected", "active", "mark", "item", "awards", "confirmed"}
  /\ reviewDb.active \subseteq Attendees
  /\ ItemsNameRoles
  /\ AwardsStand

\* A draft names a role and was based on the version that it will name.
Based(x) ==
  /\ {"role", "expected", "based"} \subseteq DOMAIN x
  /\ x.role \in RoleNames /\ x.expected = x.based
DraftsOK ==
  /\ DOMAIN reviewView = {"chief", "mount", "shown", "drafts", "previewed"}
  /\ DOMAIN reviewView.drafts = Attendees
  /\ \A r \in Attendees : reviewView.drafts[r] # Null => Based(reviewView.drafts[r])

\* So does every decision on its way, and who is registered is known.
ReviewAskOK(c) ==
  /\ c.op = "updateReview" => Based(c.arg.more)
  /\ c.op = "register" => c.arg.reg \in Attendees
ReviewAsksOK == CallsTyped /\ \A i \in DOMAIN calls : calls[i].phase = "sent" => ReviewAskOK(calls[i])

ReviewInv == ReviewDbOK /\ DraftsOK /\ ReviewAsksOK

-----------------------------------------------------------------------------
LEMMA ReviewAsksSend ==
  ASSUME ReviewAsksOK, CallsTyped', NEW o, NEW a, Sends(o, a) \/ SendsNone,
         o = "updateReview" => Based(a.more),
         o = "register" => a.reg \in Attendees
  PROVE  ReviewAsksOK'
BY DEF ReviewAsksOK, ReviewAskOK, Sends, SendsNone

\* A click that asks for anything but a decision or a registration.
LEMMA ReviewAsks ==
  ASSUME ReviewAsksOK, NEW o, NEW a, Ask(o, a),
         o = "updateReview" => Based(a.more),
         o = "register" => a.reg \in Attendees
  PROVE  ReviewAsksOK' /\ NoneMoves
BY AppendSends, ReviewAsksSend DEF Ask, ReviewAsksOK

LEMMA ReviewTakes ==
  ASSUME ReviewAsksOK, NEW i \in DOMAIN calls, Take(i)
  PROVE  ReviewAsksOK' /\ OnlyMoves(i)
<1>1. CallsTyped' /\ SendsNone /\ OnlyMoves(i)
  BY StepMoves DEF Take, ReviewAsksOK
<1> QED
  BY <1>1 DEF ReviewAsksOK, SendsNone

LEMMA ReviewAnswers ==
  ASSUME ReviewAsksOK, NEW i \in DOMAIN calls, NEW d, Done(i, d) \/ Refused(i)
  PROVE  ReviewAsksOK' /\ OnlyMoves(i)
<1>1. PICK k \in BOOLEAN : \E e : Answer(i, k, e)
  BY DEF Done, Refused, RefusedAs
<1>2. CallsTyped' /\ SendsNone /\ OnlyMoves(i)
  BY <1>1, StepMoves DEF ReviewAsksOK
<1> QED
  BY <1>2 DEF ReviewAsksOK, SendsNone

-----------------------------------------------------------------------------
(* The page. *)
LEMMA ReviewClickKeeps ==
  ASSUME ReviewInv, ReviewClicks
  PROVE  ReviewInv' /\ UNCHANGED reviewDb /\ NoneMoves
<1>1. CASE LoadQueue
  <2>1. ReviewAsksOK' /\ NoneMoves
    BY <1>1, ReviewAsks DEF LoadQueue, ReviewInv
  <2> QED
    BY <1>1, <2>1 DEF LoadQueue, ReviewInv, reviewVars, ReviewDbOK, ItemsNameRoles, AwardsStand, DraftsOK
<1>2. CASE LeaveReview
  <2>1. ReviewAsksOK' /\ NoneMoves
    BY <1>2, ReviewAsks DEF LeaveReview, ReviewInv
  <2>2. DraftsOK'
    BY <1>2 DEF LeaveReview, ReviewInv, DraftsOK, NoDrafts
  <2> QED
    BY <1>2, <2>1, <2>2 DEF LeaveReview, ReviewInv, ReviewDbOK, ItemsNameRoles, AwardsStand
<1>3. ASSUME NEW o \in {"suggestions", "previewScore", "refresh", "approve", "reopen"}, NEW r,
             ReviewCall(o, r)
      PROVE  ReviewInv' /\ UNCHANGED reviewDb /\ NoneMoves
  <2>1. ReviewAsksOK' /\ NoneMoves
    BY <1>3, ReviewAsks DEF ReviewCall, ReviewInv
  <2> QED
    BY <1>3, <2>1 DEF ReviewCall, ReviewInv, reviewVars, ReviewDbOK, ItemsNameRoles, AwardsStand, DraftsOK
<1>4. ASSUME NEW r \in Attendees, SaveDecision(r)
      PROVE  ReviewInv' /\ UNCHANGED reviewDb /\ NoneMoves
  <2>1. Based(Decision(r))
    BY <1>4 DEF SaveDecision, Dirt, Decision, ReviewInv, DraftsOK
  <2>2. ReviewAsksOK' /\ NoneMoves
    <3> DEFINE a == [mount |-> reviewView.mount, reg |-> r,
                     more |-> IF r = Null THEN Null ELSE Decision(r), chief |-> reviewView.chief]
    <3>1. a.more = Decision(r)
      BY ReviewBasics
    <3>2. Ask("updateReview", a)
      BY <1>4 DEF SaveDecision, ReviewCall
    <3> HIDE DEF a
    <3> QED
      BY <2>1, <3>1, <3>2, ReviewAsks DEF ReviewInv
  <2> QED
    BY <1>4, <2>2 DEF SaveDecision, ReviewCall, ReviewInv, reviewVars, ReviewDbOK, ItemsNameRoles, AwardsStand, DraftsOK
<1>5. ASSUME NEW r \in Attendees, DropDraft(r)
      PROVE  ReviewInv' /\ UNCHANGED reviewDb /\ NoneMoves
  BY <1>5 DEF DropDraft, ReviewInv, shell, ReviewDbOK, ItemsNameRoles, AwardsStand, DraftsOK,
              ReviewAsksOK, ReviewAskOK, CallsTyped, NoneMoves
<1>6. ASSUME NEW r \in Attendees, NEW attend \in BOOLEAN, NEW role \in RoleNames,
             NEW match \in Choices, ChangeDecision(r, attend, role, match)
      PROVE  ReviewInv' /\ UNCHANGED reviewDb /\ NoneMoves
  <2>1. Based([Decision(r) EXCEPT !.attend = attend, !.role = role, !.match = match])
    BY <1>6 DEF ReviewInv, DraftsOK, Decision, InitialDecision, Based
  <2>2. DraftsOK'
    BY <1>6, <2>1 DEF ChangeDecision, ReviewInv, DraftsOK
  <2> QED
    BY <1>6, <2>2 DEF ChangeDecision, ReviewInv, shell, ReviewDbOK, ItemsNameRoles, AwardsStand,
                      ReviewAsksOK, ReviewAskOK, CallsTyped, NoneMoves
<1> QED
  BY <1>1, <1>2, <1>3, <1>4, <1>5, <1>6
     DEF ReviewClicks, SuggestStudents, PreviewScore, Refresh, ApproveReview, Reopen

LEMMA ReviewReceiveKeeps ==
  ASSUME ReviewInv, NEW i \in DOMAIN calls, ReviewReceives(i)
  PROVE  ReviewInv' /\ UNCHANGED reviewDb /\ OnlyMoves(i)
<1> USE DEF ReviewInv
<1>1. DraftsOK'
  <2>1. CASE reviewView' = reviewView
    BY <2>1 DEF DraftsOK
  <2>2. CASE ShowQueue(i)
    BY <2>2 DEF ShowQueue, DraftsOK
  <2>3. CASE ShowReview(i)
    BY <2>3 DEF ShowReview, DraftsOK
  <2>4. CASE ShowApproved(i)
    BY <2>4 DEF ShowApproved, DraftsOK
  <2>5. CASE ShowScore(i)
    BY <2>5 DEF ShowScore, DraftsOK
  <2> QED
    BY <2>1, <2>2, <2>3, <2>4, <2>5 DEF ReviewReceives, ReviewFails, reviewVars
<1>2. ReviewAsksOK' /\ OnlyMoves(i)
  <2>1. CASE Take(i)
    BY <2>1, ReviewTakes
  <2>2. ASSUME NEW a, TakeAndAsk(i, "eventReview", a)
        PROVE  ReviewAsksOK' /\ OnlyMoves(i)
    <3>1. CallsTyped' /\ Sends("eventReview", a) /\ OnlyMoves(i)
      BY <2>2, TakeSends DEF TakeAndAsk, ReviewAsksOK
    <3> QED
      BY <3>1, ReviewAsksSend
  <2> QED
    BY <2>1, <2>2 DEF ReviewReceives, ShowQueue, ShowReview, ShowApproved, ShowScore, ReviewFails
<1>3. UNCHANGED reviewDb
  BY DEF ReviewReceives, ShowQueue, ShowReview, ShowApproved, ShowScore, ReviewFails, reviewVars
<1> QED
  BY <1>1, <1>2, <1>3 DEF ReviewDbOK, ItemsNameRoles, AwardsStand

-----------------------------------------------------------------------------
(* The server.  Whatever it does, it stays within the ledger. *)
\* Everything but an approval leaves the awards alone.
LEMMA Deciding ==
  ASSUME reviewDb'.awards = reviewDb.awards,
         \/ reviewDb'.state = reviewDb.state
         \/ reviewDb.state = "NOT_STARTED" /\ reviewDb'.state = "PENDING"
         \/ reviewDb.state = "APPROVED" /\ reviewDb'.state = "PENDING"
  PROVE  Ledger!Decide
BY DEF Ledger!Decide, Standing

LEMMA PreparedOK ==
  ASSUME ReviewDbOK, reviewDb' = Prepared(reviewDb)
  PROVE  ReviewDbOK' /\ Ledger!Decide
<1>1. \A r \in Attendees : HasRole(Snapshot(reviewDb, r))
  <2>1. FirstRole \in RoleNames
    BY ReviewBasics DEF FirstRole
  <2>2. ASSUME NEW r \in Attendees, reviewDb.awards[r] # <<>>
        PROVE  reviewDb.awards[r][Len(reviewDb.awards[r])].role \in RoleNames
    <3>1. reviewDb.awards[r] \in Seq(AwardOf)
      BY DEF ReviewDbOK, AwardsStand
    <3>2. reviewDb.awards[r][Len(reviewDb.awards[r])] \in AwardOf
      BY <2>2, <3>1
    <3> QED
      BY <3>2 DEF AwardOf
  <2> QED
    BY <2>1, <2>2 DEF Snapshot, HasRole
<1>2. /\ DOMAIN reviewDb' = DOMAIN reviewDb
      /\ reviewDb'.active = reviewDb.active /\ reviewDb'.awards = reviewDb.awards
      /\ reviewDb'.confirmed = reviewDb.confirmed
      /\ reviewDb'.state = IF reviewDb.state = "NOT_STARTED" THEN "PENDING" ELSE reviewDb.state
      /\ reviewDb'.item = [r \in Attendees |->
           IF r \in reviewDb.active /\ reviewDb.item[r] = Null
           THEN Snapshot(reviewDb, r) ELSE reviewDb.item[r]]
  BY DEF Prepared, ReviewDbOK
<1>3. ItemsNameRoles'
  BY <1>1, <1>2 DEF ReviewDbOK, ItemsNameRoles
<1> QED
  BY <1>2, <1>3, Deciding DEF ReviewDbOK, AwardsStand

-----------------------------------------------------------------------------
(* The awards of one registration. *)
StandingIn(row) ==
  {[nr |-> n, role |-> row[n].role] : n \in {k \in DOMAIN row : ~row[k].reversed}}

LEMMA WhatStands ==
  ASSUME NEW s \in Seq(AwardOf), NEW c \in BOOLEAN, LastStands(s, c)
  PROVE  /\ c => s # <<>> /\ StandingIn(s) = {[nr |-> Len(s), role |-> Last(s).role]}
         /\ ~c => StandingIn(s) = {}
<1>1. \A k \in DOMAIN s : ~s[k].reversed => c /\ k = Len(s)
  BY DEF LastStands
<1>2. c => s # <<>> /\ Len(s) \in DOMAIN s /\ ~s[Len(s)].reversed
  BY DEF LastStands
<1> QED
  BY <1>1, <1>2 DEF StandingIn, Last

LEMMA AwardStands ==
  ASSUME NEW s \in Seq(AwardOf), LastStands(s, FALSE), NEW x \in RoleNames
  PROVE  /\ s \o Award(x) \in Seq(AwardOf)
         /\ LastStands(s \o Award(x), TRUE)
         /\ StandingIn(s \o Award(x)) = {[nr |-> Len(s) + 1, role |-> x]}
<1>1. PICK a \in AwardOf : a.role = x /\ ~a.reversed /\ Award(x) = <<a>>
  BY DEF AwardOf, Award
<1>2. /\ s \o Award(x) \in Seq(AwardOf) /\ Len(s \o Award(x)) = Len(s) + 1
      /\ (s \o Award(x))[Len(s) + 1] = a
      /\ \A k \in 1..Len(s) : (s \o Award(x))[k] = s[k]
  BY <1>1
<1>3. \A k \in 1..Len(s) : s[k].reversed
  BY DEF LastStands
<1>4. LastStands(s \o Award(x), TRUE)
  BY <1>1, <1>2, <1>3 DEF LastStands
<1> QED
  BY <1>1, <1>2, <1>4, WhatStands DEF Last

LEMMA ReversedStands ==
  ASSUME NEW s \in Seq(AwardOf), NEW c \in BOOLEAN, LastStands(s, c)
  PROVE  Reversed(s) \in Seq(AwardOf) /\ LastStands(Reversed(s), FALSE)
<1>1. CASE s = <<>>
  BY <1>1 DEF Reversed, LastStands
<1>2. CASE s # <<>>
  <2>1. Len(s) \in 1..Len(s) /\ s[Len(s)] \in AwardOf
    BY <1>2
  <2>2. PICK a \in AwardOf : a.reversed /\ Reversed(s) = [s EXCEPT ![Len(s)] = a]
    BY <1>2, <2>1 DEF Reversed, AwardOf
  <2>3. /\ Reversed(s) \in Seq(AwardOf) /\ Len(Reversed(s)) = Len(s)
        /\ Reversed(s)[Len(s)] = a
        /\ \A k \in 1..Len(s) : k # Len(s) => Reversed(s)[k] = s[k]
    BY <2>1, <2>2
  <2> QED
    BY <2>2, <2>3 DEF LastStands
<1> QED
  BY <1>1, <1>2

-----------------------------------------------------------------------------
(* The server.  Whatever it does, it stays within the ledger. *)
\* What an approval does to the standing awards of one registration.
Credits(d, old, new) ==
  LET kept == \E x \in old : x.role = d IN
  \/ d = Nobody /\ new = {}
  \/ d # Nobody /\ kept /\ new = old
  \/ d # Nobody /\ ~kept /\ \E x \in new : new = {x} /\ x.role = d

LEMMA ApprovalCredits ==
  ASSUME ReviewDbOK, Settled(reviewDb), reviewDb.state = "PENDING",
         reviewDb' = Approved(reviewDb)
  PROVE  ReviewDbOK' /\ Ledger!Approve
<1>1. /\ DOMAIN reviewDb' = DOMAIN reviewDb
      /\ reviewDb'.state = "APPROVED"
      /\ reviewDb'.active = reviewDb.active /\ reviewDb'.item = reviewDb.item
      /\ reviewDb'.awards = [r \in Attendees |-> AwardsAfter(reviewDb, r)]
      /\ reviewDb'.confirmed =
           {r \in Attendees : IF r \in Items(reviewDb) THEN Eligible(reviewDb.item[r])
                                                      ELSE r \in reviewDb.confirmed}
  BY DEF Approved, ReviewDbOK
<1>2. ASSUME NEW r \in Attendees
      PROVE  /\ reviewDb'.awards[r] \in Seq(AwardOf)
             /\ LastStands(reviewDb'.awards[r], r \in reviewDb'.confirmed)
             /\ IF r \in reviewDb.active
                THEN /\ DecidedAs(r) # Open
                     /\ Credits(DecidedAs(r), StandingIn(reviewDb.awards[r]),
                                StandingIn(reviewDb'.awards[r]))
                ELSE reviewDb'.awards[r] = reviewDb.awards[r]
  <2> DEFINE old == reviewDb.awards[r]
             new == reviewDb'.awards[r]
             item == reviewDb.item[r]
             c == r \in reviewDb.confirmed
  <2>1. /\ old \in Seq(AwardOf) /\ LastStands(old, c) /\ c \in BOOLEAN
        /\ new = AwardsAfter(reviewDb, r)
    BY <1>1 DEF ReviewDbOK, AwardsStand
  <2>2. CASE r \notin reviewDb.active
    <3>1. r \notin Items(reviewDb)
      BY <2>2 DEF Items
    <3> QED
      BY <1>1, <2>1, <2>2, <3>1 DEF AwardsAfter
  <2>3. CASE r \in reviewDb.active
    <3>1. /\ r \in Items(reviewDb) /\ item # Null /\ item.role \in RoleNames
          /\ item.seen = reviewDb.mark[r] /\ ~NoStudent(item)
      BY <2>3 DEF Settled, Items, ReviewDbOK, ItemsNameRoles, HasRole
    <3>2. DecidedAs(r) = IF Eligible(item) THEN item.role ELSE Nobody
      BY <3>1 DEF DecidedAs
    <3>3. r \in reviewDb'.confirmed <=> Eligible(item)
      BY <1>1, <3>1
    <3>4. CASE ~Eligible(item)
      <4>1. new \in Seq(AwardOf) /\ LastStands(new, FALSE)
        BY <2>1, <3>1, <3>4, ReversedStands DEF AwardsAfter
      <4>2. StandingIn(new) = {}
        BY <4>1, WhatStands
      <4> QED
        BY <2>3, <3>2, <3>3, <3>4, <4>1, <4>2, MarksAreNoRoles DEF Credits, LastStands
    <3>5. CASE Eligible(item) /\ c /\ Last(old).role = item.role
      <4>1. new = old /\ LastStands(new, TRUE)
        BY <2>1, <3>1, <3>5 DEF AwardsAfter
      <4>2. StandingIn(old) = {[nr |-> Len(old), role |-> Last(old).role]}
        BY <2>1, <3>5, WhatStands
      <4>3. \E x \in StandingIn(old) : x.role = item.role
        BY <3>5, <4>2
      <4> QED
        BY <2>1, <2>3, <3>1, <3>2, <3>3, <3>5, <4>1, <4>3, MarksAreNoRoles DEF Credits, LastStands
    <3>6. CASE Eligible(item) /\ ~(c /\ Last(old).role = item.role)
      <4>1. PICK s \in Seq(AwardOf) :
              LastStands(s, FALSE) /\ new = s \o Award(item.role)
        BY <2>1, <3>1, <3>6, ReversedStands DEF AwardsAfter
      <4>2. /\ new \in Seq(AwardOf) /\ LastStands(new, TRUE)
            /\ StandingIn(new) = {[nr |-> Len(s) + 1, role |-> item.role]}
        BY <3>1, <4>1, AwardStands
      <4>3. ~\E x \in StandingIn(old) : x.role = item.role
        <5>1. CASE c
          <6>1. StandingIn(old) = {[nr |-> Len(old), role |-> Last(old).role]}
            BY <2>1, <5>1, WhatStands
          <6> QED
            BY <3>6, <5>1, <6>1
        <5>2. CASE ~c
          BY <2>1, <5>2, WhatStands
        <5> QED
          BY <5>1, <5>2
      <4> QED
        BY <2>3, <3>1, <3>2, <3>3, <3>6, <4>2, <4>3, MarksAreNoRoles DEF Credits, LastStands
    <3> QED
      BY <3>4, <3>5, <3>6
  <2> QED
    BY <2>2, <2>3
<1>3. ReviewDbOK'
  BY <1>1, <1>2 DEF ReviewDbOK, ItemsNameRoles, AwardsStand, AwardsAfter
<1>4. \A r \in Attendees :
        /\ Standing(r) = StandingIn(reviewDb.awards[r])
        /\ Standing(r)' = StandingIn(reviewDb'.awards[r])
  BY DEF Standing, StandingIn
<1>5. Ledger!Approve
  <2>1. \A r \in reviewDb.active : r \in Attendees /\ DecidedAs(r) # Open
    BY <1>2 DEF ReviewDbOK
  <2>2. ASSUME NEW r \in Attendees, r \in reviewDb.active
        PROVE  Ledger!CreditedAs(r)
    BY <1>2, <1>4, <2>2 DEF Ledger!CreditedAs, Credits
  <2>3. ASSUME NEW r \in Attendees, r \notin reviewDb.active
        PROVE  Standing(r)' = Standing(r)
    BY <1>2, <1>4, <2>3
  <2> QED
    BY <1>1, <2>1, <2>2, <2>3 DEF Ledger!Approve
<1> QED
  BY <1>3, <1>5

\* One request served: the ledger takes a step or none, and only the review of
\* a decision that was waiting may have changed the reviewed items.
LEMMA ReviewServeKeeps ==
  ASSUME ReviewInv, NEW i \in DOMAIN calls, ReviewServes(i)
  PROVE  /\ ReviewInv' /\ OnlyMoves(i)
         /\ Ledger!LedgerNext \/ UNCHANGED reviewDb
         /\ reviewDb' # reviewDb /\ Waits(i, "updateReview") =>
              calls[i].arg.more.based = Version(reviewDb, calls[i].arg.reg)
<1> USE DEF ReviewInv
<1>1. ReviewAsksOK' /\ OnlyMoves(i)
  BY ReviewAnswers DEF ReviewServes, ServeReviewReads, ServeDecision, ServeRefresh, ServeReopen,
                 ServeApprove, ServeOthersReview, ReviewChanges, ReviewRefused
<1>2. DraftsOK'
  <2>1. reviewView' = reviewView
    BY DEF ReviewServes, ServeReviewReads, ServeDecision, ServeRefresh, ServeReopen,
           ServeApprove, ServeOthersReview, ReviewChanges, ReviewRefused, reviewVars
  <2> QED
    BY <2>1 DEF DraftsOK
<1>3. CASE UNCHANGED reviewDb
  BY <1>1, <1>2, <1>3 DEF ReviewDbOK, ItemsNameRoles, AwardsStand
<1>4. ASSUME reviewDb' # reviewDb
      PROVE  /\ ReviewDbOK' /\ Ledger!LedgerNext
             /\ Waits(i, "updateReview") =>
                  calls[i].arg.more.based = Version(reviewDb, calls[i].arg.reg)
  <2> USE <1>4
  <2>1. CASE ServeDecision(i)
    <3> DEFINE r == calls[i].arg.reg
               new == Decided(reviewDb.item[r], calls[i].arg.more, reviewDb.mark[r], i)
    <3>1. /\ Waits(i, "updateReview")
          /\ calls[i].arg.more.expected = Version(reviewDb, r)
          /\ reviewDb' = [reviewDb EXCEPT !.item[r] = new]
      BY <2>1 DEF ServeDecision, ReviewChanges, ReviewRefused, reviewVars
    <3>2. Based(calls[i].arg.more)
      BY <3>1 DEF ReviewAsksOK, ReviewAskOK, Waits
    <3>3. HasRole(new)
      BY <3>2 DEF Decided, HasRole, Based
    <3> HIDE DEF new, r
    <3>4. /\ DOMAIN reviewDb' = DOMAIN reviewDb
          /\ reviewDb'.item = [reviewDb.item EXCEPT ![r] = new]
          /\ reviewDb'.active = reviewDb.active /\ reviewDb'.awards = reviewDb.awards
          /\ reviewDb'.confirmed = reviewDb.confirmed /\ reviewDb'.state = reviewDb.state
      BY <3>1 DEF ReviewDbOK
    <3>5. ItemsNameRoles'
      BY <3>3, <3>4 DEF ReviewDbOK, ItemsNameRoles
    <3>6. ReviewDbOK'
      BY <3>4, <3>5 DEF ReviewDbOK, AwardsStand
    <3> QED
      BY <3>1, <3>2, <3>4, <3>6, Deciding DEF r, Based, Ledger!LedgerNext
  <2>2. CASE ServeRefresh(i)
    <3>1. /\ Waits(i, "refresh")
          /\ reviewDb' = [reviewDb EXCEPT !.item = [r \in Attendees |->
               IF @[r] # Null /\ @[r].reviewed = 0 /\ @[r].seen # reviewDb.mark[r]
               THEN [@[r] EXCEPT !.attend = reviewDb.mark[r], !.seen = reviewDb.mark[r]]
               ELSE @[r]]]
      BY <2>2 DEF ServeRefresh, ReviewChanges, ReviewRefused, reviewVars
    <3>2. /\ DOMAIN reviewDb' = DOMAIN reviewDb
          /\ DOMAIN reviewDb'.item = Attendees
          /\ \A r \in Attendees :
               reviewDb'.item[r] \in
                 {reviewDb.item[r], [reviewDb.item[r] EXCEPT !.attend = reviewDb.mark[r],
                                                             !.seen = reviewDb.mark[r]]}
          /\ \A r \in Attendees : reviewDb.item[r] = Null => reviewDb'.item[r] = Null
          /\ reviewDb'.active = reviewDb.active /\ reviewDb'.awards = reviewDb.awards
          /\ reviewDb'.confirmed = reviewDb.confirmed /\ reviewDb'.state = reviewDb.state
      BY <3>1 DEF ReviewDbOK
    <3>3. ItemsNameRoles'
      BY <3>2 DEF ReviewDbOK, ItemsNameRoles, HasRole
    <3>4. ReviewDbOK'
      BY <3>2, <3>3 DEF ReviewDbOK, AwardsStand
    <3> QED
      BY <3>1, <3>2, <3>4, Deciding DEF Ledger!LedgerNext, Waits
  <2>3. CASE ServeReopen(i)
    <3>1. /\ Waits(i, "reopen") /\ reviewDb.state = "APPROVED"
          /\ reviewDb' = [reviewDb EXCEPT !.state = "PENDING"]
      BY <2>3 DEF ServeReopen, ReviewChanges, ReviewRefused, reviewVars
    <3>2. /\ DOMAIN reviewDb' = DOMAIN reviewDb /\ reviewDb'.item = reviewDb.item
          /\ reviewDb'.active = reviewDb.active /\ reviewDb'.awards = reviewDb.awards
          /\ reviewDb'.confirmed = reviewDb.confirmed /\ reviewDb'.state = "PENDING"
      BY <3>1 DEF ReviewDbOK
    <3> QED
      BY <3>1, <3>2, Deciding DEF Ledger!LedgerNext, ReviewDbOK, ItemsNameRoles, AwardsStand, Waits
  <2>4. CASE ServeApprove(i)
    <3>1. /\ Waits(i, "approve") /\ reviewDb.state = "PENDING" /\ Settled(reviewDb)
          /\ reviewDb' = Approved(reviewDb)
      BY <2>4 DEF ServeApprove, MayReview, ReviewChanges, ReviewRefused, reviewVars
    <3> QED
      BY <3>1, ApprovalCredits DEF Ledger!LedgerNext, Waits
  <2>5. CASE ServeOthersReview(i)
    <3> DEFINE r == calls[i].arg.reg
    <3>1. CASE reviewDb' = Prepared(reviewDb) /\ Waits(i, "prepare")
      BY <3>1, PreparedOK DEF Ledger!LedgerNext, Waits
    <3>2. CASE Waits(i, "mark") /\ reviewDb' = [reviewDb EXCEPT !.mark[r] = TRUE]
      <4>1. /\ DOMAIN reviewDb' = DOMAIN reviewDb /\ reviewDb'.item = reviewDb.item
            /\ reviewDb'.active = reviewDb.active /\ reviewDb'.awards = reviewDb.awards
            /\ reviewDb'.confirmed = reviewDb.confirmed /\ reviewDb'.state = reviewDb.state
        BY <3>2 DEF ReviewDbOK
      <4> QED
        BY <3>2, <4>1, Deciding DEF Ledger!LedgerNext, ReviewDbOK, ItemsNameRoles, AwardsStand, Waits
    <3>3. CASE \/ Waits(i, "annul") /\ reviewDb' = [reviewDb EXCEPT !.active = @ \ {r}]
               \/ Waits(i, "register") /\ reviewDb' = [reviewDb EXCEPT !.active = @ \cup {r}]
      <4>1. Waits(i, "register") => r \in Attendees
        BY DEF ReviewAsksOK, ReviewAskOK, Waits
      <4>2. /\ DOMAIN reviewDb' = DOMAIN reviewDb /\ reviewDb'.item = reviewDb.item
            /\ reviewDb'.active \subseteq Attendees /\ reviewDb'.awards = reviewDb.awards
            /\ reviewDb'.confirmed = reviewDb.confirmed /\ reviewDb'.state = reviewDb.state
        BY <3>3, <4>1 DEF ReviewDbOK
      <4> QED
        BY <3>3, <4>2, Deciding DEF Ledger!LedgerNext, ReviewDbOK, ItemsNameRoles, AwardsStand, Waits
    <3> QED
      BY <2>5, <3>1, <3>2, <3>3 DEF ServeOthersReview, ReviewChanges
  <2> QED
    BY <2>1, <2>2, <2>3, <2>4, <2>5 DEF ReviewServes, ServeReviewReads, reviewVars
<1> QED
  BY <1>1, <1>2, <1>3, <1>4

LEMMA OtherReviewerKeeps ==
  ASSUME ReviewInv, OtherReviewer
  PROVE  ReviewInv' /\ UNCHANGED reviewDb /\ NoneMoves
<1>1. ASSUME NEW o, NEW a, calls' = Append(calls, OthersCall(o, a)),
             o = "updateReview" => Based(a.more), o = "register" => a.reg \in Attendees
      PROVE  ReviewAsksOK' /\ NoneMoves
  BY <1>1, AppendSends, ReviewAsksSend DEF ReviewInv, ReviewAsksOK
<1>2. \A r \in Attendees : Based(OtherDecision(r))
  BY ReviewBasics DEF OtherDecision, Based, FirstRole
<1>3. ReviewAsksOK' /\ NoneMoves
  <2>1. CASE \E r \in Attendees, op \in {"mark", "annul", "register"} :
               calls' = Append(calls, OthersCall(op, [reg |-> r]))
    <3>1. PICK r \in Attendees, op \in {"mark", "annul", "register"} :
             calls' = Append(calls, OthersCall(op, [reg |-> r]))
      BY <2>1
    <3>2. op # "updateReview" /\ [reg |-> r].reg = r
      OBVIOUS
    <3> QED
      BY <1>1, <3>1, <3>2
  <2>2. CASE \E op \in {"prepare", "approve", "reopen"} :
               calls' = Append(calls, OthersCall(op, [reg |-> Null, chief |-> TRUE]))
    BY <1>1, <2>2
  <2>3. CASE \E r \in Attendees : calls' = Append(calls, OthersCall("updateReview",
               [reg |-> r, more |-> OtherDecision(r), chief |-> TRUE]))
    <3>1. PICK r \in Attendees : calls' = Append(calls, OthersCall("updateReview",
               [reg |-> r, more |-> OtherDecision(r), chief |-> TRUE]))
      BY <2>3
    <3>2. Based([reg |-> r, more |-> OtherDecision(r), chief |-> TRUE].more)
      BY <1>2
    <3> QED
      BY <1>1, <3>1, <3>2
  <2> QED
    BY <2>1, <2>2, <2>3 DEF OtherReviewer
<1> QED
  BY <1>3 DEF OtherReviewer, ReviewInv, reviewVars, ReviewDbOK, ItemsNameRoles, AwardsStand, DraftsOK

-----------------------------------------------------------------------------
(* Where a behaviour starts. *)
LEMMA ReviewStarts ==
  ASSUME ReviewStart
  PROVE  ReviewDbOK /\ DraftsOK /\ Ledger!LedgerInit
<1> DEFINE prep == Prepared(NewReview)
<1>1. DraftsOK
  BY DEF ReviewStart, EmptyView, NoDrafts, DraftsOK
<1>2. /\ NewReview.state = "NOT_STARTED" /\ NewReview.active = Registered
      /\ NewReview.item = [r \in Attendees |-> Null]
      /\ NewReview.awards = [r \in Attendees |-> <<>>] /\ NewReview.confirmed = {}
      /\ DOMAIN NewReview = {"state", "corrected", "active", "mark", "item", "awards", "confirmed"}
  BY DEF NewReview
<1>3. \A r \in Attendees : HasRole(Snapshot(NewReview, r))
  <2>1. FirstRole \in RoleNames
    BY ReviewBasics DEF FirstRole
  <2> QED
    BY <1>2, <2>1 DEF Snapshot, HasRole
<1>4. /\ DOMAIN prep = {"state", "corrected", "active", "mark", "item", "awards", "confirmed"}
      /\ prep.state = "PENDING" /\ prep.active = Registered
      /\ prep.item = [r \in Attendees |-> IF r \in Registered THEN Snapshot(NewReview, r)
                                                              ELSE Null]
      /\ prep.awards = [r \in Attendees |-> <<>>] /\ prep.confirmed = {}
  BY <1>2 DEF Prepared
<1>5. <<>> \in Seq(AwardOf) /\ LastStands(<<>>, FALSE)
  BY DEF LastStands
<1> HIDE DEF prep
<1>6. CASE reviewDb \in {NewReview, prep}
  <2>1. /\ reviewDb.awards = [r \in Attendees |-> <<>>] /\ reviewDb.confirmed = {}
        /\ reviewDb.active = Registered /\ reviewDb.state \in {"NOT_STARTED", "PENDING"}
        /\ DOMAIN reviewDb = {"state", "corrected", "active", "mark", "item", "awards", "confirmed"}
    BY <1>2, <1>4, <1>6
  <2>2. ItemsNameRoles
    BY <1>2, <1>3, <1>4, <1>6 DEF ItemsNameRoles
  <2>3. AwardsStand
    BY <1>5, <2>1 DEF AwardsStand, LastStands
  <2>4. \A r \in Attendees : Standing(r) = {}
    BY <2>1 DEF Standing
  <2> QED
    BY <1>1, <2>1, <2>2, <2>3, <2>4, ReviewBasics DEF ReviewDbOK, Ledger!LedgerInit
<1>7. CASE reviewDb = Approved(prep) /\ Settled(prep)
  <2>1. /\ DOMAIN reviewDb = {"state", "corrected", "active", "mark", "item", "awards", "confirmed"}
        /\ reviewDb.state = "APPROVED" /\ reviewDb.active = Registered
        /\ reviewDb.item = prep.item /\ reviewDb.mark = prep.mark
        /\ reviewDb.awards = [r \in Attendees |-> AwardsAfter(prep, r)]
        /\ reviewDb.confirmed = {r \in Attendees : r \in Items(prep) /\ Eligible(prep.item[r])}
    BY <1>4, <1>7 DEF Approved
  <2>2. ItemsNameRoles
    <3>1. reviewDb.item = [r \in Attendees |-> IF r \in Registered THEN Snapshot(NewReview, r)
                                                                  ELSE Null]
      BY <1>4, <2>1
    <3> QED
      BY <1>3, <3>1 DEF ItemsNameRoles
  <2>3. ASSUME NEW r \in Attendees
        PROVE  /\ reviewDb.awards[r] \in Seq(AwardOf)
               /\ LastStands(reviewDb.awards[r], r \in reviewDb.confirmed)
               /\ StandingIn(reviewDb.awards[r]) # {} =>
                    \E x \in StandingIn(reviewDb.awards[r]) :
                      StandingIn(reviewDb.awards[r]) = {x} /\ x.role = DecidedAs(r)
    <3>1. CASE r \in Items(prep) /\ Eligible(prep.item[r])
      <4>1. /\ r \in Registered /\ prep.item[r] # Null /\ prep.item[r].role \in RoleNames
        BY <1>3, <1>4, <3>1 DEF Items, HasRole
      <4>2. reviewDb.awards[r] = <<>> \o Award(prep.item[r].role)
        BY <1>4, <2>1, <3>1 DEF AwardsAfter
      <4>3. /\ reviewDb.awards[r] \in Seq(AwardOf) /\ LastStands(reviewDb.awards[r], TRUE)
            /\ StandingIn(reviewDb.awards[r]) =
                 {[nr |-> Len(<<>>) + 1, role |-> prep.item[r].role]}
        BY <1>5, <4>1, <4>2, AwardStands
      <4>4. DecidedAs(r) = prep.item[r].role
        <5>1. prep.item[r].seen = prep.mark[r] /\ ~NoStudent(prep.item[r])
          BY <1>4, <1>7, <4>1 DEF Settled
        <5> QED
          BY <1>4, <2>1, <3>1, <4>1, <5>1 DEF DecidedAs, Items
      <4> QED
        BY <2>1, <3>1, <4>3, <4>4 DEF LastStands
    <3>2. CASE ~(r \in Items(prep) /\ Eligible(prep.item[r]))
      <4>1. reviewDb.awards[r] = <<>> /\ r \notin reviewDb.confirmed
        BY <1>4, <2>1, <3>2 DEF AwardsAfter
      <4> QED
        BY <1>5, <4>1 DEF LastStands, StandingIn
    <3> QED
      BY <3>1, <3>2
  <2>4. \A r \in Attendees : Standing(r) = StandingIn(reviewDb.awards[r])
    BY DEF Standing, StandingIn
  <2>5. AwardsStand
    <3>1. reviewDb.awards \in [Attendees -> Seq(AwardOf)]
      BY <2>1, <2>3
    <3> QED
      BY <2>3, <3>1 DEF AwardsStand
  <2> QED
    BY <1>1, <2>1, <2>2, <2>3, <2>4, <2>5, ReviewBasics DEF ReviewDbOK, Ledger!LedgerInit
<1> QED
  BY <1>6, <1>7 DEF ReviewStart, prep

LEMMA LedgerRests ==
  ASSUME UNCHANGED reviewDb
  PROVE  UNCHANGED Ledger!ledgerVars
BY DEF Ledger!ledgerVars, DecidedAs, Standing, Items, Eligible

\* What OverwrittenWasSeen says of a step.
Overwrites ==
  \A i \in DOMAIN calls :
    Waits(i, "updateReview") /\ calls'[i].phase # "sent" /\ reviewDb' # reviewDb =>
      calls[i].arg.more.based = Version(reviewDb, calls[i].arg.reg)

LEMMA ReviewStepKeeps ==
  ASSUME ReviewInv, ReviewNext
  PROVE  /\ ReviewInv'
         /\ Ledger!LedgerNext \/ UNCHANGED Ledger!ledgerVars
         /\ Overwrites
<1>1. CASE ReviewClicks \/ OtherReviewer
  BY <1>1, ReviewClickKeeps, OtherReviewerKeeps, LedgerRests DEF Overwrites
<1>2. ASSUME NEW i \in DOMAIN calls, ReviewServes(i)
      PROVE  /\ ReviewInv'
             /\ Ledger!LedgerNext \/ UNCHANGED Ledger!ledgerVars
             /\ Overwrites
  BY <1>2, ReviewServeKeeps, LedgerRests DEF Overwrites, OnlyMoves, Waits
<1>3. ASSUME NEW i \in DOMAIN calls, ReviewReceives(i)
      PROVE  /\ ReviewInv'
             /\ Ledger!LedgerNext \/ UNCHANGED Ledger!ledgerVars
             /\ Overwrites
  BY <1>3, ReviewReceiveKeeps, LedgerRests DEF Overwrites
<1>4. ASSUME NEW i \in DOMAIN calls, LoseCall(i) /\ UNCHANGED reviewVars
      PROVE  /\ ReviewInv'
             /\ Ledger!LedgerNext \/ UNCHANGED Ledger!ledgerVars
             /\ Overwrites
  <2>1. CallsTyped' /\ SendsNone
    <3>1. PICK k \in BOOLEAN : calls' = Became(i, calls[i].arg, "done", k, Null)
      BY <1>4 DEF LoseCall
    <3> QED
      BY <3>1, StepMoves DEF ReviewInv, ReviewAsksOK
  <2>2. ReviewAsksOK'
    BY <2>1 DEF ReviewInv, ReviewAsksOK, SendsNone
  <2> QED
    BY <1>4, <2>2, LedgerRests
       DEF ReviewInv, reviewVars, ReviewDbOK, ItemsNameRoles, AwardsStand, DraftsOK, Overwrites
<1>5. CASE \E i \in DOMAIN calls : ReviewServes(i)
  BY <1>2, <1>5
<1>6. CASE \E i \in DOMAIN calls : ReviewReceives(i)
  BY <1>3, <1>6
<1>7. CASE \E i \in DOMAIN calls : LoseCall(i) /\ UNCHANGED reviewVars
  BY <1>4, <1>7
<1> QED
  BY <1>1, <1>5, <1>6, <1>7, Zenon DEF ReviewNext

-----------------------------------------------------------------------------
(* The page by itself. *)
LEMMA ReviewBegins == ReviewInit => ReviewInv
<1>1. ASSUME calls = <<>> PROVE ReviewAsksOK
  <2>1. calls \in Seq(CallShape({}, {}, {}))
    BY <1>1
  <2> QED
    BY <1>1, <2>1 DEF ReviewAsksOK, CallsTyped
<1> QED
  BY <1>1, ReviewStarts DEF ReviewInit, Mounted, ReviewInv

LEMMA ReviewRests == ReviewInv /\ UNCHANGED <<shell, reviewVars>> => ReviewInv'
BY DEF ReviewInv, shell, reviewVars, ReviewDbOK, ItemsNameRoles, AwardsStand, DraftsOK,
       ReviewAsksOK, ReviewAskOK, CallsTyped

LEMMA ReviewInvariant == ReviewSpec => []ReviewInv
<1>1. ReviewInv /\ [ReviewNext]_<<shell, reviewVars>> => ReviewInv'
  BY ReviewRests, ReviewStepKeeps
<1> QED
  BY <1>1, ReviewBegins, PTL DEF ReviewSpec

\* However drafts, refreshed lists, other reviewers and marks interleave, the
\* review is its ledger: the credits change with an approval and only there.
THEOREM ReviewKeepsLedger == ReviewSpec => ReviewLedgerRefined
<1>1. ReviewInit => Ledger!LedgerInit
  BY ReviewStarts DEF ReviewInit
<1>2. ReviewInv /\ [ReviewNext]_<<shell, reviewVars>> => [Ledger!LedgerNext]_(Ledger!ledgerVars)
  <2>1. UNCHANGED <<shell, reviewVars>> => UNCHANGED Ledger!ledgerVars
    BY LedgerRests DEF reviewVars
  <2> QED
    BY <2>1, ReviewStepKeeps
<1> QED
  BY <1>1, <1>2, ReviewInvariant, PTL DEF ReviewSpec, ReviewLedgerRefined, Ledger!LedgerSpec

\* No stored decision replaces one that its author did not see.
THEOREM DecisionsReplaceWhatWasSeen == ReviewSpec => OverwrittenWasSeen
<1>1. ReviewInv /\ [ReviewNext]_<<shell, reviewVars>> => [Overwrites]_reviewDb
  BY ReviewStepKeeps DEF reviewVars
<1> QED
  BY <1>1, ReviewInvariant, PTL DEF ReviewSpec, OverwrittenWasSeen, Overwrites

-----------------------------------------------------------------------------
(* Registrations. *)
ViewFields == {"rows", "filter", "selected", "onsite", "excel", "sub"}
SubFields == {"mount", "form", "sent", "busy", "file", "preview", "decided", "cases"}
Repeatable == {"resendTicket", "onsiteRegistration"}

\* After n calls: a request id was chosen by a sub-page mounted before the call
\* with it was sent, and the one mounted now has chosen none after its next one.
Chosen(ask, n, sub) ==
  /\ ask = [mount |-> ask.mount, nr |-> ask.nr]
  /\ ask.mount \in 0..n /\ ask.nr \in Nat
  /\ ask.mount = sub.mount => ask.nr <= sub.sent

\* A preview is of a stored job, which keeps its workbook; a commit names a
\* stored job, and the decisions about it when it needs them.
KnownJob(x, jobs) == \E j \in jobs : j.id = x.id /\ j.file = x.file
Committable(arg, jobs) ==
  /\ \E j \in jobs : j.id = arg.job
  /\ \A j \in jobs : j.id = arg.job /\ j.file \in Doubtful => arg.decided = arg.job

RequestsOK ==
  /\ \A t \in regDb.tickets :
       t = [reg |-> t.reg, ask |-> t.ask] /\ Chosen(t.ask, Len(calls), regView.sub)
  /\ \A t \in regDb.receipts :
       t = [ask |-> t.ask, reg |-> t.reg] /\ Chosen(t.ask, Len(calls), regView.sub)
  /\ \A t, u \in regDb.receipts : t.ask = u.ask => t = u
JobsOK ==
  /\ \A j \in regDb.jobs :
       /\ j = [id |-> j.id, file |-> j.file, done |-> j.done, by |-> j.by]
       /\ j.id \in DOMAIN calls /\ ~Waits(j.id, "previewExcel")
  /\ \A j, k \in regDb.jobs : j.id = k.id => j = k
  /\ ImportAsDecided
RegDbOK ==
  /\ DOMAIN regDb = {"state", "data", "tickets", "receipts", "jobs", "cases"}
  /\ RequestsOK /\ JobsOK
PreviewOK(s, jobs) ==
  s.preview # Null => KnownJob(s.preview, jobs) /\ (s.decided # Null => s.decided = s.preview.id)
RegViewOK ==
  /\ DOMAIN regView = ViewFields /\ DOMAIN regView.sub = SubFields
  /\ regView.sub.mount \in 1..(Len(calls) + 1) /\ regView.sub.sent \in Nat
  /\ PreviewOK(regView.sub, regDb.jobs)
RegCallOK(c, n, sub, jobs) ==
  /\ c.phase = "sent" /\ c.op \in Repeatable => Chosen(c.arg.more, n, sub)
  /\ c.phase = "sent" /\ c.op = "commitExcel" => Committable(c.arg, jobs)
  /\ c.phase = "done" /\ c.ok /\ c.op = "previewExcel" => KnownJob(c.data, jobs)
RegCallsOK ==
  /\ CallsTyped
  /\ \A i \in DOMAIN calls : RegCallOK(calls[i], Len(calls), regView.sub, regDb.jobs)

RegInv == RegDbOK /\ RegViewOK /\ RegCallsOK

\* What a step does to the calls, to the mounted sub-page and to the jobs.
RegAskOK(o, a) ==
  /\ o \in Repeatable =>
       /\ a.more = ResendId(regView.sub)
       /\ regView'.sub.mount = regView.sub.mount /\ regView'.sub.sent = regView.sub.sent
  /\ o = "commitExcel" => Committable(a, regDb.jobs)
RegCallsGo ==
  /\ CallsTyped' /\ DOMAIN calls \subseteq DOMAIN calls'
  /\ Len(calls') \in Nat /\ Len(calls') >= Len(calls)
  /\ \A j \in DOMAIN calls' :
       \/ j \in DOMAIN calls /\ calls'[j] = calls[j]
       \/ /\ j \in DOMAIN calls /\ calls'[j].phase \in {"done", "over"}
          /\ calls'[j].phase = "done" /\ calls'[j].op = "previewExcel" /\ calls'[j].ok =>
               KnownJob(calls'[j].data, regDb'.jobs)
       \/ /\ j \notin DOMAIN calls /\ calls'[j].phase = "sent" /\ Len(calls') > Len(calls)
          /\ RegAskOK(calls'[j].op, calls'[j].arg)
SubGoes(s) ==
  /\ DOMAIN s = SubFields
  /\ \/ s.mount = regView.sub.mount /\ s.sent \in {regView.sub.sent, regView.sub.sent + 1}
     \/ s.mount = Len(calls) + 1 /\ s.sent = 0
  /\ PreviewOK(s, regDb.jobs)
RegViewGoes == DOMAIN regView' = ViewFields /\ SubGoes(regView'.sub)
JobsStay ==
  /\ \A j \in regDb.jobs : \E k \in regDb'.jobs : k.id = j.id /\ k.file = j.file
  /\ \A k \in regDb'.jobs : (\E j \in regDb.jobs : j.id = k.id) =>
                              \E j \in regDb.jobs : j.id = k.id /\ j.file = k.file

LEMMA ChosenStays ==
  ASSUME RegInv, RegViewGoes, RegCallsGo, NEW a, Chosen(a, Len(calls), regView.sub)
  PROVE  Chosen(a, Len(calls'), regView'.sub)
<1>1. Len(calls) \in Nat /\ Len(calls') \in Nat /\ Len(calls') >= Len(calls)
  BY CallsLen DEF RegInv, RegCallsOK, RegCallsGo
<1>2. regView.sub.sent \in Nat
  BY DEF RegInv, RegViewOK
<1>3. a.mount \in 0..Len(calls')
  BY <1>1 DEF Chosen
<1>4. a.mount = regView'.sub.mount => a.nr <= regView'.sub.sent
  BY <1>1, <1>2 DEF Chosen, RegViewGoes, SubGoes
<1> QED
  BY <1>3, <1>4 DEF Chosen

LEMMA NextChosen ==
  ASSUME RegInv, RegViewGoes, RegCallsGo, Len(calls') > Len(calls),
         regView'.sub.mount = regView.sub.mount, regView'.sub.sent = regView.sub.sent
  PROVE  Chosen(ResendId(regView.sub), Len(calls'), regView'.sub)
<1>1. Len(calls) \in Nat /\ Len(calls') \in Nat
  BY CallsLen DEF RegInv, RegCallsOK, RegCallsGo
<1>2. /\ regView.sub.mount \in 1..(Len(calls) + 1) /\ regView.sub.sent \in Nat
  BY DEF RegInv, RegViewOK
<1>3. PICK m, n : m = regView.sub.mount /\ n = regView.sub.sent
  OBVIOUS
<1>4. ResendId(regView.sub) = [mount |-> m, nr |-> n]
  BY <1>3 DEF ResendId
<1> QED
  BY <1>1, <1>2, <1>3, <1>4 DEF Chosen

LEMMA CommittableStays ==
  ASSUME JobsStay, NEW a, Committable(a, regDb.jobs)
  PROVE  Committable(a, regDb'.jobs)
BY DEF JobsStay, Committable

LEMMA KnownJobStays ==
  ASSUME JobsStay, NEW x, KnownJob(x, regDb.jobs)
  PROVE  KnownJob(x, regDb'.jobs)
BY DEF JobsStay, KnownJob

LEMMA RegKeeps ==
  ASSUME RegInv, RegViewGoes, RegCallsGo, JobsStay, RegDbOK'
  PROVE  RegInv'
<1>1. Len(calls) \in Nat /\ Len(calls') \in Nat /\ Len(calls') >= Len(calls)
  BY CallsLen DEF RegInv, RegCallsOK, RegCallsGo
<1>2. RegViewOK'
  <2>1. regView'.sub.mount \in 1..(Len(calls') + 1) /\ regView'.sub.sent \in Nat
    BY <1>1 DEF RegViewGoes, SubGoes, RegInv, RegViewOK
  <2>2. PreviewOK(regView'.sub, regDb'.jobs)
    BY KnownJobStays DEF RegViewGoes, SubGoes, PreviewOK
  <2> QED
    BY <2>1, <2>2 DEF RegViewGoes, SubGoes, RegViewOK
<1>3. ASSUME NEW j \in DOMAIN calls'
      PROVE  RegCallOK(calls'[j], Len(calls'), regView'.sub, regDb'.jobs)
  <2>1. CASE j \in DOMAIN calls /\ calls'[j] = calls[j]
    <3>1. RegCallOK(calls[j], Len(calls), regView.sub, regDb.jobs)
      BY <2>1 DEF RegInv, RegCallsOK
    <3> QED
      BY <2>1, <3>1, ChosenStays, CommittableStays, KnownJobStays DEF RegCallOK
  <2>2. CASE /\ calls'[j].phase \in {"done", "over"}
             /\ calls'[j].phase = "done" /\ calls'[j].op = "previewExcel" /\ calls'[j].ok =>
                  KnownJob(calls'[j].data, regDb'.jobs)
    BY <2>2 DEF RegCallOK
  <2>3. CASE calls'[j].phase = "sent" /\ Len(calls') > Len(calls)
             /\ RegAskOK(calls'[j].op, calls'[j].arg)
    BY <2>3, NextChosen, CommittableStays DEF RegCallOK, RegAskOK
  <2> QED
    BY <2>1, <2>2, <2>3 DEF RegCallsGo
<1> QED
  BY <1>2, <1>3 DEF RegInv, RegCallsOK, RegCallsGo

LEMMA RegDbRests ==
  ASSUME RegInv, RegViewGoes, RegCallsGo, UNCHANGED regDb
  PROVE  RegInv'
<1>1. JobsStay
  BY DEF JobsStay
<1>2. RequestsOK'
  BY ChosenStays DEF RegInv, RegDbOK, RequestsOK
<1>3. JobsOK'
  BY DEF RegInv, RegDbOK, JobsOK, RegCallsGo, Waits, ImportAsDecided
<1> QED
  BY <1>1, <1>2, <1>3, RegKeeps DEF RegInv, RegDbOK
-----------------------------------------------------------------------------
(* The calls of the page. *)
LEMMA CallFields ==
  ASSUME NEW o, NEW a, NEW c, c = Call(o, a) \/ c = OthersCall(o, a)
  PROVE  c.op = o /\ c.arg = a /\ c.phase = "sent"
BY DEF Call, OthersCall, CallOf

LEMMA Overed ==
  ASSUME CallsTyped, NEW i \in DOMAIN calls, calls' = Over(i)
  PROVE  /\ CallsTyped' /\ DOMAIN calls' = DOMAIN calls
         /\ calls'[i].phase = "over" /\ calls'[i].op = calls[i].op
         /\ \A j \in DOMAIN calls : j # i => calls'[j] = calls[j]
<1>1. calls' = Became(i, Null, "over", FALSE, Null)
  BY DEF Over
<1> QED
  BY <1>1, Changed

LEMMA OveredAndAppended ==
  ASSUME CallsTyped, NEW i \in DOMAIN calls, NEW o, NEW a,
         calls' = Append(Over(i), Call(o, a))
  PROVE  /\ CallsTyped' /\ Len(calls) + 1 \notin DOMAIN calls
         /\ DOMAIN calls' = DOMAIN calls \cup {Len(calls) + 1}
         /\ calls'[Len(calls) + 1] = Call(o, a)
         /\ calls'[i].phase = "over" /\ calls'[i].op = calls[i].op
         /\ \A j \in DOMAIN calls : j # i => calls'[j] = calls[j]
<1>1. PICK O, A, D : /\ o \in O /\ a \in A /\ Null \in A \cap D
                     /\ calls \in Seq(CallShape(O, A, D))
  BY Widened
<1>2. PICK u : u = Over(i)
  OBVIOUS
<1>3. /\ u \in Seq(CallShape(O, A, D)) /\ Len(u) = Len(calls)
      /\ u[i].phase = "over" /\ u[i].op = calls[i].op
      /\ \A j \in DOMAIN calls : j # i => u[j] = calls[j]
  <2>1. PICK b \in A, p \in {"over", "open", "done"}, l \in BOOLEAN, d \in D :
          u = Became(i, b, p, l, d) /\ p = "over"
    BY <1>1, <1>2 DEF Over
  <2>2. u[i].op = calls[i].op
    BY <1>2 DEF Over, Became, CallOf
  <2> QED
    BY <1>1, <2>1, <2>2, BecameTyped
<1>4. PICK c \in CallShape(O, A, D) : c = Call(o, a)
  BY <1>1, CallIsTyped
<1>5. PICK n : n = Len(u)
  OBVIOUS
<1>6. /\ calls' \in Seq(CallShape(O, A, D)) /\ DOMAIN calls' = 1..(n + 1)
      /\ \A j \in 1..n : calls'[j] = u[j]
      /\ calls'[n + 1] = c
  BY <1>2, <1>3, <1>4, <1>5, OnceAppended
<1>7. n \in Nat /\ n = Len(calls) /\ DOMAIN calls = 1..n
  BY <1>1, <1>3, <1>5
<1> QED
  BY <1>3, <1>4, <1>6, <1>7 DEF CallsTyped

LEMMA RegCallsRest ==
  ASSUME CallsTyped, UNCHANGED calls
  PROVE  RegCallsGo
BY CallsLen DEF RegCallsGo, CallsTyped

LEMMA RegAsks ==
  ASSUME CallsTyped, NEW o, NEW a,
         calls' = Append(calls, Call(o, a)) \/ calls' = Append(calls, OthersCall(o, a)),
         RegAskOK(o, a)
  PROVE  RegCallsGo
<1>1. PICK c : (c = Call(o, a) \/ c = OthersCall(o, a)) /\ calls' = Append(calls, c)
  OBVIOUS
<1>2. /\ CallsTyped' /\ Len(calls) + 1 \notin DOMAIN calls
      /\ DOMAIN calls' = DOMAIN calls \cup {Len(calls) + 1}
      /\ calls'[Len(calls) + 1] = c
      /\ \A j \in DOMAIN calls : calls'[j] = calls[j]
  BY <1>1, Appended
<1>3. c.op = o /\ c.arg = a /\ c.phase = "sent"
  BY <1>1, CallFields
<1>4. Len(calls') = Len(calls) + 1 /\ Len(calls) \in Nat
  BY <1>2, CallsLen DEF CallsTyped
<1> QED
  BY <1>2, <1>3, <1>4 DEF RegCallsGo

LEMMA RegTakes ==
  ASSUME CallsTyped, NEW i \in DOMAIN calls, calls' = Over(i)
  PROVE  RegCallsGo
<1>1. /\ CallsTyped' /\ DOMAIN calls' = DOMAIN calls /\ calls'[i].phase = "over"
      /\ \A j \in DOMAIN calls : j # i => calls'[j] = calls[j]
  BY Overed
<1>2. Len(calls') = Len(calls) /\ Len(calls) \in Nat
  BY <1>1, CallsLen DEF CallsTyped
<1> QED
  BY <1>1, <1>2 DEF RegCallsGo

LEMMA RegTakesAndAsks ==
  ASSUME CallsTyped, NEW i \in DOMAIN calls, NEW o, NEW a,
         calls' = Append(Over(i), Call(o, a)), o \notin Repeatable \cup {"commitExcel"}
  PROVE  RegCallsGo
<1>1. PICK c : c = Call(o, a)
  OBVIOUS
<1>2. /\ CallsTyped' /\ Len(calls) + 1 \notin DOMAIN calls
      /\ DOMAIN calls' = DOMAIN calls \cup {Len(calls) + 1}
      /\ calls'[Len(calls) + 1] = c
      /\ calls'[i].phase = "over"
      /\ \A j \in DOMAIN calls : j # i => calls'[j] = calls[j]
  BY <1>1, OveredAndAppended
<1>3. c.op = o /\ c.phase = "sent"
  BY <1>1, CallFields
<1>4. Len(calls') = Len(calls) + 1 /\ Len(calls) \in Nat
  BY <1>2, CallsLen DEF CallsTyped
<1> QED
  BY <1>2, <1>3, <1>4 DEF RegCallsGo, RegAskOK

LEMMA RegAnswers ==
  ASSUME CallsTyped, NEW i \in DOMAIN calls, NEW k \in BOOLEAN, NEW d,
         Answer(i, k, d) \/ calls' = Became(i, calls[i].arg, "done", k, d),
         k /\ calls[i].op = "previewExcel" => KnownJob(d, regDb'.jobs)
  PROVE  RegCallsGo
<1>1. CASE calls' = Over(i)
  BY <1>1, RegTakes
<1>2. CASE calls' = Became(i, calls[i].arg, "done", k, d)
  <2>1. /\ CallsTyped' /\ DOMAIN calls' = DOMAIN calls
        /\ calls'[i].op = calls[i].op /\ calls'[i].phase = "done" /\ calls'[i].data = d
        /\ \A j \in DOMAIN calls : j # i => calls'[j] = calls[j]
    BY <1>2, Changed
  <2>2. calls'[i].ok <=> k
    BY <1>2, Changed
  <2>3. Len(calls') = Len(calls) /\ Len(calls) \in Nat
    BY <2>1, CallsLen DEF CallsTyped
  <2> QED
    BY <2>1, <2>2, <2>3 DEF RegCallsGo
<1> QED
  BY <1>1, <1>2 DEF Answer
-----------------------------------------------------------------------------
(* The sub-pages. *)
LEMMA SubRests ==
  ASSUME RegInv
  PROVE  SubGoes(regView.sub) /\ DOMAIN regView = ViewFields
BY DEF RegInv, RegViewOK, SubGoes

LEMMA NewSubGoes ==
  ASSUME NEW form
  PROVE  SubGoes(Sub(Len(calls) + 1, form))
BY DEF SubGoes, Sub, SubFields, PreviewOK

LEMMA Renders ==
  ASSUME RegInv, NEW v, DOMAIN v = ViewFields, v.sub = regView.sub
  PROVE  DOMAIN Render(v) = ViewFields /\ SubGoes(Render(v).sub)
<1>1. PICK s : s = Sub(Len(calls) + 1, IF v.selected = Null THEN Null ELSE v.selected.id)
  OBVIOUS
<1>2. SubGoes(s) /\ SubGoes(v.sub)
  BY <1>1, NewSubGoes, SubRests
<1>3. Render(v) \in {v, [v EXCEPT !.sub = s]}
  BY <1>1 DEF Render
<1> QED
  BY <1>2, <1>3 DEF ViewFields

\* What the handlers of a sub-page set of it.
SubSet(s) ==
  \/ \E b : s = [regView.sub EXCEPT !.busy = b]
  \/ \E n \in {regView.sub.sent + 1} : \E b : s = [regView.sub EXCEPT !.sent = n, !.busy = b]
  \/ \E f : s = [regView.sub EXCEPT !.file = f, !.preview = Null]
  \/ \E f, b : s = [regView.sub EXCEPT !.preview = Null, !.file = f, !.busy = b]
  \/ \E x, b : /\ KnownJob(x, regDb.jobs)
               /\ s = [regView.sub EXCEPT !.preview = x, !.decided = Null, !.busy = b]
  \/ /\ regView.sub.preview # Null
     /\ s = [regView.sub EXCEPT !.decided = regView.sub.preview.id]
  \/ \E c, b : s = [regView.sub EXCEPT !.cases = c, !.busy = b]

LEMMA SubSets ==
  ASSUME RegInv, NEW s, SubSet(s)
  PROVE  SubGoes(s)
<1>1. DOMAIN regView.sub = SubFields /\ PreviewOK(regView.sub, regDb.jobs)
  BY DEF RegInv, RegViewOK
<1>2. /\ DOMAIN s = SubFields /\ s.mount = regView.sub.mount
      /\ s.sent \in {regView.sub.sent, regView.sub.sent + 1}
  BY <1>1 DEF SubSet, SubFields
<1>3. PreviewOK(s, regDb.jobs)
  BY <1>1 DEF SubSet, SubFields, PreviewOK
<1> QED
  BY <1>2, <1>3 DEF SubGoes

LEMMA SubIsSet ==
  ASSUME RegInv, NEW s, regView' = [regView EXCEPT !.sub = s], SubSet(s)
  PROVE  RegViewGoes
BY SubSets, SubRests DEF RegViewGoes, ViewFields

LEMMA ViewRests ==
  ASSUME RegInv, UNCHANGED regView
  PROVE  RegViewGoes
BY SubRests DEF RegViewGoes

\* The next request of the sub-page: it waits for the answer.
LEMMA SubAsks ==
  ASSUME RegInv, NEW o, NEW a, NEW b,
         regView' = [regView EXCEPT !.sub = [regView.sub EXCEPT !.busy = b]],
         UNCHANGED regDb,
         calls' = Append(calls, Call(o, a)),
         o \in Repeatable => a.more = ResendId(regView.sub),
         o = "commitExcel" => Committable(a, regDb.jobs)
  PROVE  RegInv'
<1>1. RegViewGoes
  BY SubIsSet DEF SubSet
<1>2. regView'.sub.mount = regView.sub.mount /\ regView'.sub.sent = regView.sub.sent
  BY DEF RegInv, RegViewOK, ViewFields, SubFields
<1>3. RegCallsGo
  BY <1>2, RegAsks DEF RegAskOK, RegInv, RegCallsOK
<1> QED
  BY <1>1, <1>3, RegDbRests

LEMMA OtherAsks ==
  ASSUME RegInv, RegViewGoes, UNCHANGED regDb, NEW o, NEW a,
         calls' = Append(calls, Call(o, a)) \/ calls' = Append(calls, OthersCall(o, a)),
         o \notin Repeatable \cup {"commitExcel"}
  PROVE  RegInv'
BY RegAsks, RegDbRests DEF RegAskOK, RegInv, RegCallsOK

LEMMA NothingAsked ==
  ASSUME RegInv, RegViewGoes, UNCHANGED <<regDb, calls>>
  PROVE  RegInv'
BY RegCallsRest, RegDbRests DEF RegInv, RegCallsOK

LEMMA RegClickKeeps ==
  ASSUME RegInv, RegClicks
  PROVE  RegInv'
<1>1. CASE TurnPage
  <2>1. RegViewGoes
    BY <1>1, ViewRests DEF TurnPage, regVars
  <2> QED
    BY <1>1, <2>1, OtherAsks DEF TurnPage, LoadList, Ask, regVars, Repeatable
<1>2. CASE SendImportedTickets
  <2>1. RegViewGoes
    BY <1>2, ViewRests DEF SendImportedTickets, regVars
  <2> QED
    BY <1>2, <2>1, OtherAsks DEF SendImportedTickets, Ask, regVars, Repeatable
<1>3. CASE BackToList
  <2>1. PICK v : /\ v \in {[regView EXCEPT !.selected = Null],
                           [regView EXCEPT !.onsite = FALSE, !.excel = FALSE]}
                 /\ regView' = Render(v)
    BY <1>3 DEF BackToList
  <2>2. DOMAIN v = ViewFields /\ v.sub = regView.sub
    BY <2>1 DEF RegInv, RegViewOK, ViewFields
  <2>3. RegViewGoes
    BY <2>1, <2>2, Renders DEF RegViewGoes
  <2>4. CASE UNCHANGED calls
    BY <1>3, <2>3, <2>4, NothingAsked DEF BackToList
  <2>5. CASE LoadList(regView.filter)
    BY <1>3, <2>3, <2>5, OtherAsks DEF BackToList, LoadList, Ask, Repeatable
  <2> QED
    BY <1>3, <2>4, <2>5 DEF BackToList, shell
<1>4. CASE SaveRegistration \/ AnnulRegistration \/ ResendTicket
  <2>1. PICK o, m : /\ CardCall(o, m) /\ (o = "resendTicket" => m = ResendId(regView.sub))
                    /\ o \in {"updateRegistration", "annulRegistration", "resendTicket"}
    BY <1>4 DEF SaveRegistration, AnnulRegistration, ResendTicket
  <2>2. PICK a : /\ a = [reg |-> regView.selected.id, mount |-> regView.sub.mount, more |-> m]
                 /\ calls' = Append(calls, Call(o, a))
                 /\ regView' = [regView EXCEPT !.sub.busy = TRUE] /\ UNCHANGED regDb
    BY <2>1 DEF CardCall, Ask
  <2>3. a.more = m /\ o # "commitExcel"
    BY <2>1, <2>2
  <2> QED
    BY <2>1, <2>2, <2>3, SubAsks DEF Repeatable
<1>5. CASE OpenOnsite
  <2>1. RegViewGoes
    BY <1>5, ViewRests DEF OpenOnsite, regVars
  <2> QED
    BY <1>5, <2>1, OtherAsks DEF OpenOnsite, Ask, regVars, Repeatable
<1>6. CASE SubmitOnsite
  <2>1. PICK a : /\ a = [mount |-> regView.sub.mount, more |-> ResendId(regView.sub)]
                 /\ calls' = Append(calls, Call("onsiteRegistration", a))
                 /\ regView' = [regView EXCEPT !.sub.busy = TRUE] /\ UNCHANGED regDb
    BY <1>6 DEF SubmitOnsite, Ask
  <2>2. a.more = ResendId(regView.sub)
    BY <2>1
  <2> QED
    BY <2>1, <2>2, SubAsks
<1>7. CASE OpenExcel
  <2>1. PICK v : v = [regView EXCEPT !.excel = TRUE] /\ regView' = Render(v)
    BY <1>7 DEF OpenExcel
  <2>2. DOMAIN v = ViewFields /\ v.sub = regView.sub
    BY <2>1 DEF RegInv, RegViewOK, ViewFields
  <2>3. RegViewGoes
    BY <2>1, <2>2, Renders DEF RegViewGoes
  <2> QED
    BY <1>7, <2>3, NothingAsked DEF OpenExcel, shell
<1>8. CASE PreviewFile
  BY <1>8, SubAsks DEF PreviewFile, Ask, Repeatable
<1>9. CASE Decide
  <2>1. RegViewGoes
    BY <1>9, SubIsSet DEF Decide, SubSet
  <2> QED
    BY <1>9, <2>1, NothingAsked DEF Decide, shell
<1>10. CASE CommitImport
  <2>1. PICK a : /\ a = [mount |-> regView.sub.mount, job |-> regView.sub.preview.id,
                         decided |-> regView.sub.decided, filter |-> regView.filter]
                 /\ calls' = Append(calls, Call("commitExcel", a))
                 /\ regView' = [regView EXCEPT !.sub.busy = TRUE] /\ UNCHANGED regDb
    BY <1>10 DEF CommitImport, Ask
  <2>2. a.job = regView.sub.preview.id /\ a.decided = regView.sub.decided
    BY <2>1
  <2>3. /\ regView.sub.preview # Null
        /\ regView.sub.preview.file \in Doubtful => regView.sub.decided # Null
    BY <1>10 DEF CommitImport
  <2>4. Committable(a, regDb.jobs)
    BY <2>2, <2>3 DEF Committable, RegInv, RegViewOK, PreviewOK, KnownJob, RegDbOK, JobsOK
  <2> QED
    BY <2>1, <2>4, SubAsks DEF Repeatable
<1>11. CASE LoadCases
  <2>1. RegViewGoes
    BY <1>11, ViewRests DEF LoadCases, regVars
  <2> QED
    BY <1>11, <2>1, OtherAsks DEF LoadCases, Ask, regVars, Repeatable
<1>12. ASSUME NEW f \in Filters, ApplyFilter(f)
       PROVE  RegInv'
  <2>1. RegViewGoes
    BY <1>12, SubRests DEF ApplyFilter, RegViewGoes, ViewFields
  <2> QED
    BY <1>12, <2>1, OtherAsks DEF ApplyFilter, LoadList, Ask, Repeatable
<1>13. ASSUME NEW r \in Regs, OpenRegistration(r)
       PROVE  RegInv'
  <2>1. RegViewGoes
    BY <1>13, ViewRests DEF OpenRegistration, regVars
  <2> QED
    BY <1>13, <2>1, OtherAsks DEF OpenRegistration, Ask, regVars, Repeatable
<1>14. ASSUME NEW f \in Files, ChooseFile(f)
       PROVE  RegInv'
  <2>1. PICK s : s = [regView.sub EXCEPT !.file = f, !.preview = Null]
    OBVIOUS
  <2>2. SubSet(s)
    BY <2>1 DEF SubSet
  <2>3. regView' = [regView EXCEPT !.sub = s]
    BY <1>14, <2>1 DEF ChooseFile, RegInv, RegViewOK, ViewFields
  <2>4. RegViewGoes
    BY <2>2, <2>3, SubIsSet
  <2> QED
    BY <1>14, <2>4, NothingAsked DEF ChooseFile, shell
<1>15. ASSUME NEW c \in Cases, ResolveCase(c)
       PROVE  RegInv'
  BY <1>15, SubAsks DEF ResolveCase, Ask, Repeatable
<1> QED
  BY <1>1, <1>2, <1>3, <1>4, <1>5, <1>6, <1>7, <1>8, <1>9, <1>10, <1>11, <1>12, <1>13, <1>14,
     <1>15 DEF RegClicks
LEMMA OtherRegistrarKeeps ==
  ASSUME RegInv, OtherRegistrar
  PROVE  RegInv'
<1>1. RegViewGoes
  BY ViewRests DEF OtherRegistrar, regVars
<1>2. PICK o, a : calls' = Append(calls, OthersCall(o, a)) /\ o \in {"annulRegistration", "resolveCase"}
  BY DEF OtherRegistrar
<1> QED
  BY <1>1, <1>2, OtherAsks DEF OtherRegistrar, regVars, Repeatable

LEMMA Hears ==
  ASSUME RegInv, RegViewGoes, UNCHANGED regDb, NEW i \in DOMAIN calls, Take(i)
  PROVE  RegInv'
BY RegTakes, RegDbRests DEF Take, RegInv, RegCallsOK

LEMMA HearsAndAsks ==
  ASSUME RegInv, RegViewGoes, UNCHANGED regDb, NEW i \in DOMAIN calls, NEW o, NEW a,
         TakeAndAsk(i, o, a), o \notin Repeatable \cup {"commitExcel"}
  PROVE  RegInv'
BY RegTakesAndAsks, RegDbRests DEF TakeAndAsk, RegInv, RegCallsOK

LEMMA Waiting ==
  ASSUME NEW v, DOMAIN v = ViewFields, SubGoes(v.sub), NEW b, NEW i
  PROVE  DOMAIN Still(i, v, b) = ViewFields /\ SubGoes(Still(i, v, b).sub)
<1>1. PICK s : s = [v.sub EXCEPT !.busy = b]
  OBVIOUS
<1>2. SubGoes(s)
  BY <1>1 DEF SubGoes, SubFields, PreviewOK
<1>3. [v EXCEPT !.sub.busy = b] = [v EXCEPT !.sub = s]
  BY <1>1 DEF ViewFields
<1>4. Still(i, v, b) = v \/ Still(i, v, b) = [v EXCEPT !.sub = s]
  BY <1>3 DEF Still
<1> QED
  BY <1>2, <1>4 DEF ViewFields

LEMMA RegReceiveKeeps ==
  ASSUME RegInv, NEW i \in DOMAIN calls, RegReceives(i)
  PROVE  RegInv'
<1>1. CASE ShowList(i)
  <2>1. RegViewGoes
    BY <1>1, SubRests DEF ShowList, RegViewGoes, ViewFields
  <2> QED
    BY <1>1, <2>1, Hears DEF ShowList
<1>2. CASE ShowRegistration(i)
  <2>1. PICK v : v = [regView EXCEPT !.selected = calls[i].data]
    OBVIOUS
  <2>2. DOMAIN v = ViewFields /\ v.sub = regView.sub
    BY <2>1 DEF RegInv, RegViewOK, ViewFields
  <2>3. RegViewGoes
    BY <1>2, <2>1, <2>2, Renders, Waiting DEF ShowRegistration, RegViewGoes
  <2> QED
    BY <1>2, <2>3, Hears DEF ShowRegistration
<1>3. CASE ListHears(i)
  <2>1. RegViewGoes /\ UNCHANGED regDb
    BY <1>3, ViewRests DEF ListHears, regVars
  <2> QED
    BY <1>3, <2>1, Hears DEF ListHears
<1>4. CASE Annulled(i)
  <2>1. RegViewGoes /\ UNCHANGED regDb
    BY <1>4, ViewRests DEF Annulled, regVars
  <2> QED
    BY <1>4, <2>1, HearsAndAsks DEF Annulled, Repeatable
<1>5. CASE SubFails(i)
  <2>1. RegViewGoes
    BY <1>5, SubRests, Waiting DEF SubFails, RegViewGoes
  <2> QED
    BY <1>5, <2>1, Hears DEF SubFails
<1>6. CASE SubSent(i)
  <2>1. PICK s : s = [regView.sub EXCEPT !.sent = regView.sub.sent + 1, !.busy = FALSE]
    OBVIOUS
  <2>2. SubSet(s)
    BY <2>1 DEF SubSet
  <2>3. UNCHANGED regView \/ regView' = [regView EXCEPT !.sub = s]
    BY <1>6, <2>1 DEF SubSent, RegInv, RegViewOK, ViewFields, SubFields
  <2>4. RegViewGoes
    BY <2>2, <2>3, SubIsSet, ViewRests
  <2> QED
    BY <1>6, <2>4, Hears DEF SubSent
<1>7. CASE ShowOnsite(i)
  <2>1. PICK v : v = [regView EXCEPT !.onsite = TRUE]
    OBVIOUS
  <2>2. DOMAIN v = ViewFields /\ v.sub = regView.sub
    BY <2>1 DEF RegInv, RegViewOK, ViewFields
  <2>3. RegViewGoes
    BY <1>7, <2>1, <2>2, Renders DEF ShowOnsite, RegViewGoes
  <2> QED
    BY <1>7, <2>3, Hears DEF ShowOnsite
<1>8. CASE ShowImportPreview(i)
  <2>1. PICK s : s = [regView.sub EXCEPT !.preview = calls[i].data, !.decided = Null, !.busy = FALSE]
    OBVIOUS
  <2>2. SubSet(s)
    <3>1. KnownJob(calls[i].data, regDb.jobs)
      BY <1>8 DEF ShowImportPreview, Answered, RegInv, RegCallsOK, RegCallOK
    <3> QED
      BY <2>1, <3>1 DEF SubSet
  <2>3. UNCHANGED regView \/ regView' = [regView EXCEPT !.sub = s]
    BY <1>8, <2>1 DEF ShowImportPreview, RegInv, RegViewOK, ViewFields
  <2>4. RegViewGoes
    BY <2>2, <2>3, SubIsSet, ViewRests
  <2> QED
    BY <1>8, <2>4, Hears DEF ShowImportPreview
<1>9. CASE ShowImported(i)
  <2>1. PICK s : s = [regView.sub EXCEPT !.preview = Null, !.file = Null, !.busy = FALSE]
    OBVIOUS
  <2>2. SubSet(s)
    BY <2>1 DEF SubSet
  <2>3. UNCHANGED regView \/ regView' = [regView EXCEPT !.sub = s]
    BY <1>9, <2>1 DEF ShowImported, RegInv, RegViewOK, ViewFields
  <2>4. RegViewGoes
    BY <2>2, <2>3, SubIsSet, ViewRests
  <2> QED
    BY <1>9, <2>4, HearsAndAsks DEF ShowImported, Repeatable
<1>10. CASE CaseResolved(i)
  <2>1. RegViewGoes /\ UNCHANGED regDb
    BY <1>10, ViewRests DEF CaseResolved, regVars
  <2> QED
    BY <1>10, <2>1, HearsAndAsks DEF CaseResolved, Repeatable
<1>11. CASE ShowCases(i)
  <2>1. PICK s : s = [regView.sub EXCEPT !.cases = IF calls[i].ok THEN calls[i].data ELSE @,
                                         !.busy = @ /\ ~calls[i].arg.resolved]
    OBVIOUS
  <2>2. SubSet(s)
    BY <2>1 DEF SubSet
  <2>3. UNCHANGED regView \/ regView' = [regView EXCEPT !.sub = s]
    BY <1>11, <2>1 DEF ShowCases, RegInv, RegViewOK, ViewFields, SubFields
  <2>4. RegViewGoes
    BY <2>2, <2>3, SubIsSet, ViewRests
  <2> QED
    BY <1>11, <2>4, Hears DEF ShowCases
<1> QED
  BY <1>1, <1>2, <1>3, <1>4, <1>5, <1>6, <1>7, <1>8, <1>9, <1>10, <1>11 DEF RegReceives

LEMMA RegLoseKeeps ==
  ASSUME RegInv, NEW i \in DOMAIN calls, LoseCall(i), UNCHANGED regVars
  PROVE  RegInv'
<1>1. RegCallsGo
  BY RegAnswers DEF LoseCall, RegInv, RegCallsOK
<1>2. RegViewGoes /\ UNCHANGED regDb
  BY ViewRests DEF regVars
<1> QED
  BY <1>1, <1>2, RegDbRests
-----------------------------------------------------------------------------
(* The server. *)
RegTables == {"state", "data", "tickets", "receipts", "jobs", "cases"}

LEMMA RegServed ==
  ASSUME RegInv, NEW i \in DOMAIN calls, NEW d, Done(i, d) \/ Refused(i),
         calls[i].op = "previewExcel" => KnownJob(d, regDb'.jobs)
  PROVE  /\ RegCallsGo /\ DOMAIN calls' = DOMAIN calls
         /\ calls'[i].phase \in {"over", "done"}
         /\ \A j \in DOMAIN calls : j # i => calls'[j] = calls[j]
<1>1. CallsTyped
  BY DEF RegInv, RegCallsOK
<1>2. RegCallsGo
  <2>1. CASE Done(i, d)
    BY <1>1, <2>1, RegAnswers DEF Done
  <2>2. CASE Refused(i)
    BY <1>1, <2>2, RegAnswers DEF Refused, RefusedAs
  <2> QED
    BY <2>1, <2>2
<1>3. PICK k \in BOOLEAN : \E e : Answer(i, k, e)
  BY DEF Done, Refused, RefusedAs
<1>4. /\ DOMAIN calls' = DOMAIN calls /\ calls'[i].phase \in {"over", "done"}
      /\ \A j \in DOMAIN calls : j # i => calls'[j] = calls[j]
  BY <1>1, <1>3, AnswerMoves
<1> QED
  BY <1>2, <1>4

\* Everything but the import: what is noted anew is a chosen request.
Noted ==
  /\ \A t \in regDb'.tickets \ regDb.tickets :
       t = [reg |-> t.reg, ask |-> t.ask] /\ Chosen(t.ask, Len(calls), regView.sub)
  /\ \A t \in regDb'.receipts \ regDb.receipts :
       t = [ask |-> t.ask, reg |-> t.reg] /\ Chosen(t.ask, Len(calls), regView.sub)
  /\ \A t, u \in regDb'.receipts : t.ask = u.ask => t = u

LEMMA NotedKeeps ==
  ASSUME RegInv, RegCallsGo, UNCHANGED regView,
         DOMAIN regDb' = RegTables, regDb'.jobs = regDb.jobs, Noted
  PROVE  RegInv'
<1>1. RegViewGoes
  BY ViewRests
<1>2. JobsStay
  BY DEF JobsStay
<1>3. RequestsOK'
  BY <1>1, ChosenStays DEF RegInv, RegDbOK, RequestsOK, Noted
<1>4. JobsOK'
  BY DEF RegInv, RegDbOK, JobsOK, RegCallsGo, Waits, ImportAsDecided
<1> QED
  BY <1>1, <1>2, <1>3, <1>4, RegKeeps DEF RegDbOK, RegTables

LEMMA NothingNoted ==
  ASSUME RegInv, RegCallsGo, UNCHANGED regView,
         DOMAIN regDb' = RegTables, regDb'.jobs = regDb.jobs,
         regDb'.tickets = regDb.tickets, regDb'.receipts = regDb.receipts
  PROVE  RegInv'
<1>1. Noted
  BY DEF Noted, RegInv, RegDbOK, RequestsOK
<1> QED
  BY <1>1, NotedKeeps

LEMMA ServeReadsKeeps ==
  ASSUME RegInv, NEW i \in DOMAIN calls, ServeReads(i)
  PROVE  RegInv'
<1>1. PICK d : Done(i, d) /\ calls[i].op # "previewExcel"
  BY DEF ServeReads, Waits
<1>2. RegCallsGo
  BY <1>1, RegServed
<1> QED
  BY <1>2, ViewRests, RegDbRests DEF ServeReads, regVars

LEMMA ServeCardKeeps ==
  ASSUME RegInv, NEW i \in DOMAIN calls, ServeCard(i)
  PROVE  RegInv'
<1>1. PICK d : Done(i, d) \/ Refused(i)
  BY DEF ServeCard, Changes, Refuses
<1>2. /\ calls[i].op \in {"updateRegistration", "annulRegistration", "resendTicket"}
      /\ calls[i].phase = "sent" /\ UNCHANGED regView
  BY DEF ServeCard, Waits
<1>3. RegCallsGo
  BY <1>1, <1>2, RegServed
<1>4. DOMAIN regDb = RegTables
  BY DEF RegInv, RegDbOK, RegTables
<1>5. PICK r : r = calls[i].arg.reg
  OBVIOUS
<1>6. CASE \/ UNCHANGED regDb
           \/ \E x : regDb' = [regDb EXCEPT !.data[r] = x]
           \/ regDb' = [regDb EXCEPT !.state[r] = "ANNULLED"]
  BY <1>2, <1>3, <1>4, <1>6, NothingNoted DEF RegTables
<1>7. CASE /\ calls[i].op = "resendTicket"
           /\ regDb' = [regDb EXCEPT !.tickets = @ \cup {[reg |-> r, ask |-> calls[i].arg.more]}]
  <2>1. Chosen(calls[i].arg.more, Len(calls), regView.sub)
    BY <1>2, <1>7 DEF RegInv, RegCallsOK, RegCallOK, Repeatable
  <2>2. PICK t : t = [reg |-> r, ask |-> calls[i].arg.more]
    OBVIOUS
  <2>3. t = [reg |-> t.reg, ask |-> t.ask] /\ t.ask = calls[i].arg.more
    BY <2>2
  <2>4. /\ DOMAIN regDb' = RegTables /\ regDb'.jobs = regDb.jobs
        /\ regDb'.tickets = regDb.tickets \cup {t} /\ regDb'.receipts = regDb.receipts
    BY <1>4, <1>7, <2>2 DEF RegTables
  <2>5. Noted
    BY <2>1, <2>3, <2>4 DEF Noted, RegInv, RegDbOK, RequestsOK
  <2> QED
    BY <1>2, <1>3, <2>4, <2>5, NotedKeeps
<1> QED
  BY <1>5, <1>6, <1>7 DEF ServeCard, Changes, Refuses

LEMMA ServeTicketsKeeps ==
  ASSUME RegInv, NEW i \in DOMAIN calls, ServeTickets(i)
  PROVE  RegInv'
<1>1. DOMAIN regDb = RegTables /\ UNCHANGED regView
  BY DEF RegInv, RegDbOK, RegTables, ServeTickets
<1>2. RegCallsGo
  BY RegServed DEF ServeTickets, Changes, Waits
<1>3. PICK T : T = {[reg |-> r, ask |-> [mount |-> 0, nr |-> i]] :
                      r \in {q \in Regs : regDb.state[q] = "ACTIVE"}}
  OBVIOUS
<1>4. /\ DOMAIN regDb' = RegTables /\ regDb'.jobs = regDb.jobs
      /\ regDb'.tickets = regDb.tickets \cup T
      /\ regDb'.receipts = regDb.receipts
  BY <1>1, <1>3 DEF ServeTickets, Changes, RegTables
<1>5. \A t \in T : t = [reg |-> t.reg, ask |-> t.ask] /\ t.ask = [mount |-> 0, nr |-> i]
  BY <1>3
<1>6. \A a : a = [mount |-> 0, nr |-> i] => Chosen(a, Len(calls), regView.sub)
  <2>1. i \in Nat /\ Len(calls) \in Nat
    BY CallsLen DEF RegInv, RegCallsOK
  <2>2. regView.sub.mount # 0
    BY <2>1 DEF RegInv, RegViewOK
  <2> QED
    BY <2>1, <2>2 DEF Chosen
<1>7. Noted
  BY <1>4, <1>5, <1>6 DEF Noted, RegInv, RegDbOK, RequestsOK
<1> QED
  BY <1>1, <1>2, <1>4, <1>7, NotedKeeps

LEMMA ServeOnsiteKeeps ==
  ASSUME RegInv, NEW i \in DOMAIN calls, ServeOnsite(i)
  PROVE  RegInv'
<1>1. PICK d : Done(i, d) \/ Refused(i)
  BY DEF ServeOnsite, Changes, Refuses
<1>2. /\ calls[i].op = "onsiteRegistration" /\ calls[i].phase = "sent"
      /\ UNCHANGED regView /\ DOMAIN regDb = RegTables
  BY DEF ServeOnsite, Waits, RegInv, RegDbOK, RegTables
<1>3. RegCallsGo
  BY <1>1, <1>2, RegServed
<1>4. CASE UNCHANGED regDb
  BY <1>2, <1>3, <1>4, ViewRests, RegDbRests
<1>5. ASSUME NEW r \in Regs,
             ~(\E t \in regDb.receipts : t.ask = calls[i].arg.more),
             regDb' = [regDb EXCEPT !.state[r] = "ACTIVE", !.data[r] = r,
                                    !.receipts = @ \cup {[ask |-> calls[i].arg.more, reg |-> r]}]
      PROVE  RegInv'
  <2>1. Chosen(calls[i].arg.more, Len(calls), regView.sub)
    BY <1>2 DEF RegInv, RegCallsOK, RegCallOK, Repeatable
  <2>2. PICK t : t = [ask |-> calls[i].arg.more, reg |-> r]
    OBVIOUS
  <2>3. t = [ask |-> t.ask, reg |-> t.reg] /\ t.ask = calls[i].arg.more
    BY <2>2
  <2>4. /\ DOMAIN regDb' = RegTables /\ regDb'.jobs = regDb.jobs
        /\ regDb'.tickets = regDb.tickets /\ regDb'.receipts = regDb.receipts \cup {t}
    BY <1>2, <1>5, <2>2 DEF RegTables
  <2>5. Noted
    BY <1>5, <2>1, <2>3, <2>4 DEF Noted, RegInv, RegDbOK, RequestsOK
  <2> QED
    BY <1>2, <1>3, <2>4, <2>5, NotedKeeps
<1> QED
  BY <1>4, <1>5 DEF ServeOnsite, Changes, Refuses

LEMMA ServeCaseKeeps ==
  ASSUME RegInv, NEW i \in DOMAIN calls, ServeCase(i)
  PROVE  RegInv'
<1>1. PICK d : Done(i, d) \/ Refused(i)
  BY DEF ServeCase, Changes, Refuses
<1>2. calls[i].op = "resolveCase" /\ UNCHANGED regView /\ DOMAIN regDb = RegTables
  BY DEF ServeCase, Waits, RegInv, RegDbOK, RegTables
<1>3. RegCallsGo
  BY <1>1, <1>2, RegServed
<1>4. UNCHANGED regDb \/ regDb' = [regDb EXCEPT !.cases = @ \ {calls[i].arg.case}]
  BY DEF ServeCase, Changes, Refuses
<1> QED
  BY <1>2, <1>3, <1>4, NothingNoted DEF RegTables

\* The import: a new job has the number of its call, and is committed with
\* the decisions that its commit names.
LEMMA ServeImportKeeps ==
  ASSUME RegInv, NEW i \in DOMAIN calls, ServeImport(i)
  PROVE  RegInv'
<1>1. UNCHANGED regView /\ DOMAIN regDb = RegTables /\ JobsOK /\ RegViewGoes
  BY ViewRests DEF ServeImport, RegInv, RegDbOK, RegTables
<1>2. CASE Waits(i, "previewExcel")
  <2>1. PICK job : job = [id |-> i, file |-> calls[i].arg.file, done |-> FALSE, by |-> Null]
    OBVIOUS
  <2>2. regDb' = [regDb EXCEPT !.jobs = @ \cup {job}] /\ Done(i, job)
    BY <1>2, <2>1 DEF ServeImport, Changes, Waits
  <2>3. /\ job = [id |-> job.id, file |-> job.file, done |-> job.done, by |-> job.by]
        /\ job.id = i /\ ~job.done
    BY <2>1
  <2>4. /\ DOMAIN regDb' = RegTables /\ regDb'.jobs = regDb.jobs \cup {job}
        /\ regDb'.tickets = regDb.tickets /\ regDb'.receipts = regDb.receipts
    BY <1>1, <2>2 DEF RegTables
  <2>5. KnownJob(job, regDb'.jobs)
    BY <2>4 DEF KnownJob
  <2>6. /\ RegCallsGo /\ DOMAIN calls' = DOMAIN calls
        /\ calls'[i].phase \in {"over", "done"}
        /\ \A j \in DOMAIN calls : j # i => calls'[j] = calls[j]
    BY <2>2, <2>5, RegServed
  <2>7. \A j \in regDb.jobs : j.id # i
    BY <1>1, <1>2 DEF JobsOK
  <2>8. JobsOK'
    BY <1>1, <2>3, <2>4, <2>6, <2>7 DEF JobsOK, Waits, ImportAsDecided
  <2>9. JobsStay
    BY <2>3, <2>4, <2>7 DEF JobsStay
  <2>10. RequestsOK'
    BY <1>1, <2>4, <2>6, ChosenStays DEF RegInv, RegDbOK, RequestsOK
  <2> QED
    BY <1>1, <2>4, <2>6, <2>8, <2>9, <2>10, RegKeeps DEF RegDbOK, RegTables
<1>3. CASE Waits(i, "commitExcel") /\ Refuses(i)
  <2>1. RegCallsGo
    BY <1>3, RegServed DEF Refuses, Waits
  <2> QED
    BY <1>1, <1>3, <2>1, RegDbRests DEF Refuses
<1>4. ASSUME NEW job \in regDb.jobs, Waits(i, "commitExcel"), job.id = calls[i].arg.job,
             Changes(i, [regDb EXCEPT !.jobs = (@ \ {job}) \cup
                           {[job EXCEPT !.done = TRUE, !.by = calls[i].arg.decided]}], Null)
      PROVE  RegInv'
  <2>1. PICK new : new = [job EXCEPT !.done = TRUE, !.by = calls[i].arg.decided]
    OBVIOUS
  <2>2. /\ new = [id |-> new.id, file |-> new.file, done |-> new.done, by |-> new.by]
        /\ new.id = job.id /\ new.file = job.file /\ new.by = calls[i].arg.decided
    <3>1. job = [id |-> job.id, file |-> job.file, done |-> job.done, by |-> job.by]
      BY <1>1 DEF JobsOK
    <3>2. DOMAIN job = {"id", "file", "done", "by"}
      BY <3>1
    <3>3. new = [id |-> job.id, file |-> job.file, done |-> TRUE, by |-> calls[i].arg.decided]
      BY <2>1, <3>1, <3>2
    <3> QED
      BY <3>3
  <2>3. /\ DOMAIN regDb' = RegTables /\ regDb'.jobs = (regDb.jobs \ {job}) \cup {new}
        /\ regDb'.tickets = regDb.tickets /\ regDb'.receipts = regDb.receipts
    BY <1>1, <1>4, <2>1 DEF RegTables, Changes
  <2>4. RegCallsGo
    BY <1>4, RegServed DEF Changes, Waits
  <2>5. new.file \in Doubtful => new.by = new.id
    BY <1>4, <2>2 DEF RegInv, RegCallsOK, RegCallOK, Committable, Waits
  <2>6. JobsOK'
    BY <1>1, <2>2, <2>3, <2>4, <2>5 DEF JobsOK, Waits, ImportAsDecided, RegCallsGo
  <2>7. JobsStay
    BY <2>2, <2>3 DEF JobsStay
  <2>8. RequestsOK'
    BY <1>1, <2>3, <2>4, ChosenStays DEF RegInv, RegDbOK, RequestsOK
  <2> QED
    BY <1>1, <2>3, <2>4, <2>6, <2>7, <2>8, RegKeeps DEF RegDbOK, RegTables
<1> QED
  BY <1>2, <1>3, <1>4 DEF ServeImport
-----------------------------------------------------------------------------
LEMMA RegLives ==
  ASSUME RegInv, RegNext
  PROVE  RegInv'
<1>1. ASSUME NEW i \in DOMAIN calls, RegServes(i)
      PROVE  RegInv'
  BY <1>1, ServeReadsKeeps, ServeCardKeeps, ServeTicketsKeeps, ServeOnsiteKeeps,
     ServeImportKeeps, ServeCaseKeeps DEF RegServes
<1> QED
  BY <1>1, RegClickKeeps, OtherRegistrarKeeps, RegReceiveKeeps, RegLoseKeeps DEF RegNext

LEMMA RegRests ==
  ASSUME RegInv, UNCHANGED <<calls, regVars>>
  PROVE  RegInv'
<1>1. RegViewGoes /\ UNCHANGED regDb
  BY ViewRests DEF regVars
<1> QED
  BY <1>1, NothingAsked

\* Requests with different numbers up to k are at most k + 1.
LEMMA FewRequests ==
  ASSUME NEW S, NEW k \in Nat,
         \A t \in S : t.ask.nr \in 0..k,
         \A t, u \in S : t.ask.nr = u.ask.nr => t = u
  PROVE  Cardinality(S) <= k + 1
<1> DEFINE f == [t \in S |-> t.ask.nr]
<1>1. f \in Injection(S, 0..k)
  BY DEF Injection, IsInjective
<1>2. IsFiniteSet(0..k) /\ Cardinality(0..k) = k + 1
  BY FS_Interval
<1>3. IsFiniteSet(S) /\ Cardinality(S) <= Cardinality(0..k)
  BY <1>1, <1>2, FS_Injection
<1> QED
  BY <1>2, <1>3

LEMMA RetriedOnce ==
  ASSUME RegInv
  PROVE  OneRetried
<1>1. regView.sub.sent \in Nat
  BY DEF RegInv, RegViewOK
<1>2. \A t \in regDb.tickets \cup regDb.receipts :
        Chosen(t.ask, Len(calls), regView.sub)
  BY DEF RegInv, RegDbOK, RequestsOK
<1>3. \A a, b : /\ Chosen(a, Len(calls), regView.sub) /\ a.mount = regView.sub.mount
               /\ Chosen(b, Len(calls), regView.sub) /\ b.mount = regView.sub.mount
               => a.nr \in 0..regView.sub.sent /\ (a.nr = b.nr => a = b)
  BY <1>1 DEF Chosen
<1>4. \A t, u \in regDb.tickets : t.reg = u.reg /\ t.ask = u.ask => t = u
  BY DEF RegInv, RegDbOK, RequestsOK
<1>5. \A t, u \in regDb.receipts : t.ask = u.ask => t = u
  BY DEF RegInv, RegDbOK, RequestsOK
<1>6. ASSUME NEW r \in Regs
      PROVE  Cardinality(Sent(regDb.tickets, r)) <= regView.sub.sent + 1
  <2>1. PICK S : S = Sent(regDb.tickets, r)
    OBVIOUS
  <2>2. \A t \in S : t \in regDb.tickets /\ t.reg = r /\ t.ask.mount = regView.sub.mount
    BY <2>1 DEF Sent
  <2>3. \A t \in S : t.ask.nr \in 0..regView.sub.sent
    BY <1>2, <1>3, <2>2
  <2>4. \A t, u \in S : t.ask.nr = u.ask.nr => t = u
    BY <1>2, <1>3, <1>4, <2>2
  <2> QED
    BY <1>1, <2>1, <2>3, <2>4, FewRequests
<1>7. Cardinality(UNION {Sent(regDb.receipts, r) : r \in Regs}) <= regView.sub.sent + 1
  <2>1. PICK S : S = UNION {Sent(regDb.receipts, r) : r \in Regs}
    OBVIOUS
  <2>2. \A t \in S : t \in regDb.receipts /\ t.ask.mount = regView.sub.mount
    BY <2>1 DEF Sent
  <2>3. \A t \in S : t.ask.nr \in 0..regView.sub.sent
    BY <1>2, <1>3, <2>2
  <2>4. \A t, u \in S : t.ask.nr = u.ask.nr => t = u
    BY <1>2, <1>3, <1>5, <2>2
  <2> QED
    BY <1>1, <2>1, <2>3, <2>4, FewRequests
<1> QED
  BY <1>6, <1>7 DEF OneRetried

LEMMA RegTablesStart ==
  ASSUME RegStart
  PROVE  OneRetried /\ ImportAsDecided
<1>1. regDb.tickets = {} /\ regDb.receipts = {} /\ regDb.jobs = {}
  BY DEF RegStart
<1>2. regView.sub = [Sub(1, Null) EXCEPT !.cases = Cases]
  BY DEF RegStart
<1>3. regView.sub.sent = 0
  BY <1>2 DEF Sub
<1>4. /\ \A r \in Regs : Sent(regDb.tickets, r) = {}
      /\ UNION {Sent(regDb.receipts, r) : r \in Regs} = {}
  BY <1>1 DEF Sent
<1>5. Cardinality({}) = 0
  BY FS_EmptySet
<1> QED
  BY <1>1, <1>3, <1>4, <1>5 DEF OneRetried, ImportAsDecided

LEMMA RegStarts ==
  ASSUME RegStart, CallsTyped, \A i \in DOMAIN calls : calls[i].op \notin RegOps
  PROVE  RegInv
<1>1. PICK s : s = [Sub(1, Null) EXCEPT !.cases = Cases]
  OBVIOUS
<1>2. /\ DOMAIN s = SubFields /\ s.mount = 1 /\ s.sent = 0 /\ s.preview = Null
  BY <1>1 DEF Sub, SubFields
<1>3. DOMAIN regView = ViewFields /\ regView.sub = s
  BY <1>1 DEF RegStart, ViewFields
<1>4. /\ DOMAIN regDb = RegTables /\ regDb.tickets = {} /\ regDb.receipts = {} /\ regDb.jobs = {}
  BY DEF RegStart, RegTables
<1>5. RegDbOK
  BY <1>4 DEF RegDbOK, RegTables, RequestsOK, JobsOK, ImportAsDecided
<1>6. RegViewOK
  BY <1>2, <1>3, CallsLen DEF RegViewOK, PreviewOK
<1>7. RegCallsOK
  BY DEF RegCallsOK, RegCallOK, RegOps, Repeatable
<1> QED
  BY <1>5, <1>6, <1>7 DEF RegInv

-----------------------------------------------------------------------------
(* People. *)
PeopleTables == {"contacts", "text", "alias", "flagged", "public", "history", "books"}
ListFields == {"rows", "asked", "shown", "book", "preview", "seen"}

\* A clean preview on the page was seen, and so was every one on its way back.
PreviewSeen ==
  directory.preview # Null /\ directory.preview.clean => directory.preview.book \in directory.seen
SentSeen(o, a) == o = "importRoster" => a.hash \in a.seen
ImportsSeen ==
  \A j \in DOMAIN calls : calls[j].phase = "sent" => SentSeen(calls[j].op, calls[j].arg)

\* The load that is shown was asked before the last one, and that one was sent.
DirectoryOK ==
  /\ DOMAIN directory = ListFields
  /\ {directory.shown, directory.asked} \subseteq Nat
  /\ directory.shown <= directory.asked /\ directory.asked <= Len(calls)
  /\ PreviewSeen
PeopleInv == CallsTyped /\ ImportsSeen /\ DOMAIN peopleDb = PeopleTables /\ DirectoryOK

CallsGrow == CallsTyped' /\ ImportsSeen' /\ Len(calls') \in Nat /\ Len(calls') >= Len(calls)
DirectoryGoes == DirectoryOK' /\ directory'.shown >= directory.shown
BooksStay == DOMAIN peopleDb' = PeopleTables /\ peopleDb'.books = peopleDb.books
SeenBooks ==
  \A b \in peopleDb'.books \ peopleDb.books :
    \E i \in DOMAIN calls : /\ Waits(i, "importRoster")
                            /\ calls[i].arg.book = b /\ b \in calls[i].arg.seen
PeopleGoes == PeopleInv' /\ SeenBooks /\ directory'.shown >= directory.shown

LEMMA ImportsStaySeen ==
  ASSUME ImportsSeen, SendsNone \/ \E o, a : Sends(o, a) /\ SentSeen(o, a)
  PROVE  ImportsSeen'
<1>1. CASE SendsNone
  BY <1>1 DEF SendsNone, ImportsSeen
<1>2. ASSUME NEW o, NEW a, Sends(o, a), SentSeen(o, a)
      PROVE  ImportsSeen'
  BY <1>2 DEF Sends, ImportsSeen
<1> QED
  BY <1>1, <1>2

LEMMA GrowsByAsk ==
  ASSUME CallsTyped, ImportsSeen, NEW o, NEW a, SentSeen(o, a),
         calls' = Append(calls, Call(o, a)) \/ calls' = Append(calls, OthersCall(o, a))
  PROVE  CallsGrow
<1>1. PICK c : (c = Call(o, a) \/ c = OthersCall(o, a)) /\ calls' = Append(calls, c)
  OBVIOUS
<1>2. /\ CallsTyped' /\ Len(calls) + 1 \notin DOMAIN calls
      /\ DOMAIN calls' = DOMAIN calls \cup {Len(calls) + 1}
  BY <1>1, Appended
<1>3. ImportsSeen'
  <2>1. Sends(o, a)
    BY AppendSends
  <2> QED
    BY <2>1, ImportsStaySeen
<1> QED
  BY <1>2, <1>3, CallsLen DEF CallsTyped, CallsGrow

LEMMA GrowsByTake ==
  ASSUME CallsTyped, ImportsSeen, NEW i \in DOMAIN calls, Take(i)
  PROVE  CallsGrow
<1>1. CallsTyped' /\ DOMAIN calls' = DOMAIN calls
  BY Overed DEF Take
<1>2. SendsNone
  BY StepMoves DEF Take
<1>3. ImportsSeen'
  BY <1>2, ImportsStaySeen
<1> QED
  BY <1>1, <1>3, CallsLen DEF CallsTyped, CallsGrow

LEMMA GrowsByTakeAndAsk ==
  ASSUME CallsTyped, ImportsSeen, NEW i \in DOMAIN calls, NEW o, NEW a, SentSeen(o, a),
         TakeAndAsk(i, o, a)
  PROVE  CallsGrow
<1>1. /\ CallsTyped' /\ Len(calls) + 1 \notin DOMAIN calls
      /\ DOMAIN calls' = DOMAIN calls \cup {Len(calls) + 1}
  BY OveredAndAppended DEF TakeAndAsk
<1>2. Sends(o, a)
  BY TakeSends DEF TakeAndAsk
<1>3. ImportsSeen'
  BY <1>2, ImportsStaySeen
<1> QED
  BY <1>1, <1>3, CallsLen DEF CallsTyped, CallsGrow

LEMMA GrowsByAnswer ==
  ASSUME CallsTyped, ImportsSeen, NEW i \in DOMAIN calls, NEW d, Done(i, d) \/ RefusedAs(i, d) \/ Refused(i)
  PROVE  CallsGrow
<1>1. PICK k \in BOOLEAN : \E e : Answer(i, k, e)
  BY DEF Done, Refused, RefusedAs
<1>2. CallsTyped' /\ DOMAIN calls' = DOMAIN calls
  BY <1>1, AnswerMoves
<1>3. SendsNone
  BY <1>1, StepMoves
<1>4. ImportsSeen'
  BY <1>3, ImportsStaySeen
<1> QED
  BY <1>2, <1>4, CallsLen DEF CallsTyped, CallsGrow

LEMMA GrowsByLoss ==
  ASSUME CallsTyped, ImportsSeen, NEW i \in DOMAIN calls, LoseCall(i)
  PROVE  CallsGrow
<1>1. calls' = Became(i, calls[i].arg, "done", FALSE, Null)
  BY DEF LoseCall
<1>2. CallsTyped' /\ DOMAIN calls' = DOMAIN calls
  BY <1>1, Changed
<1>3. SendsNone
  BY <1>1, StepMoves
<1>4. ImportsSeen'
  BY <1>3, ImportsStaySeen
<1> QED
  BY <1>2, <1>4, CallsLen DEF CallsTyped, CallsGrow

LEMMA GrowsByNothing ==
  ASSUME CallsTyped, ImportsSeen, UNCHANGED calls
  PROVE  CallsGrow
BY CallsLen DEF CallsTyped, CallsGrow, ImportsSeen

LEMMA DirectoryRests ==
  ASSUME PeopleInv, CallsGrow, UNCHANGED directory
  PROVE  DirectoryGoes
<1>1. Len(calls) \in Nat
  BY CallsLen DEF PeopleInv
<1> QED
  BY <1>1 DEF PeopleInv, CallsGrow, DirectoryOK, DirectoryGoes, PreviewSeen

\* A load of the list is the last call.
LEMMA ListAsked ==
  ASSUME PeopleInv, CallsGrow, NEW d, DOMAIN d = ListFields, d.shown = directory.shown,
         d.seen = directory.seen, d.preview \in {Null, directory.preview},
         directory' = [d EXCEPT !.asked = Len(calls')]
  PROVE  DirectoryGoes
<1>1. /\ DOMAIN directory' = ListFields /\ directory'.asked = Len(calls')
      /\ directory'.shown = directory.shown
      /\ directory'.seen = directory.seen /\ directory'.preview \in {Null, directory.preview}
  BY DEF ListFields
<1>2. Len(calls) \in Nat
  BY CallsLen DEF PeopleInv
<1>3. PreviewSeen'
  BY <1>1 DEF PreviewSeen, PeopleInv, DirectoryOK
<1> QED
  BY <1>1, <1>2, <1>3 DEF PeopleInv, CallsGrow, DirectoryOK, DirectoryGoes

LEMMA PeopleKeeps ==
  ASSUME PeopleInv, CallsGrow, DirectoryGoes, UNCHANGED peopleDb
  PROVE  PeopleGoes
BY DEF PeopleInv, CallsGrow, DirectoryGoes, PeopleGoes, SeenBooks

LEMMA CardOnly ==
  ASSUME PeopleInv, CallsGrow, UNCHANGED <<peopleDb, directory>>
  PROVE  PeopleGoes
BY DirectoryRests, PeopleKeeps

LEMMA PeopleClickKeeps ==
  ASSUME PeopleInv, PeopleClicks
  PROVE  PeopleGoes
<1>1. ASSUME LoadPeople, UNCHANGED peopleDb
      PROVE  PeopleGoes
  <2>1. CallsGrow
    BY <1>1, GrowsByAsk DEF LoadPeople, Ask, PeopleInv, SentSeen
  <2>2. DirectoryGoes
    BY <1>1, <2>1, ListAsked DEF LoadPeople, PeopleInv, DirectoryOK
  <2> QED
    BY <1>1, <2>1, <2>2, PeopleKeeps
<1>2. ASSUME NEW o, NEW a, SentSeen(o, a), Ask(o, a), UNCHANGED <<peopleDb, directory>>
      PROVE  PeopleGoes
  BY <1>2, GrowsByAsk, CardOnly DEF Ask, PeopleInv
<1>3. ASSUME NEW b \in Books, ChooseBook(b)
      PROVE  PeopleGoes
  <2>1. CallsGrow /\ UNCHANGED <<calls, peopleDb>>
    BY <1>3, GrowsByNothing DEF ChooseBook, shell, PeopleInv
  <2>2. DirectoryGoes
    BY <1>3, <2>1 DEF ChooseBook, PeopleInv, DirectoryOK, DirectoryGoes, ListFields, PreviewSeen
  <2> QED
    BY <2>1, <2>2, PeopleKeeps
<1>4. ASSUME NEW t \in Texts, EditMetadata(t)
      PROVE  PeopleGoes
  BY <1>4, GrowsByNothing, CardOnly DEF EditMetadata, shell, PeopleInv
<1>5. CASE SearchPeopleList \/ BackToDirectory
  BY <1>1, <1>5 DEF SearchPeopleList, BackToDirectory
<1>6. CASE PreviewRoster \/ \E p \in People : OpenPerson(p)
  <2>1. PICK o, a : SentSeen(o, a) /\ Ask(o, a) /\ UNCHANGED <<peopleDb, directory>>
    BY <1>6 DEF PreviewRoster, OpenPerson, peopleVars, SentSeen
  <2> QED
    BY <1>2, <2>1
<1>9. CASE ImportRoster
  <2>1. PICK a : /\ a = [book |-> directory.book, hash |-> directory.preview.book,
                         seen |-> directory.seen]
                 /\ Ask("importRoster", a)
    BY <1>9 DEF ImportRoster
  <2>2. SentSeen("importRoster", a) /\ UNCHANGED <<peopleDb, directory>>
    BY <1>9, <2>1 DEF ImportRoster, SentSeen, PeopleInv, DirectoryOK, PreviewSeen, peopleVars
  <2> QED
    BY <1>2, <2>1, <2>2
<1>7. CASE \/ SavePerson \/ SaveMetadata \/ ReloadMetadata \/ MergePerson \/ DismissDuplicate
           \/ ChangeVisibility \/ \E p \in People : Compare(p)
  <2>1. PICK s, o, a : SectionCall(s, o, a) /\ o # "importRoster"
    BY <1>7 DEF SavePerson, SaveMetadata, ReloadMetadata, MergePerson, DismissDuplicate,
                ChangeVisibility, Compare
  <2>3. PICK x : Ask(o, x) /\ UNCHANGED <<peopleDb, directory>>
    BY <2>1 DEF SectionCall
  <2>4. SentSeen(o, x)
    BY <2>1 DEF SentSeen
  <2> QED
    BY <1>2, <2>3, <2>4
<1>8. CASE SearchCandidates \/ LoadProfile
  BY <1>2, <1>8 DEF SearchCandidates, LoadProfile, SentSeen
<1> QED
  BY <1>3, <1>4, <1>5, <1>6, <1>7, <1>8, <1>9 DEF PeopleClicks

LEMMA OtherPeopleKeeps ==
  ASSUME PeopleInv, OtherPeople
  PROVE  PeopleGoes
<1>1. PICK o, a : SentSeen(o, a) /\ calls' = Append(calls, OthersCall(o, a))
  BY DEF OtherPeople, SentSeen
<1> QED
  BY <1>1, GrowsByAsk, CardOnly DEF OtherPeople, peopleVars, PeopleInv

LEMMA PeopleReceiveKeeps ==
  ASSUME PeopleInv, NEW i \in DOMAIN calls, PeopleReceives(i)
  PROVE  PeopleGoes
<1>1. CASE PeopleArrive(i)
  <2>1. CallsGrow /\ UNCHANGED peopleDb
    BY <1>1, GrowsByTake DEF PeopleArrive, PeopleInv
  <2>2. CASE UNCHANGED directory
    BY <2>1, <2>2, CardOnly
  <2>3. CASE i = directory.asked
             /\ directory' = [directory EXCEPT !.rows = calls[i].data, !.shown = i]
    <3>1. Len(calls) \in Nat
      BY CallsLen DEF PeopleInv
    <3>2. DirectoryGoes
      BY <2>1, <2>3, <3>1
         DEF PeopleInv, CallsGrow, DirectoryOK, DirectoryGoes, ListFields, PreviewSeen
    <3> QED
      BY <2>1, <3>2, PeopleKeeps
  <2> QED
    BY <1>1, <2>2, <2>3 DEF PeopleArrive
<1>2. CASE ListFails(i) \/ ShowRosterPreview(i)
  <2>1. CallsGrow /\ UNCHANGED peopleDb
    BY <1>2, GrowsByTake DEF ListFails, ShowRosterPreview, PeopleInv
  <2>2. /\ DOMAIN directory' = ListFields
        /\ directory'.shown = directory.shown /\ directory'.asked = directory.asked
        /\ PreviewSeen'
    <3>1. CASE UNCHANGED directory
      BY <3>1 DEF PeopleInv, DirectoryOK, PreviewSeen
    <3>2. CASE directory' = [directory EXCEPT !.preview = Null]
      BY <3>2 DEF PeopleInv, DirectoryOK, PreviewSeen, ListFields
    <3>3. CASE ShowRosterPreview(i)
      <4>1. PICK found, seen :
              /\ directory' = [directory EXCEPT !.preview = found, !.seen = seen]
              /\ found.clean => found.book \in seen
        BY <3>3 DEF ShowRosterPreview, PeopleInv, DirectoryOK, ListFields
      <4> QED
        BY <4>1 DEF PeopleInv, DirectoryOK, PreviewSeen, ListFields
    <3> QED
      BY <1>2, <3>1, <3>2, <3>3 DEF ListFails
  <2>3. Len(calls) \in Nat
    BY CallsLen DEF PeopleInv
  <2>4. DirectoryGoes
    BY <2>1, <2>2, <2>3 DEF PeopleInv, CallsGrow, DirectoryOK, DirectoryGoes
  <2> QED
    BY <2>1, <2>4, PeopleKeeps
<1>3. CASE RosterImported(i)
  <2>1. CallsGrow /\ UNCHANGED peopleDb
    BY <1>3, GrowsByTakeAndAsk DEF RosterImported, PeopleInv, SentSeen
  <2>2. PICK d : d = [directory EXCEPT !.book = Null, !.preview = Null]
    OBVIOUS
  <2>3. /\ DOMAIN d = ListFields /\ d.shown = directory.shown
        /\ d.seen = directory.seen /\ d.preview = Null
        /\ directory' = [d EXCEPT !.asked = Len(calls')]
    BY <1>3, <2>2 DEF RosterImported, PeopleInv, DirectoryOK, ListFields
  <2>4. DirectoryGoes
    BY <2>1, <2>3, ListAsked
  <2> QED
    BY <2>1, <2>4, PeopleKeeps
<1>4. CASE \/ ShowPerson(i) \/ SectionFails(i) \/ CardChanged(i) \/ ShowCandidates(i)
           \/ ShowComparison(i) \/ ShowProfile(i)
  <2>1. Take(i) /\ UNCHANGED <<peopleDb, directory>>
    BY <1>4 DEF ShowPerson, SectionFails, CardChanged, ShowCandidates, ShowComparison, ShowProfile
  <2> QED
    BY <2>1, GrowsByTake, CardOnly DEF PeopleInv
<1> QED
  BY <1>1, <1>2, <1>3, <1>4 DEF PeopleReceives

LEMMA PeopleServeKeeps ==
  ASSUME PeopleInv, NEW i \in DOMAIN calls, PeopleServes(i)
  PROVE  PeopleGoes
<1>1. DOMAIN peopleDb = PeopleTables
  BY DEF PeopleInv
<1>2. ASSUME CallsGrow, UNCHANGED directory, BooksStay
      PROVE  PeopleGoes
  BY <1>2, DirectoryRests DEF PeopleGoes, PeopleInv, CallsGrow, DirectoryGoes, BooksStay, SeenBooks
<1>3. CASE ServePeopleReads(i)
  <2>1. PICK d : Done(i, d) \/ Refused(i)
    BY <1>3 DEF ServePeopleReads
  <2> QED
    BY <1>3, <2>1, GrowsByAnswer, CardOnly DEF ServePeopleReads, peopleVars, PeopleInv
<1>4. CASE ServeImportRoster(i)
  <2>1. CallsGrow
    BY <1>4, GrowsByAnswer DEF ServeImportRoster, PeopleInv
  <2>2. DirectoryGoes
    BY <1>4, <2>1, DirectoryRests DEF ServeImportRoster
  <2>3. DOMAIN peopleDb' = PeopleTables
    BY <1>1, <1>4 DEF ServeImportRoster
  <2>4. SeenBooks
    <3>1. calls[i].arg.hash \in calls[i].arg.seen
      BY <1>4 DEF ServeImportRoster, Waits, PeopleInv, ImportsSeen, SentSeen
    <3> QED
      BY <1>1, <1>4, <3>1 DEF ServeImportRoster, SeenBooks, PeopleTables
  <2> QED
    BY <2>1, <2>2, <2>3, <2>4 DEF PeopleGoes, PeopleInv, CallsGrow, DirectoryGoes
<1>5. CASE ServePerson(i)
  <2>1. UNCHANGED directory
    BY <1>5 DEF ServePerson
  <2>2. PICK d : Done(i, d) \/ RefusedAs(i, d) \/ Refused(i)
    BY <1>5 DEF ServePerson, PersonDone, PersonRefused
  <2>3. CallsGrow
    BY <2>2, GrowsByAnswer DEF PeopleInv
  <2>4. BooksStay
    BY <1>1, <1>5 DEF ServePerson, PersonDone, PersonRefused, Merged, BooksStay, PeopleTables
  <2> QED
    BY <1>2, <2>1, <2>3, <2>4
<1>6. CASE ServeVisibility(i) \/ ServeScored(i)
  <2>1. UNCHANGED directory
    BY <1>6 DEF ServeVisibility, ServeScored
  <2>2. PICK d : Done(i, d)
    BY <1>6 DEF ServeVisibility, ServeScored
  <2>3. CallsGrow
    BY <2>2, GrowsByAnswer DEF PeopleInv
  <2>4. BooksStay
    BY <1>1, <1>6 DEF ServeVisibility, ServeScored, BooksStay, PeopleTables
  <2> QED
    BY <1>2, <2>1, <2>3, <2>4
<1> QED
  BY <1>3, <1>4, <1>5, <1>6 DEF PeopleServes

LEMMA PeopleLives ==
  ASSUME PeopleInv, PeopleNext
  PROVE  PeopleGoes
<1>1. ASSUME NEW i \in DOMAIN calls, LoseCall(i), UNCHANGED peopleVars
      PROVE  PeopleGoes
  BY <1>1, GrowsByLoss, CardOnly DEF peopleVars, PeopleInv
<1> QED
  BY <1>1, PeopleClickKeeps, OtherPeopleKeeps, PeopleReceiveKeeps, PeopleServeKeeps DEF PeopleNext

LEMMA PeopleRests ==
  ASSUME PeopleInv, UNCHANGED <<calls, peopleVars>>
  PROVE  PeopleGoes
BY GrowsByNothing, CardOnly DEF peopleVars, PeopleInv

LEMMA PeopleStarts ==
  ASSUME PeopleStart, CallsTyped, ImportsSeen
  PROVE  PeopleInv
<1>1. DOMAIN peopleDb = PeopleTables
  BY DEF PeopleStart, PeopleTables
<1>2. directory = [rows |-> People, asked |-> 0, shown |-> 0, book |-> Null, preview |-> Null,
                  seen |-> {}]
  BY DEF PeopleStart
<1>3. /\ DOMAIN directory = ListFields /\ directory.asked = 0 /\ directory.shown = 0
      /\ PreviewSeen
  BY <1>2 DEF ListFields, PreviewSeen
<1> QED
  BY <1>1, <1>3, CallsLen DEF PeopleInv, DirectoryOK

-----------------------------------------------------------------------------
(* The mounted page. *)
\* What every step does to the flag and the losses.
ShellGoes ==
  /\ busy \in BOOLEAN => busy' \in BOOLEAN
  /\ faults' = faults \/ (faults < MaxFaults[page] /\ faults' = faults + 1)

LEMMA ScoringStays == ASSUME ScoringNext PROVE UNCHANGED page /\ ShellGoes
<1>1. ASSUME ScoringClicks PROVE UNCHANGED page /\ ShellGoes
  BY <1>1 DEF ShellGoes, ScoringClicks, CreatePolicy, NewDraft, EditValues, CloseEditor, SaveVersion,
     RetireVersion, OpenSeasonForm, CloseSeasonForm, AssignStatus, Calculate, OpenPolicy,
     AssignSeason, OpenVersion, PublishVersion, SearchPeople, ClearPerson, SelectPerson,
     OpenStatusForm, RetireStatus, SelectPlay, EditorCall, shell
<1>2. ASSUME NEW i, ScoringServes(i) PROVE UNCHANGED page /\ ShellGoes
  BY <1>2 DEF ShellGoes, ScoringServes, ServeReferences, ServePublishable, ServeCreatePolicy, ServeVersions,
     ServeVersion, ServeCreateVersion, ServeSaveVersion, ProbePublish, ServePublish, ProbeRetire,
     ServeRetire, ServeAssignSeason, BeginAward, ServeAward, ServeMoveEvent, ServePeople,
     ServeAssignStatus, ServeRetireStatus, ServeStatuses, ServeParticipations, ServePreview
<1>3. ASSUME NEW i, ScoringReceives(i) PROVE UNCHANGED page /\ ShellGoes
  BY <1>3 DEF ShellGoes, ScoringReceives, LookUpVersions, CommitReferences, ReferencesFail, PolicyCreated,
     ChangeFails, ShowVersions, ShowVersion, EditorSaved, EditorFails, SeasonAssigned, ShowPeople,
     StatusChanged, ShowStatuses, StatusesFail, ShowParticipations, ShowPreview
<1> QED
  BY <1>1, <1>2, <1>3 DEF ShellGoes, ScoringNext, OtherScoring, LoseCall

LEMMA PeopleStays == ASSUME PeopleNext PROVE UNCHANGED <<page, notice>> /\ ShellGoes
<1>1. ASSUME PeopleClicks PROVE UNCHANGED <<page, notice>> /\ ShellGoes
  BY <1>1 DEF ShellGoes, PeopleClicks, SearchPeopleList, PreviewRoster, ImportRoster, BackToDirectory,
     SavePerson, SaveMetadata, ReloadMetadata, SearchCandidates, MergePerson, DismissDuplicate,
     LoadProfile, ChangeVisibility, OpenPerson, Compare, ChooseBook, EditMetadata, SectionCall, LoadPeople,
     Ask, shell
<1>2. ASSUME NEW i, PeopleServes(i) PROVE UNCHANGED <<page, notice>> /\ ShellGoes
  BY <1>2 DEF ShellGoes, PeopleServes, ServePeopleReads, ServeImportRoster, ServePerson, PersonDone,
     PersonRefused, ServeVisibility, ServeScored
<1>3. ASSUME NEW i, PeopleReceives(i) PROVE UNCHANGED <<page, notice>> /\ ShellGoes
  BY <1>3 DEF ShellGoes, PeopleReceives, PeopleArrive, ShowPerson, ListFails, ShowRosterPreview,
     RosterImported, SectionFails, CardChanged, ShowCandidates, ShowComparison, ShowProfile,
     Take, TakeAndAsk
<1> QED
  BY <1>1, <1>2, <1>3 DEF ShellGoes, PeopleNext, OtherPeople, LoseCall

LEMMA ReviewStays == ASSUME ReviewNext PROVE UNCHANGED <<page, notice>> /\ ShellGoes
<1>1. ASSUME ReviewClicks PROVE UNCHANGED <<page, notice>> /\ ShellGoes
  BY <1>1 DEF ShellGoes, ReviewClicks, LoadQueue, LeaveReview, Refresh, ApproveReview, Reopen, DropDraft,
     SaveDecision, SuggestStudents, PreviewScore, ChangeDecision, ReviewCall, Ask, shell
<1>2. ASSUME NEW i, ReviewServes(i) PROVE UNCHANGED <<page, notice>> /\ ShellGoes
  BY <1>2 DEF ShellGoes, ReviewServes, ServeReviewReads, ServeDecision, ServeRefresh, ServeReopen,
     ServeApprove, ServeOthersReview, ReviewRefused, ReviewChanges
<1>3. ASSUME NEW i, ReviewReceives(i) PROVE UNCHANGED <<page, notice>> /\ ShellGoes
  BY <1>3 DEF ShellGoes, ReviewReceives, ShowQueue, ShowReview, ShowApproved, ShowScore, ReviewFails, Take,
     TakeAndAsk
<1> QED
  BY <1>1, <1>2, <1>3 DEF ShellGoes, ReviewNext, OtherReviewer, LoseCall

LEMMA EventStays == ASSUME EventNext PROVE UNCHANGED <<page, notice>> /\ ShellGoes
<1>1. ASSUME EventClicks PROVE UNCHANGED <<page, notice>> /\ ShellGoes
  BY <1>1 DEF ShellGoes, EventClicks, Logout, ToggleArchive, CloseEventEditor, CompleteEvent, DeleteCover,
     Archive, Purge, SaveConfig, CloseFieldForm, SaveField, Login, OpenEditor, SaveEvent,
     OpenFieldForm, DeactivateField, EditStream, SaveStream, Settings, FieldCall, Ask, shell
<1>2. ASSUME NEW i, EventServes(i) PROVE UNCHANGED <<page, notice>> /\ ShellGoes
  BY <1>2 DEF ShellGoes, EventServes, ServeSession, ServeEventReads, ServeCreate, ServeUpdate, StoreCover,
     ServeUpload, ServeDeleteCover, ServePurge, RemoveCover, ServeArchive, ServeField, ServeStream
<1>3. ASSUME NEW i, EventReceives(i) PROVE UNCHANGED <<page, notice>> /\ ShellGoes
  BY <1>3 DEF ShellGoes, EventReceives, SessionArrives, ShowEvents, EventSaved, Purged, SettingsFail,
     FieldChanged, ShowFields, StreamSaved, ShowStreams, StreamsFail, Take, TakeAndAsk
<1> QED
  BY <1>1, <1>2, <1>3 DEF ShellGoes, EventNext, OtherEditor, LoseCall

LEMMA RegStays ==
  ASSUME RegNext
  PROVE  UNCHANGED page /\ ShellGoes /\ notice' \in {notice, "queued", "error"}
<1>1. ASSUME RegClicks PROVE UNCHANGED page /\ ShellGoes /\ notice' \in {notice, "queued", "error"}
  BY <1>1 DEF ShellGoes, RegClicks, TurnPage, SendImportedTickets, BackToList, SaveRegistration,
     AnnulRegistration, ResendTicket, OpenOnsite, SubmitOnsite, OpenExcel, PreviewFile, Decide,
     CommitImport, LoadCases, ApplyFilter, OpenRegistration, ChooseFile, ResolveCase, LoadList, CardCall,
     Ask, shell
<1>2. ASSUME NEW i, RegServes(i) PROVE UNCHANGED page /\ ShellGoes /\ notice' \in {notice, "queued", "error"}
  BY <1>2 DEF ShellGoes, RegServes, ServeReads, ServeCard, ServeTickets, ServeOnsite, ServeImport, ServeCase
<1>3. ASSUME NEW i, RegReceives(i) PROVE UNCHANGED page /\ ShellGoes /\ notice' \in {notice, "queued", "error"}
  BY <1>3 DEF ShellGoes, RegReceives, ShowList, ShowRegistration, ListHears, Annulled, SubFails, SubSent,
     ShowOnsite, ShowImportPreview, ShowImported, CaseResolved, ShowCases, Take, TakeAndAsk
<1> QED
  BY <1>1, <1>2, <1>3 DEF ShellGoes, RegNext, OtherRegistrar, LoseCall
-----------------------------------------------------------------------------
(* What the scoring page reports.  A list that is loaded after a change    *)
(* shows what the change made, because nothing that it made goes again; so *)
(* every request and reply carries what may be reported when it is heard.  *)
Kept(row, made) == made.edition \in Nat /\ Holds(row, made)
Shows(arg, ps, sn) ==
  /\ arg.after \in {"mount", "created", "assigned"}
  /\ arg.after = "created" => arg.made \in ps
  /\ arg.after = "assigned" => Kept(sn, arg.made)
\* An assignment that was made, or retired, and the rows that show it.
Made(after, s) ==
  /\ s \in Statuses /\ status[s] \in {"ACTIVE", "RETIRED"}
  /\ after = "retireStatus" => status[s] = "RETIRED"
RowShows(after, s, rows) ==
  /\ after = "assignStatus" =>
       \E x \in rows : x.id = s /\ (x.state = "ACTIVE" \/ (s \in Statuses /\ status[s] = "RETIRED"))
  /\ after = "retireStatus" => [id |-> s, state |-> "RETIRED"] \in rows
Promised(o, a) ==
  /\ o = "references" => Shows(a, policies, season)
  /\ o = "publishable" => Shows(a, policies, season) /\ Shows(a, a.lists.policies, a.lists.season)
  /\ o = "listStatuses" =>
       /\ a.after \in {"chosen", "assignStatus", "retireStatus"}
       /\ a.after # "chosen" => Made(a.after, a.made) /\ StatusOf[a.made] = a.person
  /\ o = "retireStatus" => a.id \in Statuses
Held(o, a, d) ==
  /\ o = "createPolicy" => d \in policies
  /\ o = "assignSeason" => Kept(season, d)
  /\ o \in {"assignStatus", "retireStatus"} => Made(o, d) /\ StatusOf[d] = a.person
  /\ o = "references" => Shows(a, d.policies, d.season)
  /\ o = "listStatuses" => RowShows(a.after, a.made, d)
ReplyOK(c) ==
  /\ c.phase # "over" => Promised(c.op, c.arg)
  /\ c.phase = "done" /\ c.ok => Held(c.op, c.arg, c.data)

RepliesOK == CallsTyped /\ \A i \in DOMAIN calls : ReplyOK(calls[i])
PickerOK ==
  /\ DOMAIN picker = Panels
  /\ \A k \in Panels : DOMAIN picker[k] = DOMAIN NoOneChosen
ReportInv == DOMAIN status = Statuses /\ season.edition \in Nat /\ PickerOK /\ RepliesOK

\* What a change made stays, as it was made or changed again.
ChangesStay ==
  /\ policies \subseteq policies'
  /\ \A m : Kept(season, m) => Kept(season', m)
  /\ \A s \in Statuses : status[s] \in {"ACTIVE", "RETIRED"} => status'[s] \in {status[s], "RETIRED"}

\* What a step may report, and when.
Reported(i) ==
  LET load == calls[i].arg IN
  IF calls[i].ok THEN notice' = load.after /\ OnPage(load.after, load.made)
  ELSE notice' = "stale" /\ OnServer(load.after, load.made)
Reports ==
  /\ \A i \in DOMAIN calls : LoadEnds(i) => Reported(i)
  /\ notice' # notice /\ notice' \in Successes => \E i \in DOMAIN calls : LoadEnds(i)
NobodyHears == \A i \in DOMAIN calls : ~Heard(i)
OnlyHears(i) == \A j \in DOMAIN calls : Heard(j) => j = i

\* Requests and replies of the other kinds end without a report.
ReportOps == {"references", "publishable", "listStatuses"}
LEMMA NothingReported ==
  ASSUME \/ NobodyHears
         \/ \E i \in DOMAIN calls :
              /\ OnlyHears(i)
              /\ calls[i].op \notin ReportOps \/ (calls[i].op = "references" /\ calls[i].ok),
         notice' = notice \/ notice' \notin Successes
  PROVE  Reports
BY DEF Reports, NobodyHears, OnlyHears, LoadEnds, ReportOps

\* Who hears of a step: nobody of a new call or an answer.
LEMMA CallHeard ==
  ASSUME CallsTyped,
         \/ UNCHANGED calls
         \/ \E o, a : calls' = Append(calls, Call(o, a)) \/ calls' = Append(calls, OthersCall(o, a))
  PROVE  NobodyHears
<1>1. CASE UNCHANGED calls
  BY <1>1 DEF NobodyHears, Heard
<1>2. ASSUME NEW o, NEW a,
             calls' = Append(calls, Call(o, a)) \/ calls' = Append(calls, OthersCall(o, a))
      PROVE  NobodyHears
  <2>1. NoneMoves
    BY <1>2, AppendSends
  <2> QED
    BY <2>1 DEF NoneMoves, NobodyHears, Heard
<1> QED
  BY <1>1, <1>2

LEMMA AnswerHeard ==
  ASSUME CallsTyped, NEW i \in DOMAIN calls, NEW d,
         \/ /\ calls[i].phase \in {"sent", "open"}
            /\ Done(i, d) \/ RefusedAs(i, d) \/ Refused(i) \/ Began(i, d)
         \/ LoseCall(i)
  PROVE  NobodyHears
<1>1. CASE LoseCall(i)
  <2>1. calls' = Became(i, calls[i].arg, "done", FALSE, Null)
    BY <1>1 DEF LoseCall
  <2>2. calls'[i].phase = "done" /\ \A j \in DOMAIN calls : j # i => calls'[j] = calls[j]
    BY <2>1, Changed
  <2> QED
    BY <2>2 DEF NobodyHears, Heard
<1>2. CASE /\ calls[i].phase \in {"sent", "open"}
           /\ Done(i, d) \/ RefusedAs(i, d) \/ Refused(i) \/ Began(i, d)
  <2>1. OnlyMoves(i)
    <3>1. CASE Began(i, d)
      BY <3>1, BeganOpens
    <3>2. CASE Done(i, d) \/ RefusedAs(i, d) \/ Refused(i)
      <4>1. PICK k \in BOOLEAN : \E e : Answer(i, k, e)
        BY <3>2 DEF Done, Refused, RefusedAs
      <4> QED
        BY <4>1, StepMoves
    <3> QED
      BY <1>2, <3>1, <3>2
  <2> QED
    BY <1>2, <2>1 DEF OnlyMoves, NobodyHears, Heard
<1> QED
  BY <1>1, <1>2

LEMMA TakingHears ==
  ASSUME CallsTyped, NEW i \in DOMAIN calls,
         calls' = Over(i) \/ \E o, a : calls' = Append(Over(i), Call(o, a))
  PROVE  OnlyHears(i) /\ calls'[i].phase = "over"
<1>1. OnlyMoves(i) /\ calls'[i].phase = "over"
  <2>1. CASE calls' = Over(i)
    BY <2>1, Overed, StepMoves
  <2>2. ASSUME NEW o, NEW a, calls' = Append(Over(i), Call(o, a))
        PROVE  OnlyMoves(i) /\ calls'[i].phase = "over"
    BY <2>2, TakeSends, OveredAndAppended
  <2> QED
    BY <2>1, <2>2
<1> QED
  BY <1>1 DEF OnlyMoves, OnlyHears, Heard

LEMMA PromisesStay ==
  ASSUME ChangesStay
  PROVE  /\ \A o, a : Promised(o, a) => Promised(o, a)'
         /\ \A c : ReplyOK(c) => ReplyOK(c)'
<1>0. /\ \A a : Shows(a, policies, season) => Shows(a, policies, season)'
      /\ \A x, s : Made(x, s) => Made(x, s)'
  BY DEF ChangesStay, Shows, Made
<1>1. \A o, a : Promised(o, a) => Promised(o, a)'
  BY <1>0 DEF Promised, Shows
<1>2. \A o, a, d : Held(o, a, d) => Held(o, a, d)'
  <2>1. \A x, t, d : RowShows(x, t, d) => RowShows(x, t, d)'
    BY DEF RowShows, ChangesStay
  <2> QED
    BY <1>0, <2>1 DEF ChangesStay, Held, Shows
<1> QED
  BY <1>1, <1>2 DEF ReplyOK

LEMMA ReplySent ==
  ASSUME RepliesOK, ChangesStay, NEW o, NEW a, Promised(o, a),
         calls' = Append(calls, Call(o, a)) \/ calls' = Append(calls, OthersCall(o, a))
  PROVE  RepliesOK'
<1>1. PICK c : (c = Call(o, a) \/ c = OthersCall(o, a)) /\ calls' = Append(calls, c)
  OBVIOUS
<1>2. c.op = o /\ c.arg = a /\ c.phase = "sent"
  BY <1>1, CallFields
<1>3. ReplyOK(c)'
  BY <1>2, PromisesStay DEF ReplyOK
<1>4. /\ CallsTyped' /\ DOMAIN calls' = DOMAIN calls \cup {Len(calls) + 1}
      /\ calls'[Len(calls) + 1] = c
      /\ \A j \in DOMAIN calls : calls'[j] = calls[j]
  BY <1>1, Appended DEF RepliesOK
<1>5. \A j \in DOMAIN calls : ReplyOK(calls[j])'
  BY <1>4, PromisesStay DEF RepliesOK
<1> QED
  BY <1>3, <1>4, <1>5 DEF RepliesOK

LEMMA ReplyChanged ==
  ASSUME RepliesOK, ChangesStay, NEW i \in DOMAIN calls, NEW b \in {Null, calls[i].arg},
         NEW p \in {"over", "open", "done"}, NEW k \in BOOLEAN, NEW d,
         calls' = Became(i, b, p, k, d),
         p # "over" => b = calls[i].arg /\ calls[i].phase # "over",
         NEW o, NEW a, o = calls[i].op, a = calls[i].arg, p = "done" /\ k => Held(o, a, d)'
  PROVE  RepliesOK' /\ calls'[i].phase = p
<1>1. /\ CallsTyped' /\ DOMAIN calls' = DOMAIN calls
      /\ calls'[i].op = calls[i].op /\ calls'[i].phase = p
      /\ calls'[i].data = d /\ calls'[i].arg = b /\ (calls'[i].ok <=> k)
      /\ \A j \in DOMAIN calls : j # i => calls'[j] = calls[j]
  <2>1. CallsTyped
    BY DEF RepliesOK
  <2>2. Turned(i, b, p, k, d)
    BY <2>1, Turns
  <2> QED
    BY <2>2 DEF Turned
<1>2. ReplyOK(calls[i])
  BY DEF RepliesOK
<1>3. ReplyOK(calls[i])'
  BY <1>1, <1>2, PromisesStay DEF ReplyOK
<1>4. \A j \in DOMAIN calls : j # i => ReplyOK(calls[j])'
  BY <1>1, PromisesStay DEF RepliesOK
<1> QED
  BY <1>1, <1>3, <1>4 DEF RepliesOK

LEMMA ReplyTaken ==
  ASSUME RepliesOK, ChangesStay, NEW i \in DOMAIN calls, calls' = Over(i)
  PROVE  RepliesOK' /\ calls'[i].phase = "over"
<1>1. calls' = Became(i, Null, "over", FALSE, Null)
  BY DEF Over
<1> QED
  BY <1>1, ReplyChanged

LEMMA ReplyAnswered ==
  ASSUME RepliesOK, ChangesStay, NEW i \in DOMAIN calls, calls[i].phase # "over",
         NEW k \in BOOLEAN, NEW d, Answer(i, k, d),
         NEW o, NEW a, o = calls[i].op, a = calls[i].arg, k => Held(o, a, d)'
  PROVE  RepliesOK'
<1>1. \/ calls' = Over(i)
      \/ calls' = Became(i, calls[i].arg, "done", k, d)
  BY DEF Answer
<1> QED
  BY <1>1, ReplyTaken, ReplyChanged

LEMMA ReplyGoesOn ==
  ASSUME RepliesOK, ChangesStay, NEW i \in DOMAIN calls, NEW o, NEW a, Promised(o, a),
         calls' = Append(Over(i), Call(o, a))
  PROVE  RepliesOK'
<1>1. /\ CallsTyped' /\ DOMAIN calls' = DOMAIN calls \cup {Len(calls) + 1}
      /\ calls'[Len(calls) + 1] = Call(o, a)
      /\ calls'[i].phase = "over"
      /\ \A j \in DOMAIN calls : j # i => calls'[j] = calls[j]
  BY OveredAndAppended DEF RepliesOK
<1>2. PICK c : c = Call(o, a)
  OBVIOUS
<1>3. ReplyOK(c)'
  BY <1>2, CallFields, PromisesStay DEF ReplyOK
<1>4. \A j \in DOMAIN calls : j # i => ReplyOK(calls[j])'
  BY <1>1, PromisesStay DEF RepliesOK
<1>5. ReplyOK(calls[i])'
  BY <1>1 DEF ReplyOK
<1> QED
  BY <1>1, <1>2, <1>3, <1>4, <1>5 DEF RepliesOK

-----------------------------------------------------------------------------
(* The transactions. *)
Telling == {"createPolicy", "assignSeason", "assignStatus", "retireStatus", "references", "listStatuses"}

LEMMA TablesStay ==
  ASSUME UNCHANGED <<policies, season, status>>
  PROVE  /\ ChangesStay
         /\ DOMAIN status = Statuses => DOMAIN status' = Statuses
         /\ season.edition \in Nat => season'.edition \in Nat
BY DEF ChangesStay

LEMMA ServedQuietly ==
  ASSUME ReportInv, NEW i \in DOMAIN calls, UNCHANGED <<policies, season, status, picker>>,
         calls[i].op \notin Telling, calls[i].phase # "over", NEW d,
         Done(i, d) \/ Refused(i) \/ Began(i, d)
  PROVE  ReportInv'
<1>1. ChangesStay /\ DOMAIN status' = Statuses /\ season'.edition \in Nat /\ PickerOK'
  BY TablesStay DEF ReportInv, PickerOK
<1>2. RepliesOK'
  <2>1. CASE Done(i, d) \/ Refused(i)
    <3>1. PICK k \in BOOLEAN : \E e : Answer(i, k, e)
      BY <2>1 DEF Done, Refused, RefusedAs
    <3>2. \A o, a, e : o \notin Telling => Held(o, a, e)'
      BY DEF Held, Telling
    <3> QED
      BY <1>1, <3>1, <3>2, ReplyAnswered DEF ReportInv
  <2>2. CASE Began(i, d)
    BY <1>1, <2>2, ReplyChanged DEF Began, ReportInv
  <2> QED
    BY <2>1, <2>2
<1> QED
  BY <1>1, <1>2 DEF ReportInv

LEMMA ReportRefused ==
  ASSUME ReportInv, NEW i \in DOMAIN calls, UNCHANGED <<policies, season, status, picker>>,
         calls[i].phase # "over", Refused(i)
  PROVE  ReportInv'
<1>1. ChangesStay /\ DOMAIN status' = Statuses /\ season'.edition \in Nat /\ PickerOK'
  BY TablesStay DEF ReportInv, PickerOK
<1> QED
  BY <1>1, ReplyAnswered DEF ReportInv, Refused, RefusedAs

LEMMA PolicyServed ==
  ASSUME ReportInv, NEW i \in DOMAIN calls, ServeCreatePolicy(i)
  PROVE  ReportInv'
<1>0. calls[i].op = "createPolicy" /\ calls[i].phase # "over"
  BY DEF ServeCreatePolicy, Waits
<1>1. CASE policies = Policies /\ Refused(i) /\ UNCHANGED policies
  BY <1>0, <1>1, ReportRefused DEF ServeCreatePolicy, scoringView
<1>2. ASSUME NEW p \in Policies \ policies, policies' = policies \cup {p} /\ Done(i, p)
      PROVE  ReportInv'
  <2>1. ChangesStay /\ DOMAIN status' = Statuses /\ season'.edition \in Nat /\ PickerOK'
    BY <1>2 DEF ServeCreatePolicy, scoringView, ReportInv, PickerOK, ChangesStay
  <2>2. \A a : Held("createPolicy", a, p)'
    BY <1>2 DEF Held
  <2> QED
    BY <1>0, <1>2, <2>1, <2>2, ReplyAnswered DEF ReportInv, Done
<1> QED
  BY <1>1, <1>2 DEF ServeCreatePolicy

LEMMA SeasonServed ==
  ASSUME ReportInv, NEW i \in DOMAIN calls, ServeAssignSeason(i)
  PROVE  ReportInv'
<1>0. calls[i].op = "assignSeason" /\ calls[i].phase # "over"
  BY DEF ServeAssignSeason, Waits
<1>1. CASE Refused(i) /\ UNCHANGED season
  BY <1>0, <1>1, ReportRefused DEF ServeAssignSeason, scoringView
<1>2. ASSUME ~(Refused(i) /\ UNCHANGED season)
      PROVE  ReportInv'
  <2>1. PICK x : /\ x = [policy |-> calls[i].arg.policy, from |-> calls[i].arg.from,
                         edition |-> season.edition + 1]
                 /\ season' = x /\ Done(i, x)
    BY <1>2 DEF ServeAssignSeason
  <2>2. season'.edition = season.edition + 1 /\ season'.edition \in Nat
    BY <2>1 DEF ReportInv
  <2>3. \A m : Kept(season, m) => Kept(season', m)
    BY <2>2 DEF Kept, Holds, ReportInv
  <2>4. ChangesStay /\ DOMAIN status' = Statuses /\ PickerOK'
    BY <2>3 DEF ServeAssignSeason, scoringView, ReportInv, PickerOK, ChangesStay
  <2>5. \A a : Held("assignSeason", a, x)'
    BY <2>1, <2>2 DEF Held, Kept, Holds
  <2> QED
    BY <1>0, <2>1, <2>2, <2>4, <2>5, ReplyAnswered DEF ReportInv, Done
<1> QED
  BY <1>1, <1>2 DEF ServeAssignSeason

LEMMA StatusServed ==
  ASSUME ReportInv, NEW i \in DOMAIN calls, ServeAssignStatus(i) \/ ServeRetireStatus(i)
  PROVE  ReportInv'
<1> DEFINE p == calls[i].arg.person
<1>0. /\ calls[i].op \in {"assignStatus", "retireStatus"} /\ calls[i].phase # "over"
      /\ calls[i].op = "retireStatus" => calls[i].arg.id \in Statuses
      /\ ServeRetireStatus(i) => calls[i].op = "retireStatus"
      /\ UNCHANGED <<policies, season, picker>>
  BY DEF ServeAssignStatus, ServeRetireStatus, Waits, ReportInv, RepliesOK, ReplyOK, Promised, scoringView
<1>1. CASE Refused(i) /\ UNCHANGED status
  BY <1>0, <1>1, ReportRefused
<1>2. ASSUME ~(Refused(i) /\ UNCHANGED status)
      PROVE  ReportInv'
  <2>1. PICK s \in Statuses, x \in {"ACTIVE", "RETIRED"} :
          /\ StatusOf[s] = p /\ status' = [status EXCEPT ![s] = x] /\ Done(i, s)
          /\ calls[i].op = "retireStatus" => x = "RETIRED"
          /\ x = "ACTIVE" => status[s] = "ABSENT"
    <3>1. CASE ServeAssignStatus(i)
      BY <1>2, <3>1 DEF ServeAssignStatus, Waits
    <3>2. CASE ServeRetireStatus(i)
      BY <1>0, <1>2, <3>2 DEF ServeRetireStatus, Waits
    <3> QED
      BY <3>1, <3>2
  <2>2. /\ DOMAIN status' = Statuses /\ status'[s] = x
        /\ \A t \in Statuses : t # s => status'[t] = status[t]
    BY <2>1 DEF ReportInv
  <2>3. \A t \in Statuses : status[t] \in {"ACTIVE", "RETIRED"} => status'[t] \in {status[t], "RETIRED"}
    BY <2>1, <2>2
  <2>4. ChangesStay /\ PickerOK' /\ season'.edition \in Nat
    BY <1>0, <2>3 DEF ChangesStay, ReportInv, PickerOK
  <2>5. PICK o, a : o = calls[i].op /\ a = calls[i].arg
    OBVIOUS
  <2>6. Held(o, a, s)'
    BY <1>0, <2>1, <2>2, <2>5 DEF Held, Made
  <2> QED
    BY <1>0, <2>1, <2>2, <2>4, <2>5, <2>6, ReplyAnswered DEF ReportInv, Done
<1> QED
  BY <1>1, <1>2 DEF ServeAssignStatus, ServeRetireStatus

LEMMA ListsServed ==
  ASSUME ReportInv, NEW i \in DOMAIN calls, ServeReferences(i) \/ ServeStatuses(i)
  PROVE  ReportInv'
<1>1. PICK o, a : o = calls[i].op /\ a = calls[i].arg
  OBVIOUS
<1>2. /\ UNCHANGED <<policies, season, status, picker>> /\ calls[i].phase # "over"
      /\ Promised(o, a)
  BY <1>1 DEF ServeReferences, ServeStatuses, Waits, scoringVars, scoringServer, scoringView,
              ReportInv, RepliesOK, ReplyOK
<1>3. ChangesStay /\ DOMAIN status' = Statuses /\ season'.edition \in Nat /\ PickerOK'
  BY <1>2, TablesStay DEF ReportInv, PickerOK
<1>4. PICK d : Done(i, d) /\ Held(o, a, d)'
  <2>1. CASE ServeReferences(i)
    <3>1. PICK d : d = [policies |-> policies, season |-> season]
      OBVIOUS
    <3>2. o = "references" /\ Done(i, d)
      BY <1>1, <2>1, <3>1 DEF ServeReferences, Waits
    <3>3. Shows(a, d.policies, d.season)
      BY <1>2, <3>1, <3>2 DEF Promised
    <3>4. Held(o, a, d)'
      BY <3>2, <3>3 DEF Held, Shows
    <3> QED
      BY <3>2, <3>4
  <2>2. CASE ServeStatuses(i)
    <3>1. PICK d : d = StatusRows(a.person)
      OBVIOUS
    <3>2. o = "listStatuses" /\ Done(i, d)
      BY <1>1, <2>2, <3>1 DEF ServeStatuses, Waits
    <3>3. a.after # "chosen" => /\ Made(a.after, a.made)
                                /\ [id |-> a.made, state |-> status[a.made]] \in d
      BY <1>2, <3>1, <3>2 DEF Promised, Made, StatusRows
    <3>4. RowShows(a.after, a.made, d)
      BY <3>3 DEF RowShows, Made
    <3>5. Held(o, a, d)'
      BY <1>2, <3>2, <3>4 DEF Held, RowShows
    <3> QED
      BY <3>2, <3>5
  <2> QED
    BY <2>1, <2>2
<1> QED
  BY <1>1, <1>2, <1>3, <1>4, ReplyAnswered DEF ReportInv, Done

LEMMA ServesAnswer ==
  ASSUME NEW i \in DOMAIN calls, ScoringServes(i)
  PROVE  /\ calls[i].phase \in {"sent", "open"}
         /\ \E d : Done(i, d) \/ RefusedAs(i, d) \/ Refused(i) \/ Began(i, d)
<1>1. CASE \/ ServeReferences(i) \/ ServePublishable(i) \/ ServeCreatePolicy(i)
           \/ ServeVersions(i) \/ ServeVersion(i) \/ ServeCreateVersion(i) \/ ServeSaveVersion(i)
  BY <1>1 DEF ServeReferences, ServePublishable, ServeCreatePolicy, ServeVersions, ServeVersion,
              ServeCreateVersion, ServeSaveVersion, Waits
<1>2. CASE ProbePublish(i) \/ ServePublish(i) \/ ProbeRetire(i) \/ ServeRetire(i)
  BY <1>2 DEF ProbePublish, ServePublish, ProbeRetire, ServeRetire, Waits, IsOpen
<1>3. CASE ServeAssignSeason(i) \/ BeginAward(i) \/ ServeAward(i) \/ ServeMoveEvent(i)
  BY <1>3 DEF ServeAssignSeason, BeginAward, ServeAward, ServeMoveEvent, Waits, IsOpen
<1>4. CASE \/ ServePeople(i) \/ ServeAssignStatus(i) \/ ServeRetireStatus(i) \/ ServeStatuses(i)
           \/ ServeParticipations(i) \/ ServePreview(i)
  BY <1>4 DEF ServePeople, ServeAssignStatus, ServeRetireStatus, ServeStatuses, ServeParticipations,
              ServePreview, Waits
<1> QED
  BY <1>1, <1>2, <1>3, <1>4 DEF ScoringServes

LEMMA ReportServeKeeps ==
  ASSUME ReportInv, NEW i \in DOMAIN calls, ScoringServes(i)
  PROVE  ReportInv' /\ Reports
<1> SUFFICES ReportInv' /\ UNCHANGED notice
  BY ServesAnswer, AnswerHeard, NothingReported DEF ReportInv, RepliesOK
<1>1. CASE ServePublishable(i) \/ ServeVersions(i) \/ ServeVersion(i) \/ ServePeople(i)
           \/ ServeParticipations(i) \/ ServePreview(i) \/ ProbePublish(i) \/ ProbeRetire(i)
           \/ BeginAward(i)
  <2>1. /\ calls[i].op \notin Telling /\ calls[i].phase # "over"
        /\ UNCHANGED <<policies, season, status, picker, notice>>
        /\ \E d : Done(i, d) \/ Refused(i) \/ Began(i, d)
    BY <1>1 DEF ServePublishable, ServeVersions, ServeVersion, ServePeople, ServeParticipations,
       ServePreview, ProbePublish, ProbeRetire, BeginAward, Waits, Telling, scoringVars,
       scoringServer, scoringView
  <2> QED
    BY <2>1, ServedQuietly
<1>2. CASE ServeCreateVersion(i) \/ ServeSaveVersion(i) \/ ServePublish(i) \/ ServeRetire(i)
           \/ ServeAward(i) \/ ServeMoveEvent(i)
  <2>1. /\ calls[i].op \notin Telling /\ calls[i].phase # "over"
        /\ UNCHANGED <<policies, season, status, picker, notice>>
    BY <1>2 DEF ServeCreateVersion, ServeSaveVersion, ServePublish, ServeRetire, ServeAward,
       ServeMoveEvent, Waits, IsOpen, Telling, scoringView
  <2>2. Done(i, Null) \/ Refused(i)
    BY <1>2 DEF ServeCreateVersion, ServeSaveVersion, ServePublish, ServeRetire, ServeAward,
       ServeMoveEvent
  <2> QED
    BY <2>1, <2>2, ServedQuietly
<1>3. CASE ServeCreatePolicy(i) \/ ServeAssignSeason(i) \/ ServeAssignStatus(i) \/ ServeRetireStatus(i)
  BY <1>3, PolicyServed, SeasonServed, StatusServed
     DEF ServeCreatePolicy, ServeAssignSeason, ServeAssignStatus, ServeRetireStatus
<1>4. CASE ServeReferences(i) \/ ServeStatuses(i)
  BY <1>4, ListsServed DEF ServeReferences, ServeStatuses
<1> QED
  BY <1>1, <1>2, <1>3, <1>4 DEF ScoringServes

-----------------------------------------------------------------------------
(* The page. *)
\* A change of the picker keeps its fields.
Shaped(pk) == DOMAIN pk = Panels /\ \A k \in Panels : DOMAIN pk[k] = DOMAIN NoOneChosen

LEMMA PageReports ==
  ASSUME ReportInv, UNCHANGED <<policies, season, status>>, Shaped(picker'), RepliesOK'
  PROVE  ReportInv'
BY TablesStay DEF ReportInv, PickerOK, Shaped

LEMMA PageSends ==
  ASSUME ReportInv, UNCHANGED scoringServer, Shaped(picker'), NEW o, NEW a, Promised(o, a),
         calls' = Append(calls, Call(o, a)) \/ calls' = Append(calls, OthersCall(o, a))
  PROVE  ReportInv' /\ NobodyHears
<1>1. UNCHANGED <<policies, season, status>>
  BY DEF scoringServer
<1>2. RepliesOK'
  BY <1>1, TablesStay, ReplySent DEF ReportInv
<1>3. NobodyHears
  BY CallHeard DEF ReportInv, RepliesOK
<1> QED
  BY <1>1, <1>2, <1>3, PageReports

LEMMA PageTakes ==
  ASSUME ReportInv, UNCHANGED scoringServer, Shaped(picker'), NEW i \in DOMAIN calls, calls' = Over(i)
  PROVE  ReportInv' /\ OnlyHears(i) /\ calls'[i].phase = "over"
<1>1. UNCHANGED <<policies, season, status>>
  BY DEF scoringServer
<1>2. RepliesOK' /\ calls'[i].phase = "over"
  BY <1>1, TablesStay, ReplyTaken DEF ReportInv
<1>3. OnlyHears(i)
  BY TakingHears DEF ReportInv, RepliesOK
<1> QED
  BY <1>1, <1>2, <1>3, PageReports

LEMMA PageGoesOn ==
  ASSUME ReportInv, UNCHANGED scoringServer, Shaped(picker'), NEW i \in DOMAIN calls,
         NEW o, NEW a, Promised(o, a), calls' = Append(Over(i), Call(o, a))
  PROVE  ReportInv' /\ OnlyHears(i)
<1>1. UNCHANGED <<policies, season, status>>
  BY DEF scoringServer
<1>2. RepliesOK'
  BY <1>1, TablesStay, ReplyGoesOn DEF ReportInv
<1>3. OnlyHears(i)
  BY TakingHears DEF ReportInv, RepliesOK
<1> QED
  BY <1>1, <1>2, <1>3, PageReports

\* Requests that promise nothing.
Plain(o) == o \notin {"references", "publishable", "listStatuses", "retireStatus"}

LEMMA PlainPromise == \A o, a : Plain(o) => Promised(o, a)
BY DEF Plain, Promised

LEMMA RowsShown ==
  ASSUME Shaped(picker)
  PROVE  /\ \A k \in Panels : \A v : Shaped([picker EXCEPT ![k].rows = v])
         /\ \A v : [picker EXCEPT !["statuses"].rows = v]["statuses"].rows = v
         /\ \A k \in Panels : \A v : Shaped([picker EXCEPT ![k].found = v])
         /\ \A k \in Panels : \A v : Shaped([picker EXCEPT ![k].adding = v])
         /\ \A k \in Panels : \A v : Shaped([picker EXCEPT ![k].outcome = v])
         /\ \A k \in Panels : \A v, w : Shaped([picker EXCEPT ![k].play = v, ![k].outcome = w])
         /\ \A k \in Panels : \A v : Shaped([picker EXCEPT ![k] = [NoOneChosen EXCEPT !.found = v]])
         /\ \A k \in Panels : \A v : Shaped([picker EXCEPT ![k] =
              [@ EXCEPT !.person = v, !.adding = FALSE, !.play = Null, !.outcome = Null]])
<1>1. "statuses" \in Panels
  BY DEF Panels
<1>2. DOMAIN NoOneChosen = {"found", "person", "rows", "adding", "play", "outcome"}
  BY DEF NoOneChosen
<1>3. \A k \in Panels : DOMAIN picker[k] = {"found", "person", "rows", "adding", "play", "outcome"}
  BY <1>2 DEF Shaped
<1>4. \A k \in Panels : \A v : Shaped([picker EXCEPT ![k].rows = v])
  BY <1>2, <1>3 DEF Shaped
<1>5. \A v : [picker EXCEPT !["statuses"].rows = v]["statuses"].rows = v
  BY <1>1, <1>2, <1>3 DEF Shaped
<1>6. \A k \in Panels : \A v : Shaped([picker EXCEPT ![k].found = v])
  BY <1>2, <1>3 DEF Shaped
<1>7. \A k \in Panels : \A v : Shaped([picker EXCEPT ![k].adding = v])
  BY <1>2, <1>3 DEF Shaped
<1>8. \A k \in Panels : \A v : Shaped([picker EXCEPT ![k].outcome = v])
  BY <1>2, <1>3 DEF Shaped
<1>9. \A k \in Panels : \A v, w : Shaped([picker EXCEPT ![k].play = v, ![k].outcome = w])
  BY <1>2, <1>3 DEF Shaped
<1>10. \A k \in Panels : \A v : Shaped([picker EXCEPT ![k] = [NoOneChosen EXCEPT !.found = v]])
  <2>1. \A v : DOMAIN [NoOneChosen EXCEPT !.found = v] = DOMAIN NoOneChosen
    BY DEF NoOneChosen
  <2> QED
    BY <2>1 DEF Shaped
<1>11. \A k \in Panels : \A v : Shaped([picker EXCEPT ![k] =
         [@ EXCEPT !.person = v, !.adding = FALSE, !.play = Null, !.outcome = Null]])
  BY <1>2, <1>3 DEF Shaped
<1> QED
  BY <1>4, <1>5, <1>6, <1>7, <1>8, <1>9, <1>10, <1>11

LEMMA ReportRecalls ==
  ASSUME ReportInv, NEW i \in DOMAIN calls
  PROVE  /\ calls[i].phase # "over" => Promised(calls[i].op, calls[i].arg)
         /\ calls[i].phase = "done" /\ calls[i].ok => Held(calls[i].op, calls[i].arg, calls[i].data)
BY DEF ReportInv, RepliesOK, ReplyOK

\* The replies that say nothing new, and those after which the page asks on.
LEMMA ListsArrive ==
  ASSUME ReportInv, NEW i \in DOMAIN calls,
         LookUpVersions(i) \/ PolicyCreated(i) \/ SeasonAssigned(i) \/ StatusChanged(i)
  PROVE  ReportInv' /\ Reports
<1> DEFINE c == calls[i]
<1>0. /\ UNCHANGED <<scoringServer, notice>> /\ Shaped(picker)
      /\ c.op \notin ReportOps \/ (c.op = "references" /\ c.ok)
  BY DEF LookUpVersions, PolicyCreated, SeasonAssigned, StatusChanged, scoringVars, ReportInv, PickerOK,
         Shaped, Answered, ReportOps
<1> SUFFICES ReportInv' /\ OnlyHears(i)
  BY <1>0, NothingReported
<1>1. CASE LookUpVersions(i)
  <2>1. Shows(c.arg, policies, season) /\ Shows(c.arg, c.data.policies, c.data.season)
    BY <1>1, ReportRecalls DEF LookUpVersions, Answered, Promised, Held
  <2>2. PICK a : a = [after |-> c.arg.after, made |-> c.arg.made, lists |-> c.data]
    OBVIOUS
  <2>3. Promised("publishable", a)
    BY <2>1, <2>2 DEF Promised, Shows
  <2> QED
    BY <1>0, <1>1, <2>2, <2>3, PageGoesOn DEF LookUpVersions, scoringVars, scoringView
<1>2. CASE PolicyCreated(i)
  <2>1. c.data \in policies
    BY <1>2, ReportRecalls DEF PolicyCreated, Answered, Held
  <2>2. PICK a : a = [after |-> "created", made |-> c.data]
    OBVIOUS
  <2>3. Promised("references", a)
    BY <2>1, <2>2 DEF Promised, Shows
  <2> QED
    BY <1>0, <1>2, <2>2, <2>3, PageGoesOn DEF PolicyCreated, Reload, scoringVars, scoringView
<1>3. CASE SeasonAssigned(i)
  <2>1. Kept(season, c.data)
    BY <1>3, ReportRecalls DEF SeasonAssigned, Answered, Held
  <2>2. PICK a : a = [after |-> "assigned", made |-> c.data]
    OBVIOUS
  <2>3. Promised("references", a)
    BY <2>1, <2>2 DEF Promised, Shows
  <2> QED
    BY <1>0, <1>3, <2>2, <2>3, PageGoesOn DEF SeasonAssigned, Reload
<1>4. CASE StatusChanged(i)
  <2>1. /\ c.op \in {"assignStatus", "retireStatus"}
        /\ Made(c.op, c.data) /\ StatusOf[c.data] = c.arg.person
    BY <1>4, ReportRecalls DEF StatusChanged, Answered, Held
  <2>2. PICK a : a = [person |-> c.arg.person, after |-> c.op, made |-> c.data]
    OBVIOUS
  <2>3. Promised("listStatuses", a)
    BY <2>1, <2>2 DEF Promised
  <2>4. Shaped(picker')
    BY <1>0, <1>4, RowsShown DEF StatusChanged, Panels
  <2> QED
    BY <1>0, <1>4, <2>2, <2>3, <2>4, PageGoesOn DEF StatusChanged
<1> QED
  BY <1>1, <1>2, <1>3, <1>4

\* The replies that the page reports.
LEMMA ListsReported ==
  ASSUME ReportInv, NEW i \in DOMAIN calls, CommitReferences(i) \/ ShowStatuses(i)
  PROVE  ReportInv' /\ Reports
<1> DEFINE c == calls[i]
<1>0. UNCHANGED scoringServer /\ Shaped(picker) /\ calls' = Over(i) /\ c.phase = "done" /\ c.ok
  BY DEF CommitReferences, ShowStatuses, Answered, ReportInv, PickerOK, Shaped
<1>1. CASE CommitReferences(i)
  <2>1. c.op = "publishable" /\ Shows(c.arg, c.arg.lists.policies, c.arg.lists.season)
    BY <1>1, ReportRecalls DEF CommitReferences, Answered, Promised
  <2>2. ReportInv' /\ OnlyHears(i) /\ Heard(i)
    BY <1>0, <1>1, PageTakes DEF CommitReferences, Heard
  <2>3. refs'.policies = c.arg.lists.policies /\ refs'.season = c.arg.lists.season
    BY <1>1 DEF CommitReferences
  <2>4. notice' = IF c.arg.after = "mount" THEN notice ELSE c.arg.after
    BY <1>1 DEF CommitReferences
  <2>5. c.arg.after # "mount" => Reported(i)
    BY <1>0, <2>1, <2>3, <2>4 DEF Reported, OnPage, Shows, Kept
  <2> QED
    BY <2>1, <2>2, <2>4, <2>5 DEF Reports, Shows, LoadEnds, OnlyHears, Successes
<1>2. CASE ShowStatuses(i)
  <2>1. /\ c.op = "listStatuses" /\ c.arg.after \in {"chosen", "assignStatus", "retireStatus"}
        /\ RowShows(c.arg.after, c.arg.made, c.data)
    BY <1>2, ReportRecalls DEF ShowStatuses, Answered, Promised, Held
  <2>2. "statuses" \in Panels /\ picker' = [picker EXCEPT !["statuses"].rows = c.data]
    BY <1>2 DEF ShowStatuses, Panels
  <2>3. Shaped(picker') /\ picker'["statuses"].rows = c.data
    BY <1>0, <2>2, RowsShown
  <2>4. notice' = IF c.arg.after = "chosen" THEN notice ELSE c.arg.after
    BY <1>2 DEF ShowStatuses
  <2>5. ReportInv' /\ OnlyHears(i) /\ Heard(i)
    BY <1>0, <2>3, PageTakes DEF Heard
  <2>6. c.arg.after # "chosen" => Reported(i)
    BY <1>0, <2>1, <2>3, <2>4 DEF Reported, OnPage, RowShows
  <2> QED
    BY <2>1, <2>4, <2>5, <2>6 DEF Reports, LoadEnds, OnlyHears, Successes
<1> QED
  BY <1>1, <1>2

\* A list that did not come: the page says so, and the change stands.
LEMMA ListsMissed ==
  ASSUME ReportInv, NEW i \in DOMAIN calls, ReferencesFail(i) \/ StatusesFail(i)
  PROVE  ReportInv' /\ Reports
<1> DEFINE c == calls[i]
<1>0. /\ UNCHANGED scoringServer /\ UNCHANGED picker /\ Shaped(picker') /\ calls' = Over(i)
      /\ c.phase = "done" /\ ~c.ok /\ notice' \in {"error", "stale"}
  BY DEF ReferencesFail, StatusesFail, Failed, ReportInv, PickerOK, Shaped, scoringVars, scoringView
<1>1. ReportInv' /\ OnlyHears(i)
  BY <1>0, PageTakes
<1>2. ASSUME LoadEnds(i) PROVE Reported(i)
  <2>1. CASE ReferencesFail(i)
    <3>1. Shows(c.arg, policies, season) /\ c.arg.after \in Successes
      BY <1>2, <2>1, ReportRecalls DEF ReferencesFail, Failed, Promised, LoadEnds
    <3>2. notice' = "stale"
      BY <2>1, <3>1 DEF ReferencesFail, Successes
    <3> QED
      BY <1>0, <3>1, <3>2 DEF Reported, OnServer, Shows, Kept, Successes
  <2>2. CASE StatusesFail(i)
    <3>1. /\ c.arg.after \in {"assignStatus", "retireStatus"} /\ Made(c.arg.after, c.arg.made)
      BY <1>2, <2>2, ReportRecalls DEF StatusesFail, Failed, Promised, LoadEnds, Successes
    <3>2. notice' = "stale"
      BY <2>2, <3>1 DEF StatusesFail
    <3> QED
      BY <1>0, <3>1, <3>2 DEF Reported, OnServer, Made
  <2> QED
    BY <2>1, <2>2
<1> QED
  BY <1>0, <1>1, <1>2 DEF Reports, LoadEnds, OnlyHears, Successes

LEMMA ReportReceiveKeeps ==
  ASSUME ReportInv, NEW i \in DOMAIN calls, ScoringReceives(i)
  PROVE  ReportInv' /\ Reports
<1>0. Shaped(picker) /\ "simulator" \in Panels
  BY DEF ReportInv, PickerOK, Shaped, Panels
<1>1. CASE ChangeFails(i)
  <2>1. /\ UNCHANGED scoringServer /\ UNCHANGED picker /\ calls' = Over(i)
        /\ notice' \notin Successes /\ calls[i].op \notin ReportOps
    BY <1>1 DEF ChangeFails, scoringVars, scoringView, Failed, Successes, ReportOps
  <2> QED
    BY <1>0, <2>1, PageTakes, NothingReported
<1>2. CASE ShowVersions(i) \/ ShowVersion(i) \/ EditorFails(i)
  <2>1. UNCHANGED <<scoringServer, picker, notice>> /\ calls' = Over(i) /\ calls[i].op \notin ReportOps
    BY <1>2 DEF ShowVersions, ShowVersion, EditorFails, Answered, Failed, ReportOps
  <2>2. UNCHANGED scoringServer /\ UNCHANGED picker
    BY <2>1
  <2> QED
    BY <1>0, <2>1, <2>2, PageTakes, NothingReported
<1>3. CASE EditorSaved(i)
  <2>1. UNCHANGED scoringServer /\ UNCHANGED picker /\ UNCHANGED notice /\ calls[i].op \notin ReportOps
    BY <1>3 DEF EditorSaved, Answered, ReportOps
  <2>2. \A a : Promised("versions", a)
    BY PlainPromise DEF Plain
  <2> QED
    BY <1>0, <1>3, <2>1, <2>2, PageGoesOn, NothingReported DEF EditorSaved
<1>4. CASE ShowPeople(i)
  <2>1. UNCHANGED scoringServer /\ calls' = Over(i) /\ UNCHANGED notice /\ calls[i].op \notin ReportOps
    BY <1>4 DEF ShowPeople, Answered, ReportOps
  <2>2. Shaped(picker')
    <3>1. CASE calls[i].arg \in Panels
      BY <1>0, <1>4, <3>1, RowsShown DEF ShowPeople
    <3>2. CASE calls[i].arg \notin Panels
      BY <1>0, <1>4, <3>2 DEF ShowPeople, Shaped
    <3> QED
      BY <3>1, <3>2
  <2> QED
    BY <2>1, <2>2, PageTakes, NothingReported
<1>5. CASE ShowParticipations(i) \/ ShowPreview(i)
  <2>1. UNCHANGED scoringServer /\ calls' = Over(i) /\ UNCHANGED notice /\ calls[i].op \notin ReportOps
    BY <1>5 DEF ShowParticipations, ShowPreview, Answered, Failed, ReportOps
  <2>2. \E v : \/ picker' = [picker EXCEPT !["simulator"].rows = v]
              \/ picker' = [picker EXCEPT !["simulator"].outcome = v]
    BY <1>5 DEF ShowParticipations, ShowPreview
  <2>3. "simulator" \in Panels
    BY DEF Panels
  <2>4. /\ \A v : Shaped([picker EXCEPT !["simulator"].rows = v])
        /\ \A v : Shaped([picker EXCEPT !["simulator"].outcome = v])
    BY <1>0, <2>3, RowsShown
  <2>5. Shaped(picker')
    BY <2>2, <2>4
  <2> QED
    BY <2>1, <2>5, PageTakes, NothingReported
<1> QED
  BY <1>1, <1>2, <1>3, <1>4, <1>5, ListsArrive, ListsReported, ListsMissed DEF ScoringReceives

LEMMA ReportOtherKeeps ==
  ASSUME ReportInv, OtherScoring
  PROVE  ReportInv' /\ Reports
<1>0. UNCHANGED scoringServer /\ UNCHANGED picker /\ UNCHANGED notice /\ Shaped(picker)
  BY DEF OtherScoring, scoringVars, scoringView, ReportInv, PickerOK, Shaped
<1>1. PICK o, a : Promised(o, a) /\ calls' = Append(calls, OthersCall(o, a))
  <2>1. \A x : Promised("saveVersion", x) /\ Promised("publish", x) /\ Promised("retireVersion", x)
               /\ Promised("assignStatus", x) /\ Promised("award", x) /\ Promised("moveEvent", x)
               /\ Promised("assignSeason", x)
    BY PlainPromise DEF Plain
  <2>2. \A s \in Statuses : \A x : x.id = s => Promised("retireStatus", x)
    BY DEF Promised
  <2>3. CASE \E v \in Versions :
               \/ \E sound \in BOOLEAN :
                    calls' = Append(calls, OthersCall("saveVersion", [id |-> v, sound |-> sound]))
               \/ \E span \in Periods :
                    calls' = Append(calls, OthersCall("publish", [id |-> v, span |-> span]))
               \/ calls' = Append(calls, OthersCall("retireVersion", [id |-> v]))
    BY <2>1, <2>3
  <2>4. CASE \E s \in Statuses :
               calls' = Append(calls, OthersCall("assignStatus", [person |-> StatusOf[s]]))
    BY <2>1, <2>4
  <2>5. CASE \E s \in Statuses :
               calls' = Append(calls, OthersCall("retireStatus", [person |-> StatusOf[s], id |-> s]))
    <3>1. PICK s, x : /\ s \in Statuses /\ x = [person |-> StatusOf[s], id |-> s]
                     /\ calls' = Append(calls, OthersCall("retireStatus", x))
      BY <2>5
    <3>2. x.id = s
      BY <3>1
    <3> QED
      BY <2>2, <3>1, <3>2
  <2>6. CASE \/ \E e \in ScoredEvents : calls' = Append(calls, OthersCall("award", e))
             \/ \E e \in ScoredEvents, t \in Instants :
                  calls' = Append(calls, OthersCall("moveEvent", [event |-> e, to |-> t]))
             \/ \E p \in policies, t \in Instants :
                  calls' = Append(calls, OthersCall("assignSeason", [policy |-> p, from |-> t]))
             \/ calls' = Append(calls, OthersCall("assignSeason", [policy |-> Null, from |-> 0]))
    BY <2>1, <2>6
  <2> QED
    BY <2>3, <2>4, <2>5, <2>6 DEF OtherScoring
<1>2. ReportInv' /\ NobodyHears
  BY <1>0, <1>1, PageSends
<1> QED
  BY <1>0, <1>2, NothingReported

LEMMA ReportClickKeeps ==
  ASSUME ReportInv, ScoringClicks
  PROVE  ReportInv' /\ Reports
<1>0. Shaped(picker) /\ "statuses" \in Panels /\ "simulator" \in Panels
  BY DEF ReportInv, PickerOK, Shaped, Panels
<1>1. UNCHANGED scoringServer /\ (notice' = notice \/ notice' = "none")
  BY DEF ScoringClicks, CreatePolicy, NewDraft, EditValues, CloseEditor, SaveVersion,
         RetireVersion, OpenSeasonForm, CloseSeasonForm, AssignStatus, Calculate, OpenPolicy,
         AssignSeason, OpenVersion, PublishVersion, SearchPeople, ClearPerson, SelectPerson,
         OpenStatusForm, RetireStatus, SelectPlay, EditorCall, scoringVars, shell
<1>2. ASSUME UNCHANGED calls, Shaped(picker') PROVE ReportInv' /\ NobodyHears
  BY <1>1, <1>2, TablesStay, PromisesStay, CallHeard
     DEF ReportInv, PickerOK, Shaped, RepliesOK, CallsTyped, scoringServer
<1>3. ASSUME NEW o, NEW a, calls' = Append(calls, Call(o, a)), Promised(o, a), Shaped(picker')
      PROVE  ReportInv' /\ NobodyHears
  BY <1>1, <1>3, PageSends
<1>4. ASSUME NEW o, NEW a, calls' = Append(calls, Call(o, a)), Plain(o), UNCHANGED picker
      PROVE  ReportInv' /\ NobodyHears
  BY <1>0, <1>3, <1>4, PlainPromise
<1>5. ASSUME NewDraft \/ EditValues \/ CloseEditor \/ OpenSeasonForm \/ CloseSeasonForm
      PROVE  ReportInv' /\ NobodyHears
  <2>1. UNCHANGED calls /\ UNCHANGED picker
    BY <1>5 DEF NewDraft, EditValues, CloseEditor, OpenSeasonForm, CloseSeasonForm, shell
  <2> QED
    BY <1>0, <1>2, <2>1
<1>6. ASSUME \/ CreatePolicy \/ SaveVersion \/ AssignStatus \/ RetireVersion
             \/ \E p \in Policies : OpenPolicy(p)
             \/ \E v \in Versions : OpenVersion(v)
             \/ \E span \in Periods : PublishVersion(span)
             \/ \E k \in Panels : SearchPeople(k)
      PROVE  ReportInv' /\ NobodyHears
  <2>1. UNCHANGED picker
    BY <1>6 DEF CreatePolicy, SaveVersion, AssignStatus, RetireVersion, OpenPolicy, OpenVersion,
       PublishVersion, SearchPeople, EditorCall, scoringVars, scoringView
  <2>2. PICK o \in {"createPolicy", "createVersion", "saveVersion", "assignStatus", "retireVersion",
                   "versions", "version", "publish", "people"} :
          \E a : calls' = Append(calls, Call(o, a))
    BY <1>6 DEF CreatePolicy, SaveVersion, AssignStatus, RetireVersion, OpenPolicy, OpenVersion,
       PublishVersion, SearchPeople, EditorCall
  <2>3. Plain(o)
    BY <2>2 DEF Plain
  <2> QED
    BY <1>4, <2>1, <2>2, <2>3
<1>7. ASSUME NEW p \in Policies, NEW t \in Instants, AssignSeason(p, t) PROVE ReportInv' /\ NobodyHears
  <2>1. PICK a : a = [policy |-> p, from |-> t]
    OBVIOUS
  <2>2. Promised("assignSeason", a)
    BY PlainPromise DEF Plain
  <2> QED
    BY <1>0, <1>3, <1>7, <2>1, <2>2 DEF AssignSeason, scoringVars, scoringView
<1>8. ASSUME NEW s \in Statuses, RetireStatus(s) PROVE ReportInv' /\ NobodyHears
  <2>1. PICK a : a = [person |-> picker["statuses"].person, id |-> s]
    OBVIOUS
  <2>2. Promised("retireStatus", a)
    BY <2>1 DEF Promised
  <2> QED
    BY <1>0, <1>3, <1>8, <2>1, <2>2 DEF RetireStatus, scoringVars, scoringView
<1>9. ASSUME NEW k \in Panels, ClearPerson(k) PROVE ReportInv' /\ NobodyHears
  <2>1. UNCHANGED calls
    BY <1>9 DEF ClearPerson, shell
  <2>2. PICK v : picker' = [picker EXCEPT ![k] = [NoOneChosen EXCEPT !.found = v]]
    BY <1>9 DEF ClearPerson
  <2> QED
    BY <1>0, <1>2, <2>1, <2>2, RowsShown
<1>10. ASSUME NEW k \in Panels, NEW p \in People, SelectPerson(k, p) PROVE ReportInv' /\ NobodyHears
  <2>1. picker' = [picker EXCEPT ![k] = [@ EXCEPT !.person = p, !.adding = FALSE,
                                                  !.play = Null, !.outcome = Null]]
    BY <1>10 DEF SelectPerson
  <2>2. Shaped(picker')
    BY <1>0, <2>1, RowsShown
  <2>3. PICK a : a = [person |-> p, after |-> "chosen", made |-> Null]
    OBVIOUS
  <2>4. Promised("listStatuses", a) /\ Promised("participations", p)
    BY <2>3, PlainPromise DEF Promised, Plain
  <2> QED
    BY <1>3, <1>10, <2>2, <2>3, <2>4 DEF SelectPerson
<1>11. ASSUME NEW open \in BOOLEAN, OpenStatusForm(open) PROVE ReportInv' /\ NobodyHears
  <2>1. UNCHANGED calls /\ picker' = [picker EXCEPT !["statuses"].adding = open]
    BY <1>11 DEF OpenStatusForm
  <2> QED
    BY <1>0, <1>2, <2>1, RowsShown
<1>12. ASSUME NEW x \in Plays, SelectPlay(x) PROVE ReportInv' /\ NobodyHears
  <2>1. UNCHANGED calls
    BY <1>12 DEF SelectPlay, shell
  <2>2. picker' = [picker EXCEPT !["simulator"].play = x, !["simulator"].outcome = Null]
    BY <1>12 DEF SelectPlay
  <2> QED
    BY <1>0, <1>2, <2>1, <2>2, RowsShown
<1>13. ASSUME Calculate PROVE ReportInv' /\ NobodyHears
  <2>1. PICK a : calls' = Append(calls, Call("preview", a))
    BY <1>13 DEF Calculate
  <2>2. picker' = [picker EXCEPT !["simulator"].outcome = Null]
    BY <1>13 DEF Calculate
  <2>3. Promised("preview", a)
    BY PlainPromise DEF Plain
  <2> QED
    BY <1>0, <1>3, <2>1, <2>2, <2>3, RowsShown
<1>14. ReportInv' /\ NobodyHears
  BY <1>5, <1>6, <1>7, <1>8, <1>9, <1>10, <1>11, <1>12, <1>13 DEF ScoringClicks
<1> QED
  BY <1>1, <1>14, NothingReported DEF Successes

LEMMA ReportStarts ==
  ASSUME ScoringStart, calls = <<>> \/ calls = <<Reload("mount", Null)>>
  PROVE  ReportInv
<1>1. DOMAIN status = Statuses /\ season.edition \in Nat /\ PickerOK
  <2>1. season.edition \in Nat
    BY FirstAwards DEF ScoringStart, SeasonRow, NoSeasonPolicy
  <2> QED
    BY <2>1 DEF ScoringStart, PickerOK, NoOneChosen
<1>2. PICK a : a = [after |-> "mount", made |-> Null]
  OBVIOUS
<1>3. calls = <<>> \/ calls = <<Call("references", a)>>
  BY <1>2 DEF Reload
<1>4. CallsTyped
  BY <1>3, FirstCall
<1>5. ReplyOK(Call("references", a))
  BY <1>2, CallFields DEF ReplyOK, Promised, Shows
<1>6. \A i \in DOMAIN calls : ReplyOK(calls[i])
  BY <1>3, <1>5
<1> QED
  BY <1>1, <1>4, <1>6 DEF ReportInv, RepliesOK

LEMMA ReportStepKeeps ==
  ASSUME ReportInv, ScoringNext
  PROVE  ReportInv' /\ Reports
<1>1. ASSUME NEW i \in DOMAIN calls, LoseCall(i) /\ UNCHANGED scoringVars
      PROVE  ReportInv' /\ Reports
  <2>1. /\ calls' = Became(i, calls[i].arg, "done", FALSE, Null) /\ calls[i].phase # "over"
        /\ UNCHANGED <<policies, season, status, picker, notice>>
    BY <1>1 DEF LoseCall, scoringVars, scoringServer, scoringView
  <2>2. UNCHANGED <<policies, season, status>> /\ UNCHANGED picker
    BY <2>1
  <2>3. RepliesOK'
    BY <2>1, <2>2, TablesStay, ReplyChanged DEF ReportInv
  <2>4. Reports
    BY <1>1, <2>1, AnswerHeard, NothingReported DEF ReportInv, RepliesOK
  <2> QED
    BY <2>1, <2>2, <2>3, <2>4, TablesStay DEF ReportInv, PickerOK
<1>2. CASE \E i \in DOMAIN calls : ScoringServes(i) \/ (LoseCall(i) /\ UNCHANGED scoringVars)
  BY <1>1, <1>2, ReportServeKeeps
<1>3. CASE \E i \in DOMAIN calls : ScoringReceives(i)
  BY <1>3, ReportReceiveKeeps
<1>4. CASE OtherScoring
  BY <1>4, ReportOtherKeeps
<1> QED
  BY <1>2, <1>3, <1>4, ReportClickKeeps, Zenon DEF ScoringNext

LEMMA ReportRests ==
  ASSUME ReportInv, UNCHANGED <<shell, scoringVars>>
  PROVE  ReportInv' /\ Reports
<1>1. /\ UNCHANGED <<policies, season, status>> /\ UNCHANGED picker /\ UNCHANGED calls
      /\ UNCHANGED notice
  BY DEF shell, scoringVars, scoringServer, scoringView
<1>2. Reports
  BY <1>1, CallHeard, NothingReported DEF ReportInv, RepliesOK
<1> QED
  BY <1>1, <1>2, TablesStay, PromisesStay DEF ReportInv, PickerOK, RepliesOK, CallsTyped

\* A policy, a season or a status is reported as saved only together with lists
\* that show that change or a later one of the same object, and when the lists
\* do not come the page says that it shows old ones, and the change stands:
\* whatever other loads, losses and administrators do.
THEOREM SavedIsShown == ScoringSpec => SuccessIsShown
<1>1. ScoringInit => ReportInv
  BY ReportStarts DEF ScoringInit, Mounted, ScoringFirst
<1>2. ReportInv /\ [ScoringNext]_<<shell, scoringVars>> => ReportInv' /\ Reports
  BY ReportStepKeeps, ReportRests
<1>3. Reports =>
        [/\ \A i \in DOMAIN calls : LoadEnds(i) =>
              LET load == calls[i].arg IN
              IF calls[i].ok THEN notice' = load.after /\ OnPage(load.after, load.made)
              ELSE notice' = "stale" /\ OnServer(load.after, load.made)
         /\ notice' # notice /\ notice' \in Successes => \E i \in DOMAIN calls : LoadEnds(i)
        ]_<<shell, scoringVars>>
  BY DEF Reports, Reported
<1> QED
  BY <1>1, <1>2, <1>3, PTL DEF ScoringSpec, SuccessIsShown

-----------------------------------------------------------------------------
(* The other pages report none of these changes: their requests are not    *)
(* loads of the scoring page, and their notices are others.                *)
OnlyAsks ==
  \/ UNCHANGED calls
  \/ \E o, a : calls' = Append(calls, Call(o, a)) \/ calls' = Append(calls, OthersCall(o, a))
Answers(i) ==
  /\ calls[i].phase \in {"sent", "open"}
  /\ \E d : Done(i, d) \/ RefusedAs(i, d) \/ Refused(i) \/ Began(i, d)
Hearing(i) ==
  /\ calls[i].op \notin ReportOps
  /\ calls' = Over(i) \/ \E o, a : calls' = Append(Over(i), Call(o, a))

LEMMA QuietSteps ==
  ASSUME CallsTyped, notice' = notice \/ notice' \notin Successes,
         OnlyAsks \/ \E i \in DOMAIN calls : Answers(i) \/ LoseCall(i) \/ Hearing(i)
  PROVE  Reports
<1>1. CASE OnlyAsks
  BY <1>1, CallHeard, NothingReported DEF OnlyAsks
<1>2. ASSUME NEW i \in DOMAIN calls, Answers(i) \/ LoseCall(i) PROVE Reports
  BY <1>2, AnswerHeard, NothingReported DEF Answers
<1>3. ASSUME NEW i \in DOMAIN calls, Hearing(i) PROVE Reports
  <2>1. OnlyHears(i)
    BY <1>3, TakingHears DEF Hearing
  <2> QED
    BY <1>3, <2>1, NothingReported DEF Hearing
<1> QED
  BY <1>1, <1>2, <1>3

LEMMA PeopleQuiet == ASSUME CallsTyped, PeopleNext PROVE Reports
<1>1. ASSUME PeopleClicks PROVE OnlyAsks
  BY <1>1 DEF OnlyAsks, PeopleClicks, SearchPeopleList, PreviewRoster, ImportRoster, BackToDirectory,
     SavePerson, SaveMetadata, ReloadMetadata, SearchCandidates, MergePerson, DismissDuplicate,
     LoadProfile, ChangeVisibility, OpenPerson, Compare, ChooseBook, EditMetadata, SectionCall,
     LoadPeople, Ask, shell
<1>2. ASSUME OtherPeople PROVE OnlyAsks
  BY <1>2 DEF OnlyAsks, OtherPeople
<1>3. ASSUME NEW i \in DOMAIN calls, PeopleServes(i) PROVE Answers(i)
  BY <1>3 DEF Answers, PeopleServes, ServePeopleReads, ServeImportRoster, ServePerson, PersonDone,
     PersonRefused, ServeVisibility, ServeScored, Waits
<1>4. ASSUME NEW i \in DOMAIN calls, PeopleReceives(i) PROVE Hearing(i)
  BY <1>4 DEF Hearing, ReportOps, PeopleReceives, PeopleArrive, ShowPerson, ListFails,
     ShowRosterPreview, RosterImported, SectionFails, CardChanged, ShowCandidates, ShowComparison,
     ShowProfile, Take, TakeAndAsk, Answered, Failed, PeopleOps
<1> QED
  BY <1>1, <1>2, <1>3, <1>4, PeopleStays, QuietSteps DEF PeopleNext

LEMMA ReviewQuiet == ASSUME CallsTyped, ReviewNext PROVE Reports
<1>1. ASSUME ReviewClicks PROVE OnlyAsks
  BY <1>1 DEF OnlyAsks, ReviewClicks, LoadQueue, LeaveReview, Refresh, ApproveReview, Reopen, DropDraft,
     SaveDecision, SuggestStudents, PreviewScore, ChangeDecision, ReviewCall, Ask, shell
<1>2. ASSUME OtherReviewer PROVE OnlyAsks
  BY <1>2 DEF OnlyAsks, OtherReviewer
<1>3. ASSUME NEW i \in DOMAIN calls, ReviewServes(i) PROVE Answers(i)
  BY <1>3 DEF Answers, ReviewServes, ServeReviewReads, ServeDecision, ServeRefresh, ServeReopen,
     ServeApprove, ServeOthersReview, ReviewRefused, ReviewChanges, Waits
<1>4. ASSUME NEW i \in DOMAIN calls, ReviewReceives(i) PROVE Hearing(i)
  BY <1>4 DEF Hearing, ReportOps, ReviewReceives, ShowQueue, ShowReview, ShowApproved, ShowScore,
     ReviewFails, Take, TakeAndAsk, Answered, Failed, ReviewOps
<1> QED
  BY <1>1, <1>2, <1>3, <1>4, ReviewStays, QuietSteps DEF ReviewNext

LEMMA EventsQuiet == ASSUME CallsTyped, EventNext PROVE Reports
<1>0. \A o, a : Ask(o, a) => OnlyAsks
  BY DEF OnlyAsks, Ask
<1>1. ASSUME EventClicks PROVE OnlyAsks
  <2>1. \A op, id, more : Settings(op, id, more) => OnlyAsks
    BY <1>0 DEF Settings
  <2>2. \A op, f : FieldCall(op, f) => OnlyAsks
    BY <1>0 DEF FieldCall
  <2>3. \A e, st, h, n, c : SaveEvent(e, st, h, n, c) => OnlyAsks
    BY <2>1 DEF SaveEvent
  <2>4. CASE \/ Logout \/ ToggleArchive \/ CloseEventEditor \/ SaveConfig
             \/ \E role \in Roles : Login(role)
             \/ \E s \in Streams, h \in Spans, n \in SeatCounts : SaveStream(s, h, n)
    BY <1>0, <2>4 DEF Logout, ToggleArchive, CloseEventEditor, SaveConfig, Login, SaveStream
  <2>5. CASE \/ CompleteEvent \/ DeleteCover \/ Archive \/ Purge \/ SaveField
             \/ \E f \in Fields : DeactivateField(f)
    BY <2>1, <2>2, <2>5 DEF CompleteEvent, DeleteCover, Archive, Purge, SaveField, DeactivateField
  <2>6. CASE \/ CloseFieldForm \/ \E e \in Events \cup {Null} : OpenEditor(e)
             \/ \E f \in Fields : OpenFieldForm(f)
             \/ \E s \in Streams \cup {Null} : EditStream(s)
    BY <2>6 DEF OnlyAsks, CloseFieldForm, OpenEditor, OpenFieldForm, EditStream, shell
  <2> QED
    BY <1>1, <2>3, <2>4, <2>5, <2>6 DEF EventClicks
<1>2. ASSUME OtherEditor PROVE OnlyAsks
  BY <1>2 DEF OnlyAsks, OtherEditor
<1>3. ASSUME NEW i \in DOMAIN calls, EventServes(i) PROVE Answers(i)
  <2>1. CASE ServeSession(i) \/ ServeEventReads(i)
    BY <2>1 DEF Answers, ServeSession, ServeEventReads, Waits
  <2>2. CASE ServeCreate(i) \/ ServeUpdate(i) \/ ServeArchive(i)
    BY <2>2 DEF Answers, ServeCreate, ServeUpdate, ServeArchive, Becomes, EventRefused, Waits
  <2>3. CASE StoreCover(i) \/ ServeUpload(i) \/ ServeDeleteCover(i) \/ RemoveCover(i)
    BY <2>3 DEF Answers, StoreCover, ServeUpload, ServeDeleteCover, RemoveCover, SetCover,
                EventRefused, Waits, IsOpen
  <2>4. CASE ServePurge(i) \/ ServeField(i) \/ ServeStream(i)
    BY <2>4 DEF Answers, ServePurge, ServeField, ServeStream, EventRefused, Waits
  <2> QED
    BY <1>3, <2>1, <2>2, <2>3, <2>4 DEF EventServes
<1>4. ASSUME NEW i \in DOMAIN calls, EventReceives(i), ~StreamSaved(i) PROVE Hearing(i)
  BY <1>4 DEF Hearing, ReportOps, EventReceives, SessionArrives, ShowEvents, EventSaved, Purged,
     SettingsFail, FieldChanged, ShowFields, ShowStreams, StreamsFail, Take, TakeAndAsk,
     Answered, Failed
<1>5. ASSUME NEW i \in DOMAIN calls, StreamSaved(i) PROVE Reports
  <2>1. Followed(i, Len(calls), Call("streams", calls[i].arg), Call("event", calls[i].arg))
    BY <1>5, BothAppended DEF StreamSaved
  <2>2. OnlyHears(i) /\ calls[i].op \notin ReportOps /\ notice' = notice
    BY <1>5, <2>1 DEF Followed, OnlyHears, Heard, ReportOps, StreamSaved, Answered
  <2> QED
    BY <2>2, NothingReported
<1> QED
  BY <1>1, <1>2, <1>3, <1>4, <1>5, EventStays, QuietSteps DEF EventNext

LEMMA RegQuiet == ASSUME CallsTyped, RegNext PROVE Reports
<1>0. \A o, a : Ask(o, a) => OnlyAsks
  BY DEF OnlyAsks, Ask
<1>1. ASSUME RegClicks PROVE OnlyAsks
  <2>1. \A op, more : CardCall(op, more) => OnlyAsks
    BY <1>0 DEF CardCall
  <2>2. CASE SaveRegistration \/ AnnulRegistration \/ ResendTicket
    BY <2>1, <2>2 DEF SaveRegistration, AnnulRegistration, ResendTicket
  <2>3. CASE ~(SaveRegistration \/ AnnulRegistration \/ ResendTicket)
    <3>1. UNCHANGED calls \/ \E o, a : Ask(o, a)
      BY <1>1, <2>3 DEF RegClicks, TurnPage, SendImportedTickets, BackToList, OpenOnsite,
         SubmitOnsite, OpenExcel, PreviewFile, Decide, CommitImport, LoadCases, ApplyFilter,
         OpenRegistration, ChooseFile, ResolveCase, LoadList, shell
    <3> QED
      BY <1>0, <3>1 DEF OnlyAsks
  <2> QED
    BY <2>2, <2>3
<1>2. ASSUME OtherRegistrar PROVE OnlyAsks
  BY <1>2 DEF OnlyAsks, OtherRegistrar
<1>3. ASSUME NEW i \in DOMAIN calls, RegServes(i) PROVE Answers(i)
  <2>1. /\ \A db, d : Changes(i, db, d) => Done(i, d)
        /\ Refuses(i) => Refused(i)
    BY DEF Changes, Refuses
  <2>2. CASE ServeReads(i) \/ ServeTickets(i) \/ ServeOnsite(i)
    BY <2>1, <2>2 DEF Answers, ServeReads, ServeTickets, ServeOnsite, Waits
  <2>3. CASE ServeCard(i)
    BY <2>1, <2>3 DEF Answers, ServeCard, Waits
  <2>4. CASE ServeImport(i) \/ ServeCase(i)
    BY <2>1, <2>4 DEF Answers, ServeImport, ServeCase, Waits
  <2> QED
    BY <1>3, <2>2, <2>3, <2>4 DEF RegServes
<1>4. ASSUME NEW i \in DOMAIN calls, RegReceives(i) PROVE Hearing(i)
  BY <1>4 DEF Hearing, ReportOps, RegReceives, ShowList, ShowRegistration, ListHears, Annulled,
     SubFails, SubSent, ShowOnsite, ShowImportPreview, ShowImported, CaseResolved, ShowCases, Take,
     TakeAndAsk, Answered, Failed
<1>5. notice' = notice \/ notice' \notin Successes
  BY RegStays DEF Successes
<1> QED
  BY <1>1, <1>2, <1>3, <1>4, <1>5, QuietSteps DEF RegNext

-----------------------------------------------------------------------------
(* The console: the page that is mounted keeps its invariant, and what the *)
(* other pages show of the server stays as it started.                     *)
ConsoleInv ==
  /\ page \in Pages
  /\ InUse(ScoringPanels) => ScoringInv /\ ReportInv
  /\ InUse(RegPanels) => RegInv
  /\ InUse(PeoplePanels) => PeopleInv
  /\ InUse(EventPanels) => EventInv /\ StreamsInv
  /\ InUse(ReviewPanels) => ReviewInv
  /\ PeriodsDisjoint /\ HistoryFitsSeason /\ OneRetried /\ ImportAsDecided
  /\ CoverFileExists /\ StreamsFitEvent

\* What each page promises of every step.
PageKeeps ==
  /\ Reports
  /\ peopleDb' # peopleDb => SeenBooks
  /\ directory' # directory => directory'.shown >= directory.shown
  /\ eventDb' # eventDb => ArchivedKept
  /\ console' # console => (console.user # Null /\ console'.user = Null => eventDb.session = Null)
  /\ reviewDb' # reviewDb => Overwrites
  /\ Ledger!LedgerNext \/ UNCHANGED Ledger!ledgerVars

LEMMA OnePage ==
  ASSUME NEW g \in Pages, NEW A \in PagePanels, NEW B \in PagePanels,
         g \cap A # {}, g \cap B # {}
  PROVE  A = B
BY OnePageMounted

LEMMA PanelsDiffer ==
  /\ ScoringPanels # RegPanels /\ ScoringPanels # PeoplePanels /\ ScoringPanels # EventPanels
  /\ ScoringPanels # ReviewPanels /\ RegPanels # PeoplePanels /\ RegPanels # EventPanels
  /\ RegPanels # ReviewPanels /\ PeoplePanels # EventPanels /\ PeoplePanels # ReviewPanels
  /\ EventPanels # ReviewPanels
<1>1. /\ "policies" \in ScoringPanels /\ "registrations" \in RegPanels
      /\ "directory" \in PeoplePanels /\ "list" \in EventPanels /\ "queue" \in ReviewPanels
  BY DEF ScoringPanels, RegPanels, PeoplePanels, EventPanels, ReviewPanels
<1>2. "policies" \notin RegPanels \cup PeoplePanels \cup EventPanels \cup ReviewPanels
  BY DEF RegPanels, PeoplePanels, EventPanels, ReviewPanels
<1>3. /\ "registrations" \notin PeoplePanels \cup EventPanels \cup ReviewPanels
      /\ "directory" \notin EventPanels \cup ReviewPanels /\ "list" \notin ReviewPanels
  BY DEF PeoplePanels, EventPanels, ReviewPanels
<1> QED
  BY <1>1, <1>2, <1>3

LEMMA ThePage ==
  ASSUME page \in Pages
  PROVE  /\ InUse(ScoringPanels) => /\ ~InUse(RegPanels) /\ ~InUse(PeoplePanels)
                                    /\ ~InUse(EventPanels) /\ ~InUse(ReviewPanels)
         /\ InUse(RegPanels) => ~InUse(PeoplePanels) /\ ~InUse(EventPanels) /\ ~InUse(ReviewPanels)
         /\ InUse(PeoplePanels) => ~InUse(EventPanels) /\ ~InUse(ReviewPanels)
         /\ InUse(EventPanels) => ~InUse(ReviewPanels)
<1>1. {ScoringPanels, RegPanels, PeoplePanels, EventPanels, ReviewPanels} = PagePanels
  BY DEF PagePanels
<1> QED
  BY <1>1, OnePage, PanelsDiffer DEF InUse

\* What is said of a page's tables alone.
LEMMA TablesRest ==
  /\ UNCHANGED scoringVars => /\ PeriodsDisjoint => PeriodsDisjoint'
                              /\ HistoryFitsSeason => HistoryFitsSeason'
  /\ UNCHANGED regVars => /\ OneRetried => OneRetried'
                          /\ ImportAsDecided => ImportAsDecided'
  /\ UNCHANGED eventVars => /\ CoverFileExists => CoverFileExists'
                            /\ StreamsFitEvent => StreamsFitEvent'
<1>1. UNCHANGED scoringVars => /\ PeriodsDisjoint => PeriodsDisjoint'
                               /\ HistoryFitsSeason => HistoryFitsSeason'
  BY DEF scoringVars, scoringServer, PeriodsDisjoint, HistoryFitsSeason
<1>2. UNCHANGED regVars => /\ OneRetried => OneRetried'
                           /\ ImportAsDecided => ImportAsDecided'
  BY DEF regVars, OneRetried, ImportAsDecided, Sent
<1>3. UNCHANGED eventVars => /\ CoverFileExists => CoverFileExists'
                             /\ StreamsFitEvent => StreamsFitEvent'
  BY DEF eventVars, CoverFileExists, StreamsFitEvent, StreamsOf, Existing
<1> QED
  BY <1>1, <1>2, <1>3

LEMMA PagesTell ==
  /\ ScoringInv => PeriodsDisjoint /\ HistoryFitsSeason
  /\ RegInv => OneRetried /\ ImportAsDecided
  /\ EventInv => CoverFileExists
  /\ StreamsInv => StreamsFitEvent
<1>1. ScoringInv => PeriodsDisjoint /\ HistoryFitsSeason
  BY DEF ScoringInv, VersionsOK, SeasonOK
<1>2. RegInv => OneRetried /\ ImportAsDecided
  BY RetriedOnce DEF RegInv, RegDbOK, JobsOK
<1>3. EventInv => CoverFileExists
  BY DEF EventInv, CoversOK, CoverFileExists
<1>4. StreamsInv => StreamsFitEvent
  BY StreamsTell DEF StreamsInv
<1> QED
  BY <1>1, <1>2, <1>3, <1>4

LEMMA NothingFirst ==
  ASSUME NEW c, NEW s, s = <<>> \/ s = <<c>>
  PROVE  s \o <<>> = s /\ <<>> \o s = s
<1>1. CASE s = <<>>
  BY <1>1
<1>2. CASE s = <<c>>
  <2>1. <<c>> \in Seq({c})
    OBVIOUS
  <2> QED
    BY <1>2, <2>1
<1> QED
  BY <1>1, <1>2

LEMMA ConsoleStarts ==
  ASSUME ConsoleInit
  PROVE  ConsoleInv /\ Ledger!LedgerInit
<1>1. page \in Pages /\ ScoringStart /\ RegStart /\ PeopleStart /\ EventStart /\ ReviewStart
  BY DEF ConsoleInit, CallsInit
<1>2. /\ ~InUse(ScoringPanels) => ScoringFirst = <<>>
      /\ ~InUse(EventPanels) => EventFirst = <<>>
  BY DEF ScoringFirst, EventFirst, Uses, InUse, ScoringPanels, EventPanels
<1>3. PICK s, e : s = ScoringFirst /\ e = EventFirst /\ calls = s \o e
  BY DEF ConsoleInit, Mounted
<1>4. (s = <<>> \/ \E c : s = <<c>>) /\ (e = <<>> \/ \E c : e = <<c>>)
  BY <1>3 DEF ScoringFirst, EventFirst
<1>5. /\ e = <<>> => calls = s
      /\ s = <<>> => calls = e
  BY <1>3, <1>4, NothingFirst
<1>6. ASSUME calls = <<>>
      PROVE  CallsTyped /\ DOMAIN calls = {}
  BY <1>6, FirstCall
<1>7. InUse(ScoringPanels) => ScoringInv /\ ReportInv
  BY <1>1, <1>2, <1>3, <1>5, ThePage, ScoringBegins, ReportStarts
     DEF ConsoleInit, Mounted, ScoringInit, CallsInit, ScoringFirst
<1>8. InUse(RegPanels) => RegInv
  BY <1>1, <1>2, <1>3, <1>5, <1>6, ThePage, RegStarts
<1>9. InUse(PeoplePanels) => PeopleInv
  BY <1>1, <1>2, <1>3, <1>5, <1>6, ThePage, PeopleStarts DEF ImportsSeen
<1>10. InUse(EventPanels) => EventInv /\ StreamsInv
  BY <1>1, <1>2, <1>3, <1>5, ThePage, EventStarts, StreamsStart DEF ConsoleInit, Mounted
<1>11. InUse(ReviewPanels) => ReviewInv
  BY <1>1, <1>2, <1>3, <1>5, ThePage, ReviewBegins DEF ConsoleInit, Mounted, ReviewInit, CallsInit
<1>12. PeriodsDisjoint /\ HistoryFitsSeason
  BY <1>1, ScoringStarts DEF VersionsOK, SeasonOK
<1>13. OneRetried /\ ImportAsDecided
  BY <1>1, RegTablesStart
<1>14. CoverFileExists /\ StreamsFitEvent /\ Ledger!LedgerInit
  BY <1>1, EventTablesStart, StreamsAtFirst, StreamsTell, ReviewStarts
<1> QED
  BY <1>1, <1>7, <1>8, <1>9, <1>10, <1>11, <1>12, <1>13, <1>14 DEF ConsoleInv

LEMMA ConsoleStepKeeps ==
  ASSUME ConsoleInv, ConsoleNext
  PROVE  ConsoleInv' /\ PageKeeps
<1>0. InUse(RegPanels) \/ InUse(PeoplePanels) \/ InUse(EventPanels) \/ InUse(ReviewPanels) => CallsTyped
  BY DEF ConsoleInv, RegInv, RegCallsOK, PeopleInv, EventInv, ReviewInv, ReviewAsksOK
<1>1. page \in Pages
  BY DEF ConsoleInv
<1>2. UNCHANGED page
  BY ScoringStays, RegStays, PeopleStays, EventStays, ReviewStays DEF ConsoleNext
<1>3. /\ InUse(ScoringPanels)' = InUse(ScoringPanels) /\ InUse(RegPanels)' = InUse(RegPanels)
      /\ InUse(PeoplePanels)' = InUse(PeoplePanels) /\ InUse(EventPanels)' = InUse(EventPanels)
      /\ InUse(ReviewPanels)' = InUse(ReviewPanels)
  BY <1>2 DEF InUse, ScoringPanels, RegPanels, PeoplePanels, EventPanels, ReviewPanels
<1>4. UNCHANGED reviewVars => UNCHANGED Ledger!ledgerVars
  BY LedgerRests DEF reviewVars
<1>5. /\ ScoringInv' => PeriodsDisjoint' /\ HistoryFitsSeason'
      /\ RegInv' => OneRetried' /\ ImportAsDecided'
      /\ EventInv' => CoverFileExists'
      /\ StreamsInv' => StreamsFitEvent'
  BY PagesTell, PTL
<1>6. CASE /\ InUse(ScoringPanels) /\ ScoringNext
           /\ UNCHANGED <<regVars, peopleVars, eventVars, reviewVars>>
  <2>1. ScoringInv' /\ ReportInv' /\ Reports
    BY <1>6, ScoringStepKeeps, ReportStepKeeps DEF ConsoleInv
  <2>2. PageKeeps
    BY <1>4, <1>6, <2>1 DEF PageKeeps, peopleVars, eventVars, reviewVars
  <2> QED
    BY <1>1, <1>2, <1>3, <1>5, <1>6, <2>1, <2>2, ThePage, TablesRest DEF ConsoleInv
<1>7. CASE /\ InUse(RegPanels) /\ RegNext
           /\ UNCHANGED <<scoringVars, peopleVars, eventVars, reviewVars>>
  <2>1. RegInv'
    BY <1>7, RegLives DEF ConsoleInv
  <2>2. PageKeeps
    BY <1>4, <1>7, <1>0, RegQuiet DEF PageKeeps, peopleVars, eventVars, reviewVars
  <2> QED
    BY <1>1, <1>2, <1>3, <1>5, <1>7, <2>1, <2>2, ThePage, TablesRest DEF ConsoleInv
<1>8. CASE /\ InUse(PeoplePanels) /\ PeopleNext
           /\ UNCHANGED <<scoringVars, regVars, eventVars, reviewVars>>
  <2>1. PeopleGoes
    BY <1>8, PeopleLives DEF ConsoleInv
  <2>2. PageKeeps
    BY <1>4, <1>8, <1>0, <2>1, PeopleQuiet DEF PageKeeps, PeopleGoes, eventVars, reviewVars
  <2> QED
    BY <1>1, <1>2, <1>3, <1>5, <1>8, <2>1, <2>2, ThePage, TablesRest DEF ConsoleInv, PeopleGoes
<1>9. CASE /\ InUse(EventPanels) /\ EventNext
           /\ UNCHANGED <<scoringVars, regVars, peopleVars, reviewVars>>
  <2>1. /\ EventInv' /\ StreamsInv' /\ ArchivedKept
        /\ console.user # Null /\ console'.user = Null => eventDb.session = Null
    BY <1>9, EventStepKeeps, StreamsStepKeeps DEF ConsoleInv, EventInv
  <2>2. PageKeeps
    BY <1>4, <1>9, <1>0, <2>1, EventsQuiet DEF PageKeeps, peopleVars, reviewVars
  <2> QED
    BY <1>1, <1>2, <1>3, <1>5, <1>9, <2>1, <2>2, ThePage, TablesRest DEF ConsoleInv
<1>10. CASE /\ InUse(ReviewPanels) /\ ReviewNext
            /\ UNCHANGED <<scoringVars, regVars, peopleVars, eventVars>>
  <2>1. ReviewInv' /\ (Ledger!LedgerNext \/ UNCHANGED Ledger!ledgerVars) /\ Overwrites
    BY <1>10, ReviewStepKeeps DEF ConsoleInv
  <2>2. PageKeeps
    BY <1>10, <1>0, <2>1, ReviewQuiet DEF PageKeeps, peopleVars, eventVars
  <2> QED
    BY <1>1, <1>2, <1>3, <1>5, <1>10, <2>1, <2>2, ThePage, TablesRest DEF ConsoleInv
<1> QED
  BY <1>6, <1>7, <1>8, <1>9, <1>10 DEF ConsoleNext

LEMMA ConsoleRests ==
  ASSUME ConsoleInv, UNCHANGED consoleVars
  PROVE  ConsoleInv' /\ PageKeeps
<1>1. /\ UNCHANGED <<shell, scoringVars>> /\ UNCHANGED regVars /\ UNCHANGED peopleVars
      /\ UNCHANGED <<shell, eventVars>> /\ UNCHANGED <<shell, reviewVars>>
      /\ UNCHANGED <<calls, regVars>> /\ UNCHANGED <<calls, peopleVars>> /\ UNCHANGED page
      /\ UNCHANGED <<scoringVars, eventVars>>
  BY DEF consoleVars, shell
<1>2. /\ InUse(ScoringPanels)' = InUse(ScoringPanels) /\ InUse(RegPanels)' = InUse(RegPanels)
      /\ InUse(PeoplePanels)' = InUse(PeoplePanels) /\ InUse(EventPanels)' = InUse(EventPanels)
      /\ InUse(ReviewPanels)' = InUse(ReviewPanels)
  BY <1>1 DEF InUse, ScoringPanels, RegPanels, PeoplePanels, EventPanels, ReviewPanels
<1>3. (ScoringInv => ScoringInv') /\ (ReviewInv => ReviewInv') /\ (ReportInv => ReportInv')
  BY <1>1, ScoringRests, ReviewRests, ReportRests
<1>4. (EventInv => EventInv') /\ (StreamsInv => StreamsInv')
  BY <1>1, EditsQuietly, StreamsRest DEF eventVars
<1>5. (RegInv => RegInv') /\ (PeopleInv => PeopleInv')
  BY <1>1, RegRests, PeopleRests DEF PeopleGoes
<1>6. PageKeeps
  <2>1. Reports
    BY <1>1 DEF Reports, LoadEnds, Heard, shell
  <2> QED
    BY <1>1, <2>1, LedgerRests DEF PageKeeps, peopleVars, eventVars, reviewVars
<1> QED
  BY <1>1, <1>2, <1>3, <1>4, <1>5, <1>6, TablesRest DEF ConsoleInv

LEMMA ConsoleInvariant == ConsoleSpec => []ConsoleInv
<1>1. ConsoleInit => ConsoleInv
  BY ConsoleStarts
<1>2. ConsoleInv /\ [ConsoleNext]_consoleVars => ConsoleInv'
  BY ConsoleStepKeeps, ConsoleRests
<1> QED
  BY <1>1, <1>2, PTL DEF ConsoleSpec

\* Whichever page is mounted, whoever else works on it and whatever is lost:
\* periods stay disjoint, awards fit the season, imports are as decided, the
\* covers are there, and streams share the seats of their Event.
THEOREM ConsoleIsSafe ==
  ConsoleSpec => [](/\ PeriodsDisjoint /\ HistoryFitsSeason /\ ImportAsDecided
                    /\ CoverFileExists /\ StreamsFitEvent)
<1>1. ConsoleInv => /\ PeriodsDisjoint /\ HistoryFitsSeason /\ ImportAsDecided
                    /\ CoverFileExists /\ StreamsFitEvent
  BY DEF ConsoleInv
<1> QED
  BY <1>1, ConsoleInvariant, PTL

\* A card or a form that is sent again and again leaves one ticket or one
\* registration for every answer it has seen, however many of them were lost.
THEOREM RetriesAreOne == ConsoleSpec => []OneRetried
<1>1. ConsoleInv => OneRetried
  BY DEF ConsoleInv
<1> QED
  BY <1>1, ConsoleInvariant, PTL

\* A workbook with possible matches, previewed and decided upon anew while
\* the replies about it are on their way, is imported as was decided about it.
THEOREM ImportsAsDecided == ConsoleSpec => []ImportAsDecided
<1>1. ConsoleInv => ImportAsDecided
  BY DEF ConsoleInv
<1> QED
  BY <1>1, ConsoleInvariant, PTL

\* On any page of the console a policy, a season or a status is reported as
\* saved only together with lists that show that change or a later one of the
\* same object; when they do not come, the page says that its lists are old,
\* and the change stands.
THEOREM ReportsAreTrue == ConsoleSpec => SuccessIsShown
<1>1. ConsoleInv /\ [ConsoleNext]_consoleVars =>
        [/\ \A i \in DOMAIN calls : LoadEnds(i) =>
              LET load == calls[i].arg IN
              IF calls[i].ok THEN notice' = load.after /\ OnPage(load.after, load.made)
              ELSE notice' = "stale" /\ OnServer(load.after, load.made)
         /\ notice' # notice /\ notice' \in Successes => \E i \in DOMAIN calls : LoadEnds(i)
        ]_<<shell, scoringVars>>
  BY ConsoleStepKeeps, ConsoleRests DEF PageKeeps, Reports, Reported
<1> QED
  BY <1>1, ConsoleInvariant, PTL DEF ConsoleSpec, SuccessIsShown

\* A roster that is imported was shown to the administrator in a preview
\* without a conflict before he clicked, whichever file was chosen since and
\* in whatever order the previews came.
THEOREM PreviewedIsImported == ConsoleSpec => RosterImportIsPreviewed
<1>1. ConsoleInv /\ [ConsoleNext]_consoleVars =>
        [\A b \in peopleDb'.books \ peopleDb.books :
           \E i \in DOMAIN calls : /\ Waits(i, "importRoster") /\ calls[i].arg.book = b
                                  /\ b \in calls[i].arg.seen]_peopleDb
  BY ConsoleStepKeeps, ConsoleRests DEF PageKeeps, SeenBooks
<1> QED
  BY <1>1, ConsoleInvariant, PTL DEF ConsoleSpec, RosterImportIsPreviewed

\* The list shows the newest of the loads that came, in whatever order they do.
THEOREM NewestIsShown == ConsoleSpec => NewestListStays
<1>1. ConsoleInv /\ [ConsoleNext]_consoleVars => [directory'.shown >= directory.shown]_directory
  BY ConsoleStepKeeps, ConsoleRests DEF PageKeeps
<1> QED
  BY <1>1, ConsoleInvariant, PTL DEF ConsoleSpec, NewestListStays

\* On any page of the console the review is its ledger.
THEOREM ConsoleKeepsLedger == ConsoleSpec => ReviewLedgerRefined
<1>1. ConsoleInit => Ledger!LedgerInit
  BY ConsoleStarts
<1>2. ConsoleInv /\ [ConsoleNext]_consoleVars => [Ledger!LedgerNext]_(Ledger!ledgerVars)
  BY ConsoleStepKeeps, ConsoleRests DEF PageKeeps
<1> QED
  BY <1>1, <1>2, ConsoleInvariant, PTL DEF ConsoleSpec, ReviewLedgerRefined, Ledger!LedgerSpec

\* On any page of the console an archived Event stays as it was, the console
\* signs out only of an ended session, and decisions replace what was seen.
THEOREM ConsolePromises == ConsoleSpec => ArchiveIsFinal /\ LogoutIsReal /\ OverwrittenWasSeen
<1>1. ConsoleInv /\ [ConsoleNext]_consoleVars =>
        /\ [\A e \in Existing :
              Archived(e) /\ eventDb'.event[e] # Null =>
                /\ eventDb'.event[e] = eventDb.event[e]
                /\ StreamsOf(e)' = StreamsOf(e) /\ FieldsOf(e)' = FieldsOf(e)
                /\ \A s \in StreamsOf(e) : eventDb'.stream[s] = eventDb.stream[s]
                /\ \A f \in FieldsOf(e) : eventDb'.field[f] = eventDb.field[f]]_eventDb
        /\ [console.user # Null /\ console'.user = Null => eventDb.session = Null]_console
        /\ [\A i \in DOMAIN calls :
              Waits(i, "updateReview") /\ calls'[i].phase # "sent" /\ reviewDb' # reviewDb =>
                calls[i].arg.more.based = Version(reviewDb, calls[i].arg.reg)]_reviewDb
  BY ConsoleStepKeeps, ConsoleRests DEF PageKeeps, ArchivedKept, Overwrites
<1> QED
  BY <1>1, ConsoleInvariant, PTL DEF ConsoleSpec, ArchiveIsFinal, LogoutIsReal, OverwrittenWasSeen
=============================================================================
