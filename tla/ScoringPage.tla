------------------------------ MODULE ScoringPage ------------------------------
(***************************************************************************)
(* The scoring page of the console (apps/web/src/AdminScoring.tsx) with    *)
(* the transactions of backend/src/event_api/routers/scoring_v2.py behind  *)
(* it: policies and their versions, the policy of the season, the statuses *)
(* of a Person and the simulator.  Other administrators call the same      *)
(* endpoints, and approvals of reviews award scores meanwhile.             *)
(*                                                                         *)
(* Time is a set of Instants; a version is in force in its span, and the   *)
(* season uses its policy from an instant on (0: never).  The components   *)
(* of a version are sound (publishable) or not.                            *)
(***************************************************************************)
EXTENDS AdminCalls

CONSTANTS
  Policies,   \* scoring policies, of which InitialPolicies exist
  InitialPolicies,
  Versions,   \* their versions
  InitialVersion,  \* the versions as the page finds them
  InitialSeason, InitialAwards,  \* a season that was awarded already
  ScoredEvents,    \* Events of the season
  InitialMoment,   \* when they start, as the page finds them
  Instants, Now,   \* moments of effective dates and of events
  Periods,    \* effective periods an administrator enters
  Statuses,           \* assignments of one type of status to Persons
  StatusOf,   \* the Person of an assignment
  InitialStatuses,    \* the assignments as the page finds them
  Plays, PlayOf       \* participations and whose they are

ASSUME ScoringBasics == InitialPolicies \subseteq Policies /\ Periods \subseteq SUBSET Instants
ASSUME InstantsAreNumbers == Instants \subseteq Nat \ {0} /\ Now \in Instants

VersionStates == {"ABSENT", "DRAFT", "PUBLISHED", "RETIRED", "CANCELLED"}
VersionRow == [policy: Policies, state: VersionStates, sound: BOOLEAN, span: SUBSET Instants]
\* `edition` counts the assignments (updated_at), and `moved` says whether the
\* Event got another start since it was awarded: history, which no guard reads.
SeasonRow == [policy: Policies \cup {Null}, from: Instants \cup {0}, edition: Nat]
AwardRow == [event: ScoredEvents, engine: {"V1", "V2"}, version: Versions \cup {Null},
             moved: BOOLEAN]

\* No moment belongs to two versions of a policy that were published.
Disjoint(vs) ==
  \A v, w \in Versions :
    /\ v # w /\ vs[v].policy = vs[w].policy
    /\ {vs[v].state, vs[w].state} \subseteq {"PUBLISHED", "RETIRED"}
    => vs[v].span \cap vs[w].span = {}

\* Scores come from the policy of the season from its first day on (uses_v2).
UsesV2(s, t) == s.policy # Null /\ s.from # 0 /\ t >= s.from
Fits(rows, s, start, vs) ==
  \A a \in rows :
    /\ ~a.moved => (a.engine = "V2" <=> UsesV2(s, start[a.event]))
    /\ a.engine = "V2" => vs[a.version].policy = s.policy

ASSUME FirstVersions == InitialVersion \in [Versions -> VersionRow] /\ Disjoint(InitialVersion)
ASSUME FirstAwards ==
  /\ InitialSeason \in SeasonRow /\ InitialAwards \subseteq AwardRow
  /\ InitialMoment \in [ScoredEvents -> Instants]
  /\ Fits(InitialAwards, InitialSeason, InitialMoment, InitialVersion)
  /\ \A a \in InitialAwards : a.engine = "V2" =>
       a.version \in Versions /\ InitialVersion[a.version].state # "ABSENT"

VARIABLES
  policies,  \* server: the policies that exist
  version,   \* server: the policy, state, components and span of each version
  season,    \* server: its policy and since when
  moment,    \* server: start_at of the Events of the season
  awards,    \* server: the AWARD rows of the season, by engine
  status,    \* server: state of each status assignment
  refs,      \* page: what the last complete load of the references brought
  desk,      \* page: the opened policy, its listed versions, the version editor
  seasonForm,\* page: the season's form is open
  picker     \* page: the Person chosen in the two panels and the listed rows

scoringServer == <<policies, version, season, moment, awards, status>>
scoringView == <<refs, desk, seasonForm, picker>>
scoringVars == <<scoringServer, scoringView>>

ScoringPanels == {"policies", "season", "versions", "statuses", "simulator"}
Panels == {"statuses", "simulator"}
StatusStates == {"ABSENT", "ACTIVE", "RETIRED"}

NoEditor == [mode |-> "none", id |-> Null, state |-> "ABSENT", sound |-> FALSE, waits |-> 0]

\* The methods of the client that the page calls.
ScoringOps ==
  {"references", "publishable", "createPolicy", "versions", "version", "createVersion",
   "saveVersion", "publish", "retireVersion", "assignSeason", "people", "listStatuses",
   "assignStatus", "retireStatus", "participations", "preview", "award",
   "moveEvent"}

ScoringTypeOK ==
  /\ policies \subseteq Policies
  /\ version \in [Versions -> VersionRow]
  /\ season \in SeasonRow
  /\ moment \in [ScoredEvents -> Instants]
  /\ awards \subseteq AwardRow
  /\ status \in [Statuses -> StatusStates]
  /\ refs \in [policies: SUBSET Policies, season: SeasonRow, publishable: SUBSET Policies]
  /\ desk.policy \in Policies \cup {Null}
  /\ desk.rows \subseteq [id: Versions, state: VersionStates]
  /\ desk.editor \in [mode: {"none", "create", "existing"}, id: Versions \cup {Null},
                      state: VersionStates, sound: BOOLEAN, waits: Nat]
  /\ seasonForm \in BOOLEAN
  /\ \A k \in Panels :
       /\ picker[k].found \subseteq People
       /\ picker[k].person \in People \cup {Null}

Published(p, vs) == \E v \in Versions : vs[v].policy = p /\ vs[v].state = "PUBLISHED"
PolicyRows(p) == {[id |-> v, state |-> version[v].state] :
                    v \in {w \in Versions : version[w].policy = p /\ version[w].state # "ABSENT"}}
StatusRows(p) == {[id |-> s, state |-> status[s]] :
                    s \in {x \in Statuses : StatusOf[x] = p /\ status[x] # "ABSENT"}}
NoOneChosen == [found |-> {}, person |-> Null, rows |-> {}, adding |-> FALSE,
                play |-> Null, outcome |-> Null]
NoSeasonPolicy == [policy |-> Null, from |-> 0, edition |-> 0]

\* The page while its first load runs ("policies"), or later, with a policy
\* opened and the Persons searched.
ScoringStart ==
  /\ policies = InitialPolicies
  /\ version = InitialVersion
  /\ season = IF Uses("awarded") THEN InitialSeason ELSE NoSeasonPolicy
  /\ moment = InitialMoment
  /\ awards = IF Uses("awarded") THEN InitialAwards ELSE {}
  /\ status = [s \in Statuses |-> IF s \in InitialStatuses THEN "ACTIVE" ELSE "ABSENT"]
  /\ seasonForm = FALSE
  /\ IF Uses("policies")
     THEN /\ refs = [policies |-> {}, season |-> NoSeasonPolicy, publishable |-> {}]
          /\ desk = [policy |-> Null, rows |-> {}, editor |-> NoEditor]
          /\ picker = [k \in Panels |-> NoOneChosen]
     ELSE /\ refs = [policies |-> policies, season |-> season,
                     publishable |-> {p \in policies : Published(p, version)}]
          /\ \E p \in policies : desk = [policy |-> p, rows |-> PolicyRows(p), editor |-> NoEditor]
          /\ picker = [k \in Panels |-> [NoOneChosen EXCEPT !.found = People]]

\* loadReferences: of the first load, or after a change, and what that made.
Reload(after, made) == Call("references", [after |-> after, made |-> made])
ScoringFirst == IF Uses("policies") THEN <<Reload("mount", Null)>> ELSE <<>>
ScoringInit == CallsInit /\ ScoringStart /\ Mounted(ScoringFirst)

(***************************************************************************)
(* loadReferences: six lists at once, then the versions of every policy;   *)
(* nothing is shown before all of them came.                               *)
(***************************************************************************)
ServeReferences(i) ==
  /\ Waits(i, "references")
  /\ Done(i, [policies |-> policies, season |-> season])
  /\ UNCHANGED <<page, faults, busy, notice, scoringVars>>

LookUpVersions(i) ==
  /\ Answered(i, "references")
  /\ calls' = Append(Over(i), Call("publishable",
                [after |-> calls[i].arg.after, made |-> calls[i].arg.made, lists |-> calls[i].data]))
  /\ UNCHANGED <<page, faults, busy, notice, scoringVars>>

ServePublishable(i) ==
  /\ Waits(i, "publishable")
  /\ Done(i, {p \in calls[i].arg.lists.policies : Published(p, version)})
  /\ UNCHANGED <<page, faults, busy, notice, scoringVars>>

CommitReferences(i) ==
  /\ Answered(i, "publishable")
  /\ LET after == calls[i].arg.after
         lists == calls[i].arg.lists
     IN /\ refs' = [policies |-> lists.policies, season |-> lists.season,
                    publishable |-> calls[i].data]
        /\ notice' = IF after = "mount" THEN notice ELSE after
        /\ busy' = (busy /\ after = "mount")
  /\ calls' = Over(i)
  /\ UNCHANGED <<page, faults, scoringServer, desk, seasonForm, picker>>

\* Mutant: the success is reported although the lists did not come.
ReferencesFailQuietly(i) ==
  /\ Failed(i, "references") \/ Failed(i, "publishable")
  /\ notice' = calls[i].arg.after
  /\ busy' = (busy /\ calls[i].arg.after = "mount")
  /\ calls' = Over(i)
  /\ UNCHANGED <<page, faults, scoringVars>>

\* A load that failed says so; after a change it says that the change stands.
ReferencesFail(i) ==
  /\ Failed(i, "references") \/ Failed(i, "publishable")
  /\ LET after == calls[i].arg.after
     IN /\ notice' = IF after = "mount" THEN "error" ELSE "stale"
        /\ busy' = (busy /\ after = "mount")
  /\ calls' = Over(i)
  /\ UNCHANGED <<page, faults, scoringVars>>

CreatePolicy ==
  /\ Uses("policies") /\ MayClick /\ ~busy /\ desk.editor.mode = "none"
  /\ calls' = Append(calls, Call("createPolicy", Null))
  /\ busy' = TRUE /\ notice' = "none"
  /\ UNCHANGED <<page, faults, scoringVars>>

\* create_policy: the code of a policy is unique.
ServeCreatePolicy(i) ==
  /\ Waits(i, "createPolicy")
  /\ \/ \E p \in Policies \ policies : policies' = policies \cup {p} /\ Done(i, p)
     \/ policies = Policies /\ Refused(i) /\ UNCHANGED policies
  /\ UNCHANGED <<page, faults, busy, notice, version, season, moment, awards, status, scoringView>>

PolicyCreated(i) ==
  /\ Answered(i, "createPolicy")
  /\ calls' = Append(Over(i), Reload("created", calls[i].data))
  /\ UNCHANGED <<page, faults, busy, notice, scoringVars>>

\* A mutation or a search that failed: the handler's catch and finally.
ChangeFails(i) ==
  /\ \E op \in {"createPolicy", "assignSeason", "people", "assignStatus", "retireStatus",
                "participations", "versions", "version"} : Failed(i, op)
  /\ notice' = "error" /\ busy' = FALSE
  /\ calls' = Over(i)
  /\ UNCHANGED <<page, faults, scoringVars>>

(***************************************************************************)
(* Policies and versions.  The lists do not look at busy; an editor that   *)
(* is already open keeps the values it was mounted with when the detail of *)
(* another version arrives.                                                *)
(***************************************************************************)
OpenPolicy(p) ==
  /\ Uses("versions") /\ MayClick /\ desk.editor.mode = "none" /\ p \in refs.policies
  /\ desk' = [desk EXCEPT !.policy = p]
  /\ calls' = Append(calls, Call("versions", p))
  /\ busy' = TRUE
  /\ UNCHANGED <<page, faults, notice, scoringServer, refs, seasonForm, picker>>

ServeVersions(i) ==
  /\ Waits(i, "versions")
  /\ Done(i, PolicyRows(calls[i].arg))
  /\ UNCHANGED <<page, faults, busy, notice, scoringVars>>

ShowVersions(i) ==
  /\ Answered(i, "versions")
  /\ desk' = [desk EXCEPT !.rows = calls[i].data]
  /\ busy' = FALSE
  /\ calls' = Over(i)
  /\ UNCHANGED <<page, faults, notice, scoringServer, refs, seasonForm, picker>>

OpenVersion(v) ==
  /\ MayClick /\ desk.policy # Null /\ desk.editor.mode = "none"
  /\ \E r \in desk.rows : r.id = v
  /\ calls' = Append(calls, Call("version", v))
  /\ busy' = TRUE
  /\ UNCHANGED <<page, faults, notice, scoringVars>>

ServeVersion(i) ==
  /\ Waits(i, "version")
  /\ Done(i, version[calls[i].arg])
  /\ UNCHANGED <<page, faults, busy, notice, scoringVars>>

\* setEditing of the detail; useState keeps the values of a mounted editor.
ShowVersion(i) ==
  /\ Answered(i, "version")
  /\ desk' = [desk EXCEPT !.editor =
       [mode |-> "existing", id |-> calls[i].arg, state |-> calls[i].data.state,
        sound |-> IF desk.editor.mode = "none" THEN calls[i].data.sound ELSE @.sound,
        waits |-> IF desk.editor.mode = "none" THEN 0 ELSE @.waits]]
  /\ busy' = FALSE
  /\ calls' = Over(i)
  /\ UNCHANGED <<page, faults, notice, scoringServer, refs, seasonForm, picker>>

NewDraft ==
  /\ ~busy /\ desk.policy # Null /\ desk.editor.mode = "none"
  /\ desk' = [desk EXCEPT !.editor = [NoEditor EXCEPT !.mode = "create"]]
  /\ UNCHANGED <<shell, scoringServer, refs, seasonForm, picker>>

Editable(e) == e.mode = "create" \/ (e.mode = "existing" /\ e.state = "DRAFT")

EditValues ==
  /\ Editable(desk.editor)
  /\ desk' = [desk EXCEPT !.editor.sound = ~@]
  /\ UNCHANGED <<shell, scoringServer, refs, seasonForm, picker>>

CloseEditor ==
  /\ desk.editor.mode # "none"
  /\ desk' = [desk EXCEPT !.editor = NoEditor]
  /\ UNCHANGED <<shell, scoringServer, refs, seasonForm, picker>>

\* save, publish and retire of the editor: one call each, while it waits for none.
EditorCall(op, arg) ==
  /\ MayClick /\ desk.editor.waits = 0
  /\ calls' = Append(calls, Call(op, arg))
  /\ desk' = [desk EXCEPT !.editor.waits = Len(calls')]
  /\ UNCHANGED <<page, faults, busy, notice, scoringServer, refs, seasonForm, picker>>

SaveVersion ==
  LET e == desk.editor IN
  /\ Editable(e)
  /\ IF e.mode = "create"
     THEN /\ \E v \in Versions : version[v].state = "ABSENT"
          /\ EditorCall("createVersion", [policy |-> desk.policy, sound |-> e.sound])
     ELSE EditorCall("saveVersion", [policy |-> desk.policy, id |-> e.id, sound |-> e.sound])

PublishVersion(span) ==
  LET e == desk.editor IN
  /\ e.mode = "existing" /\ e.state = "DRAFT"
  /\ EditorCall("publish", [policy |-> desk.policy, id |-> e.id, span |-> span])

RetireVersion ==
  LET e == desk.editor IN
  /\ e.mode = "existing" /\ e.state = "PUBLISHED"
  /\ EditorCall("retireVersion", [policy |-> desk.policy, id |-> e.id])

\* onSaved closes whichever editor is open and reloads the list.
EditorSaved(i) ==
  /\ \E op \in {"createVersion", "saveVersion", "publish", "retireVersion"} : Answered(i, op)
  /\ desk' = [desk EXCEPT !.editor = NoEditor]
  /\ calls' = Append(Over(i), Call("versions", calls[i].arg.policy))
  /\ busy' = TRUE
  /\ UNCHANGED <<page, faults, notice, scoringServer, refs, seasonForm, picker>>

EditorFails(i) ==
  /\ \E op \in {"createVersion", "saveVersion", "publish", "retireVersion"} : Failed(i, op)
  /\ desk' = IF desk.editor.waits = i THEN [desk EXCEPT !.editor.waits = 0] ELSE desk
  /\ calls' = Over(i)
  /\ UNCHANGED <<page, faults, busy, notice, scoringServer, refs, seasonForm, picker>>

(***************************************************************************)
(* The transactions of the versions: probe, lock of the policy, lock of    *)
(* the version.  What a transaction reads without a lock it reads as of    *)
(* its probe.                                                              *)
(***************************************************************************)
ServeCreateVersion(i) ==
  /\ Waits(i, "createVersion")
  /\ \E v \in Versions :
       /\ version[v].state = "ABSENT"
       /\ version' = [version EXCEPT ![v] = [policy |-> calls[i].arg.policy, state |-> "DRAFT",
                                             sound |-> calls[i].arg.sound, span |-> {}]]
  /\ Done(i, Null)
  /\ UNCHANGED <<page, faults, busy, notice, policies, season, moment, awards, status, scoringView>>

ServeSaveVersion(i) ==
  /\ Waits(i, "saveVersion")
  /\ LET v == calls[i].arg.id IN
     \/ /\ version[v].state = "DRAFT"
        /\ version' = [version EXCEPT ![v].sound = calls[i].arg.sound]
        /\ Done(i, Null)
     \/ version[v].state # "DRAFT" /\ Refused(i) /\ UNCHANGED version
  /\ UNCHANGED <<page, faults, busy, notice, policies, season, moment, awards, status, scoringView>>

ProbePublish(i) ==
  /\ Waits(i, "publish")
  /\ Began(i, version[calls[i].arg.id].sound)
  /\ UNCHANGED <<page, faults, busy, notice, scoringVars>>

\* Mutant: only versions that are still published count.
OverlapsPublished(v, span) ==
  \E w \in Versions \ {v} : /\ version[w].policy = version[v].policy
                            /\ version[w].state = "PUBLISHED"
                            /\ version[w].span \cap span # {}

\* Two versions of a policy whose effective periods overlap (a locking read).
Overlaps(v, span) ==
  \E w \in Versions \ {v} :
    /\ version[w].policy = version[v].policy
    /\ version[w].state \in {"PUBLISHED", "RETIRED"}
    /\ version[w].span \cap span # {}

ServePublish(i) ==
  /\ IsOpen(i, "publish")
  /\ LET v == calls[i].arg.id
         may == version[v].state = "DRAFT" /\ calls[i].data /\ ~Overlaps(v, calls[i].arg.span)
     IN \/ /\ may
           /\ version' = [version EXCEPT ![v] = [@ EXCEPT !.state = "PUBLISHED",
                                                          !.span = calls[i].arg.span]]
           /\ Done(i, Null)
        \/ ~may /\ Refused(i) /\ UNCHANGED version
  /\ UNCHANGED <<page, faults, busy, notice, policies, season, moment, awards, status, scoringView>>

ProbeRetire(i) ==
  /\ Waits(i, "retireVersion")
  /\ Began(i, {moment[a.event] : a \in {b \in awards : b.version = calls[i].arg.id}})
  /\ UNCHANGED <<page, faults, busy, notice, scoringVars>>

\* A version that is retired was in force until now, or until its end before.
CutOff(row) == [row EXCEPT !.state = "RETIRED", !.span = {t \in row.span : t < Now}]
After(row, t) == IF Now \in row.span THEN t >= Now ELSE \A u \in row.span : t > u

ServeRetire(i) ==
  /\ IsOpen(i, "retireVersion")
  /\ LET v == calls[i].arg.id
         row == version[v]
         begun == Now \in row.span \/ \E t \in row.span : t < Now
     IN \/ row.state \in {"RETIRED", "CANCELLED"} /\ Done(i, Null) /\ UNCHANGED version
        \/ row.state = "DRAFT" /\ Refused(i) /\ UNCHANGED version
        \/ /\ row.state = "PUBLISHED" /\ ~begun
           /\ version' = [version EXCEPT ![v].state = "CANCELLED"]
           /\ Done(i, Null)
        \/ /\ row.state = "PUBLISHED" /\ begun
           /\ \E t \in calls[i].data : After(row, t)
           /\ Refused(i) /\ UNCHANGED version
        \/ /\ row.state = "PUBLISHED" /\ begun
           /\ \A t \in calls[i].data : ~After(row, t)
           /\ version' = [version EXCEPT ![v] = CutOff(row)]
           /\ Done(i, Null)
  /\ UNCHANGED <<page, faults, busy, notice, policies, season, moment, awards, status, scoringView>>

(***************************************************************************)
(* The policy of the season, and the awards that fix it.                   *)
(***************************************************************************)
OpenSeasonForm ==
  /\ Uses("season") /\ ~busy /\ ~seasonForm /\ desk.editor.mode = "none"
  /\ seasonForm' = TRUE /\ notice' = "none"
  /\ UNCHANGED <<page, calls, faults, busy, scoringServer, refs, desk, picker>>

CloseSeasonForm ==
  /\ ~busy /\ seasonForm /\ desk.editor.mode = "none"
  /\ seasonForm' = FALSE
  /\ UNCHANGED <<shell, scoringServer, refs, desk, picker>>

AssignSeason(p, t) ==
  /\ MayClick /\ ~busy /\ seasonForm /\ desk.editor.mode = "none"
  /\ p \in refs.publishable
  /\ calls' = Append(calls, Call("assignSeason", [policy |-> p, from |-> t]))
  /\ busy' = TRUE /\ notice' = "none"
  /\ UNCHANGED <<page, faults, scoringVars>>

\* Mutant: the season may change its policy after it awarded scores.
MayAssignAnyTime(wanted) ==
  \E v \in Versions : /\ version[v].policy = wanted.policy
                      /\ version[v].state = "PUBLISHED"
                      /\ wanted.from \in version[v].span

\* assign_policy under the lock of the season: fixed by its first V2 award,
\* never set across V1 awards of Events as they start now, and only to a policy
\* in force at the boundary.  Without V2 awards the policy may be taken away.
MayAssign(wanted) ==
  LET changed == season.policy # wanted.policy \/ season.from # wanted.from
      set == wanted.policy # Null
  IN
  /\ changed => \A a \in awards : a.engine = "V1"
  /\ changed /\ set => \A a \in awards : moment[a.event] < wanted.from
  /\ set => \E v \in Versions : /\ version[v].policy = wanted.policy
                                /\ version[v].state = "PUBLISHED"
                                /\ wanted.from \in version[v].span

ServeAssignSeason(i) ==
  /\ Waits(i, "assignSeason")
  /\ LET wanted == calls[i].arg IN
     \/ /\ MayAssign(wanted)
        /\ season' = [policy |-> wanted.policy, from |-> wanted.from, edition |-> season.edition + 1]
        /\ Done(i, season')
     \/ ~MayAssign(wanted) /\ Refused(i) /\ UNCHANGED season
  /\ UNCHANGED <<page, faults, busy, notice, policies, version, moment, awards, status, scoringView>>

SeasonAssigned(i) ==
  /\ Answered(i, "assignSeason")
  /\ seasonForm' = FALSE
  /\ calls' = Append(Over(i), Reload("assigned", calls[i].data))
  /\ UNCHANGED <<page, faults, busy, notice, scoringServer, refs, desk, picker>>

\* award_score of an approval: the transaction began earlier, so the versions
\* come from its snapshot; the Event and its season are read and locked now.
\* Without one version in force, or without a rule of V1, nothing is awarded.
BeginAward(i) ==
  /\ Waits(i, "award")
  /\ Began(i, version)
  /\ UNCHANGED <<page, faults, busy, notice, scoringVars>>

ServeAward(i) ==
  /\ IsOpen(i, "award")
  /\ LET e == calls[i].arg
         t == moment[e]
         inForce == {v \in Versions : /\ calls[i].data[v].policy = season.policy
                                      /\ calls[i].data[v].state \in {"PUBLISHED", "RETIRED"}
                                      /\ t \in calls[i].data[v].span}
         Award(engine, v) == [event |-> e, engine |-> engine, version |-> v, moved |-> FALSE]
     IN \/ ~UsesV2(season, t) /\ awards' = awards \cup {Award("V1", Null)}
        \/ /\ UsesV2(season, t)
           /\ \E v \in inForce : inForce = {v} /\ awards' = awards \cup {Award("V2", v)}
        \/ /\ UsesV2(season, t) => \A v \in inForce : inForce # {v}
           /\ UNCHANGED awards
  /\ Done(i, Null)
  /\ UNCHANGED <<page, faults, busy, notice, policies, version, season, moment, status, scoringView>>

\* update_event gives an Event another start, awarded or not: only its season,
\* level and multiplier are fixed.  Other rules of the Event may refuse it.
ServeMoveEvent(i) ==
  /\ Waits(i, "moveEvent")
  /\ LET e == calls[i].arg.event
         to == calls[i].arg.to
     IN \/ /\ moment' = [moment EXCEPT ![e] = to]
           /\ awards' = {[a EXCEPT !.moved = @ \/ (a.event = e /\ moment[e] # to)] : a \in awards}
           /\ Done(i, Null)
        \/ Refused(i) /\ UNCHANGED <<moment, awards>>
  /\ UNCHANGED <<page, faults, busy, notice, policies, version, season, status, scoringView>>

(***************************************************************************)
(* The two panels that choose a Person.  Clicks on a Person, on "another   *)
(* Person" and on a participation do not look at busy, and a list of an    *)
(* earlier Person is shown whenever it arrives.                            *)
(***************************************************************************)
SearchPeople(k) ==
  /\ Uses(k) /\ MayClick /\ ~busy /\ desk.editor.mode = "none" /\ picker[k].person = Null
  /\ calls' = Append(calls, Call("people", k))
  /\ busy' = TRUE /\ notice' = "none"
  /\ UNCHANGED <<page, faults, scoringVars>>

ServePeople(i) ==
  /\ Waits(i, "people")
  /\ Done(i, Null)
  /\ UNCHANGED <<page, faults, busy, notice, scoringVars>>

ShowPeople(i) ==
  /\ Answered(i, "people")
  /\ picker' = [picker EXCEPT ![calls[i].arg].found = People]
  /\ busy' = FALSE
  /\ calls' = Over(i)
  /\ UNCHANGED <<page, faults, notice, scoringServer, refs, desk, seasonForm>>

SelectPerson(k, p) ==
  /\ Uses(k) /\ MayClick /\ desk.editor.mode = "none"
  /\ picker[k].person = Null /\ p \in picker[k].found
  /\ picker' = [picker EXCEPT ![k] = [@ EXCEPT !.person = p, !.adding = FALSE,
                                               !.play = Null, !.outcome = Null]]
  /\ calls' = Append(calls, IF k = "statuses"
                            THEN Call("listStatuses", [person |-> p, after |-> "chosen", made |-> Null])
                            ELSE Call("participations", p))
  /\ busy' = TRUE /\ notice' = "none"
  /\ UNCHANGED <<page, faults, scoringServer, refs, desk, seasonForm>>

ClearPerson(k) ==
  /\ desk.editor.mode = "none" /\ picker[k].person # Null
  /\ picker' = [picker EXCEPT ![k] = [NoOneChosen EXCEPT !.found = picker[k].found]]
  /\ UNCHANGED <<shell, scoringServer, refs, desk, seasonForm>>

OpenStatusForm(open) ==
  /\ ~busy /\ desk.editor.mode = "none" /\ picker["statuses"].person # Null
  /\ picker["statuses"].adding = ~open
  /\ picker' = [picker EXCEPT !["statuses"].adding = open]
  /\ notice' = IF open THEN "none" ELSE notice
  /\ UNCHANGED <<page, calls, faults, busy, scoringServer, refs, desk, seasonForm>>

AssignStatus ==
  /\ MayClick /\ ~busy /\ desk.editor.mode = "none" /\ picker["statuses"].adding
  /\ calls' = Append(calls, Call("assignStatus", [person |-> picker["statuses"].person]))
  /\ busy' = TRUE /\ notice' = "none"
  /\ UNCHANGED <<page, faults, scoringVars>>

\* The confirmation names the Person chosen now and the status of the row.
RetireStatus(s) ==
  /\ MayClick /\ ~busy /\ desk.editor.mode = "none" /\ picker["statuses"].person # Null
  /\ \E r \in picker["statuses"].rows : r.id = s /\ r.state = "ACTIVE"
  /\ calls' = Append(calls, Call("retireStatus", [person |-> picker["statuses"].person, id |-> s]))
  /\ busy' = TRUE /\ notice' = "none"
  /\ UNCHANGED <<page, faults, scoringVars>>

\* assign_status and retire_status, serialised by the lock of the Person; a
\* retired assignment may still cover the days that are asked for.
Taken(p) == \E s \in Statuses : StatusOf[s] = p /\ status[s] = "ACTIVE"

ServeAssignStatus(i) ==
  /\ Waits(i, "assignStatus")
  /\ LET p == calls[i].arg.person IN
     \/ \E s \in Statuses :
          /\ StatusOf[s] = p /\ status[s] = "ABSENT" /\ ~Taken(p)
          /\ status' = [status EXCEPT ![s] = "ACTIVE"]
          /\ Done(i, s)
     \/ /\ \E s \in Statuses : StatusOf[s] = p /\ status[s] # "ABSENT"
        /\ Refused(i) /\ UNCHANGED status
  /\ UNCHANGED <<page, faults, busy, notice, policies, version, season, moment, awards, scoringView>>

ServeRetireStatus(i) ==
  /\ Waits(i, "retireStatus")
  /\ LET s == calls[i].arg.id
         theirs == StatusOf[s] = calls[i].arg.person /\ status[s] # "ABSENT"
     IN \/ theirs /\ status' = [status EXCEPT ![s] = "RETIRED"] /\ Done(i, s)
        \/ ~theirs /\ Refused(i) /\ UNCHANGED status
  /\ UNCHANGED <<page, faults, busy, notice, policies, version, season, moment, awards, scoringView>>

StatusChanged(i) ==
  /\ Answered(i, "assignStatus") \/ Answered(i, "retireStatus")
  /\ picker' = IF calls[i].op = "assignStatus"
               THEN [picker EXCEPT !["statuses"].adding = FALSE] ELSE picker
  /\ calls' = Append(Over(i), Call("listStatuses", [person |-> calls[i].arg.person,
                                                    after |-> calls[i].op,
                                                    made |-> calls[i].data]))
  /\ UNCHANGED <<page, faults, busy, notice, scoringServer, refs, desk, seasonForm>>

ServeStatuses(i) ==
  /\ Waits(i, "listStatuses")
  /\ Done(i, StatusRows(calls[i].arg.person))
  /\ UNCHANGED <<page, faults, busy, notice, scoringVars>>

ShowStatuses(i) ==
  /\ Answered(i, "listStatuses")
  /\ picker' = [picker EXCEPT !["statuses"].rows = calls[i].data]
  /\ notice' = IF calls[i].arg.after = "chosen" THEN notice ELSE calls[i].arg.after
  /\ busy' = FALSE
  /\ calls' = Over(i)
  /\ UNCHANGED <<page, faults, scoringServer, refs, desk, seasonForm>>

StatusesFail(i) ==
  /\ Failed(i, "listStatuses")
  /\ notice' = IF calls[i].arg.after = "chosen" THEN "error" ELSE "stale"
  /\ busy' = FALSE
  /\ calls' = Over(i)
  /\ UNCHANGED <<page, faults, scoringVars>>

\* The simulator: participations of the chosen Person and a preview of one.
ServeParticipations(i) ==
  /\ Waits(i, "participations")
  /\ Done(i, {x \in Plays : PlayOf[x] = calls[i].arg})
  /\ UNCHANGED <<page, faults, busy, notice, scoringVars>>

ShowParticipations(i) ==
  /\ Answered(i, "participations")
  /\ picker' = [picker EXCEPT !["simulator"].rows = calls[i].data]
  /\ busy' = FALSE
  /\ calls' = Over(i)
  /\ UNCHANGED <<page, faults, notice, scoringServer, refs, desk, seasonForm>>

SelectPlay(x) ==
  /\ desk.editor.mode = "none" /\ picker["simulator"].person # Null
  /\ x \in picker["simulator"].rows
  /\ picker' = [picker EXCEPT !["simulator"].play = x, !["simulator"].outcome = Null]
  /\ UNCHANGED <<shell, scoringServer, refs, desk, seasonForm>>

Calculate ==
  /\ MayClick /\ ~busy /\ desk.editor.mode = "none" /\ picker["simulator"].play # Null
  /\ picker' = [picker EXCEPT !["simulator"].outcome = Null]
  /\ calls' = Append(calls, Call("preview", picker["simulator"].play))
  /\ busy' = TRUE
  /\ UNCHANGED <<page, faults, notice, scoringServer, refs, desk, seasonForm>>

ServePreview(i) ==
  /\ Waits(i, "preview")
  /\ Done(i, calls[i].arg) \/ Refused(i)
  /\ UNCHANGED <<page, faults, busy, notice, scoringVars>>

\* The points, or the reason why there are none.
ShowPreview(i) ==
  /\ Answered(i, "preview") \/ Failed(i, "preview")
  /\ picker' = [picker EXCEPT !["simulator"].outcome =
                  IF calls[i].ok THEN calls[i].data ELSE "explained"]
  /\ busy' = FALSE
  /\ calls' = Over(i)
  /\ UNCHANGED <<page, faults, notice, scoringServer, refs, desk, seasonForm>>

\* Another administrator, or the approval of a review, calls the server.
OtherScoring ==
  /\ MayClick
  /\ \/ /\ Uses("versions") /\ Uses("others")
        /\ \E v \in {w \in Versions : version[w].state # "ABSENT"} :
             \/ \E sound \in BOOLEAN :
                  calls' = Append(calls, OthersCall("saveVersion", [id |-> v, sound |-> sound]))
             \/ \E span \in Periods :
                  calls' = Append(calls, OthersCall("publish", [id |-> v, span |-> span]))
             \/ calls' = Append(calls, OthersCall("retireVersion", [id |-> v]))
     \/ /\ Uses("statuses") /\ Uses("others")
        /\ \E s \in Statuses :
             \/ calls' = Append(calls, OthersCall("assignStatus", [person |-> StatusOf[s]]))
             \/ calls' = Append(calls, OthersCall("retireStatus", [person |-> StatusOf[s], id |-> s]))
     \/ /\ Uses("season")
        /\ \/ \E e \in ScoredEvents : calls' = Append(calls, OthersCall("award", e))
           \/ \E e \in ScoredEvents, t \in Instants :
                calls' = Append(calls, OthersCall("moveEvent", [event |-> e, to |-> t]))
           \/ /\ Uses("others")
              /\ \/ \E p \in policies, t \in Instants :
                      calls' = Append(calls, OthersCall("assignSeason", [policy |-> p, from |-> t]))
                 \/ calls' = Append(calls, OthersCall("assignSeason", [policy |-> Null, from |-> 0]))
  /\ UNCHANGED <<page, faults, busy, notice, scoringVars>>

ScoringServes(i) ==
  \/ ServeReferences(i) \/ ServePublishable(i) \/ ServeCreatePolicy(i)
  \/ ServeVersions(i) \/ ServeVersion(i) \/ ServeCreateVersion(i) \/ ServeSaveVersion(i)
  \/ ProbePublish(i) \/ ServePublish(i) \/ ProbeRetire(i) \/ ServeRetire(i)
  \/ ServeAssignSeason(i) \/ BeginAward(i) \/ ServeAward(i) \/ ServeMoveEvent(i)
  \/ ServePeople(i) \/ ServeAssignStatus(i) \/ ServeRetireStatus(i) \/ ServeStatuses(i)
  \/ ServeParticipations(i) \/ ServePreview(i)

ScoringReceives(i) ==
  \/ LookUpVersions(i) \/ CommitReferences(i) \/ ReferencesFail(i) \/ PolicyCreated(i)
  \/ ChangeFails(i) \/ ShowVersions(i) \/ ShowVersion(i) \/ EditorSaved(i) \/ EditorFails(i)
  \/ SeasonAssigned(i) \/ ShowPeople(i) \/ StatusChanged(i) \/ ShowStatuses(i)
  \/ StatusesFail(i) \/ ShowParticipations(i) \/ ShowPreview(i)

ScoringClicks ==
  \/ CreatePolicy \/ NewDraft \/ EditValues \/ CloseEditor \/ SaveVersion \/ RetireVersion
  \/ OpenSeasonForm \/ CloseSeasonForm \/ AssignStatus \/ Calculate
  \/ \E p \in Policies : OpenPolicy(p)
  \/ \E p \in Policies, t \in Instants : AssignSeason(p, t)
  \/ \E v \in Versions : OpenVersion(v)
  \/ \E span \in Periods : PublishVersion(span)
  \/ \E k \in Panels : SearchPeople(k) \/ ClearPerson(k)
  \/ \E k \in Panels, p \in People : SelectPerson(k, p)
  \/ \E open \in BOOLEAN : OpenStatusForm(open)
  \/ \E s \in Statuses : RetireStatus(s)
  \/ \E x \in Plays : SelectPlay(x)

ScoringNext ==
  \/ ScoringClicks \/ OtherScoring
  \/ \E i \in DOMAIN calls :
       \/ ScoringServes(i) \/ ScoringReceives(i)
       \/ LoseCall(i) /\ UNCHANGED scoringVars

ScoringSpec == ScoringInit /\ [][ScoringNext]_<<shell, scoringVars>>

(***************************************************************************)
(* Properties.                                                             *)
(***************************************************************************)
\* However requests of several administrators overlap, no moment belongs to
\* two versions of a policy that were published, retired ones included.
PeriodsDisjoint == Disjoint(version)

\* The awards of a season never contradict it, although the season may change
\* while approvals are awarding: those from the day its policy is in force, and
\* only those, came from the policy.  An Event that is given another start
\* after its award (update_event recalculates nothing) leaves this rule, but a
\* season with awards of a policy keeps that policy even then.
HistoryFitsSeason == Fits(awards, season, moment, version)

\* A load that follows a change: when it ends well, the page reports the change
\* as saved, and the lists it shows by then hold that very change or a later
\* one of the same object; when it fails, the page says that its lists are old,
\* and the change stands on the server.  Nothing else reports success, whatever
\* other loads and changes are under way.
Successes == {"created", "assigned", "assignStatus", "retireStatus"}
Heard(i) == calls[i].phase = "done" /\ calls'[i].phase = "over"
LoadEnds(i) ==
  /\ Heard(i)
  /\ \/ calls[i].op = "references" /\ ~calls[i].ok
     \/ calls[i].op \in {"publishable", "listStatuses"}
  /\ calls[i].arg.after \in Successes

\* The row is the one that the change made, or of a later change.
Holds(row, made) == row = made \/ row.edition > made.edition
\* What the page shows after the step, and what the server keeps.
OnPage(after, made) ==
  CASE after = "created" -> made \in refs'.policies
    [] after = "assigned" -> Holds(refs'.season, made)
    [] after = "assignStatus" -> \E r \in picker'["statuses"].rows :
         r.id = made /\ (r.state = "ACTIVE" \/ status[made] = "RETIRED")
    [] after = "retireStatus" -> [id |-> made, state |-> "RETIRED"] \in picker'["statuses"].rows
OnServer(after, made) ==
  CASE after = "created" -> made \in policies
    [] after = "assigned" -> Holds(season, made)
    [] after = "assignStatus" -> status[made] # "ABSENT"
    [] after = "retireStatus" -> status[made] = "RETIRED"

SuccessIsShown ==
  [][/\ \A i \in DOMAIN calls : LoadEnds(i) =>
          LET load == calls[i].arg IN
          IF calls[i].ok THEN notice' = load.after /\ OnPage(load.after, load.made)
          ELSE notice' = "stale" /\ OnServer(load.after, load.made)
     /\ notice' # notice /\ notice' \in Successes => \E i \in DOMAIN calls : LoadEnds(i)
    ]_<<shell, scoringVars>>
=============================================================================
