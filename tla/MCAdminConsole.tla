----------------------------- MODULE MCAdminConsole -----------------------------
(***************************************************************************)
(* The console for TLC: which panels a behaviour uses together, and small  *)
(* sets of Persons, Events, registrations, versions and workbooks.         *)
(***************************************************************************)
EXTENDS AdminConsole, TLC

CONSTANTS p1, p2, p3, s1, s2, x1, x2, q1, q2, v1, v2, v3, h1, h2

MCPages ==
  {{"policies"}, {"season"}, {"season", "others"}, {"season", "awarded"},
   {"versions"}, {"versions", "others"}, {"versions", "others", "awarded"}, {"statuses"},
   {"statuses", "others"}, {"simulator"},
   {"registrations", "registration"}, {"onsite"}, {"excel"}, {"rejected"},
   {"directory"}, {"person"}, {"person", "others"}, {"merge", "others"}, {"profile", "person"},
   {"session"}, {"list"}, {"cover", "others"}, {"fields"}, {"streams", "others"},
   {"settings"}, {"settings", "others"},
   {"queue"}, {"review"}, {"review", "others"}, {"approved", "others"}}
MCCalls ==
  [g \in MCPages |->
     CASE g = {"policies"} -> 6
       [] g \in {{"simulator"}, {"season", "awarded"}} -> 2
       [] "others" \in g /\ g \cap {"merge", "approved"} = {} -> 2
       [] OTHER -> 3]
\* Losses are left out where a refusal already takes the page the same way.
MCFaults ==
  [g \in MCPages |->
     IF g \cap {"versions", "season", "streams", "fields", "review", "approved"} # {}
        \/ g \in {{"statuses"}, {"settings"}}
     THEN 0 ELSE 1]

MCVersion ==
  v1 :> [policy |-> q1, state |-> "PUBLISHED", sound |-> TRUE, span |-> {1, 2}]
  @@ v2 :> [policy |-> q1, state |-> "DRAFT", sound |-> TRUE, span |-> {}]
  @@ v3 :> [policy |-> q1, state |-> "ABSENT", sound |-> FALSE, span |-> {}]
MCSeason == [policy |-> q1, from |-> 2, edition |-> 0]
MCMoment == h1 :> 2 @@ h2 :> 1
MCAwards == {[event |-> h1, engine |-> "V2", version |-> v1, moved |-> FALSE]}
MCPeriods == {{3}, {1, 2, 3}}
MCStatusOf == s1 :> p1 @@ s2 :> p2
MCPlayOf == x1 :> p1 @@ x2 :> p2
MCClashing == {{p1, p2}}
MCSpans == {{1}, {1, 2}}
=============================================================================
