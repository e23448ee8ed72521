---------------------------- MODULE MCRegistration ----------------------------
(***************************************************************************)
(* Instances of Registration: one Event with a stream, one without.        *)
(***************************************************************************)
EXTENDS Registration, TLC

EventOfPlace == [s1 |-> "e1", main |-> "e2"]

Sent(source, place, request, ids, group, override) ==
  [source |-> source, place |-> place, request |-> request, ids |-> ids,
   group |-> group, override |-> override]

CONSTANTS a, x

\* Two public forms of one student for two Events, the first sent again with
\* its request id, an on-site form that overbooks and names the roster's group,
\* and a file with the student's telephone.
MixedForms ==
  {Sent("PUBLIC_FORM", "s1", "q1", {a}, FALSE, FALSE),
   Sent("PUBLIC_FORM", "main", None, {a, x}, FALSE, FALSE),
   Sent("ONSITE", "s1", None, {x}, TRUE, TRUE),
   Sent("EXCEL_IMPORT", "s1", "j1", {x}, FALSE, FALSE)}

Interchangeable ==
  Permutations(Txns) \cup Permutations(Regs) \cup Permutations(People \ Roster)
=============================================================================
