-------------------------- MODULE MCAttendanceServer --------------------------
(***************************************************************************)
(* Two workers and one administrator.  Of the marks submitted, two share a *)
(* client_event_id with different payloads, two share a registration, one  *)
(* falls outside the narrower dates and one names an unknown registration. *)
(***************************************************************************)
EXTENDS AttendanceServer, TLC

CONSTANTS c1, c2, r1, ghost, p1, p2, w1, w2

MCClients == {c1, c2}
MCRegs == {r1}
MCUnknownRegs == {ghost}
MCPayloads == {p1, p2}
MCTimes == {1, 2}
MCWindows == {{1, 2}, {1}}

First   == [client |-> c1, reg |-> r1, payload |-> p1, at |-> 1]
Changed == [client |-> c1, reg |-> r1, payload |-> p2, at |-> 1]
Second  == [client |-> c2, reg |-> r1, payload |-> p1, at |-> 2]
Lost    == [client |-> c2, reg |-> ghost, payload |-> p1, at |-> 1]

MCBatches == {{First, Second}, {Changed}, {Lost}}
=============================================================================
