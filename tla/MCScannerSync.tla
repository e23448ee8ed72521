---------------------------- MODULE MCScannerSync ----------------------------
(***************************************************************************)
(* Instances of ScannerSync: which flows run is what a run is about.       *)
(***************************************************************************)
EXTENDS ScannerSync, TLC

Delivery == [flows |-> {"record", "interval", "handoff"}, marks |-> {1, 2}, faults |-> 1]
Refresh == [flows |-> {"record", "interval", "reconnect"}, marks |-> {1}, faults |-> 1]
Submission == {Delivery, Refresh}
Accounts == {[flows |-> {"interval", "load", "prepare", "logout"}, marks |-> {1}, faults |-> 2]}
Everyday == {[flows |-> {"record", "interval", "load", "logout"}, marks |-> {1}, faults |-> 2]}
TakenOver == {[flows |-> {"record", "load"}, marks |-> {1, 2}, faults |-> 2]}
=============================================================================
