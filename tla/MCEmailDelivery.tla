--------------------------- MODULE MCEmailDelivery ---------------------------
(***************************************************************************)
(* Instances of EmailDelivery.  Workers are interchangeable, and so are    *)
(* the addresses: the run without liveness counts one of each such class.  *)
(***************************************************************************)
EXTENDS EmailDelivery, TLC

Interchangeable == Permutations(Workers) \cup Permutations(Addresses)
=============================================================================
