---------------------------- MODULE MCTimedStore ----------------------------
(* Instances of TimedStore for TLC. *)
EXTENDS TimedStore

CONSTANTS w1, w2, k1, k2, b1

OneBackend == [k \in Key |-> b1]
=============================================================================
