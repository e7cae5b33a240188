------------------------------ MODULE MCSystem -------------------------------
(* Instances of System for TLC. *)
EXTENDS SystemInv, TLC

CONSTANTS w1, w2, m1, p1, p2, q1

Offsets == (w1 :> 0) @@ (w2 :> 0)
OnePartition == q1 :> 0
Deltas == (0 :> 1) @@ (1 :> 2) @@ (2 :> 4)
=============================================================================
