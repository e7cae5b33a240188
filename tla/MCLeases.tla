------------------------------ MODULE MCLeases ------------------------------
(* Instances of Leases for TLC. *)
EXTENDS LeasesInv, TLC

CONSTANTS w1, w2

Offsets == (w1 :> 0) @@ (w2 :> 1)
SameOffset == (w1 :> 0) @@ (w2 :> 0)
=============================================================================
