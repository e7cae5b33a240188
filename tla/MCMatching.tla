----------------------------- MODULE MCMatching -----------------------------
(* Small instances of Matching for TLC. *)
EXTENDS MatchingInv, TLC

CONSTANTS w1, w2, m1, m2, p1, p2, p3, q1, q2

OnePartition == [q \in Queues |-> 0]
Deltas == (0 :> 1) @@ (1 :> 2) @@ (2 :> 4)

Symmetry == Permutations(Workers) \union Permutations(MatchIds) \union Permutations(Players)
=============================================================================
