----------------------------- MODULE MCTicketApi -----------------------------
(* Instances of TicketApi for TLC. *)
EXTENDS TicketApiInv, TLC

CONSTANTS h1, h2, h3, a, b, c, d, k1, t1

(* Bodies of one tenant, each of a player of its own. *)
OneTenant == [x \in Bodies |-> t1]
OwnSlots == [x \in Bodies |-> x]
OnePartition == [x \in Bodies |-> 0]

(* Requests in progress are alike, and so are the bodies: SlotOf keeps them *)
(* apart, the other functions do not see them.                              *)
Symmetry == Permutations(Handlers) \union Permutations(Bodies)
=============================================================================
