----------------------------- MODULE MCCallbacks -----------------------------
(* Instances of Callbacks for TLC. *)
EXTENDS CallbacksInv, TLC

CONSTANTS d1, d2, e1, e2, e3, t1, t2

OneEvent == (e1 :> t1)
Shares == (e1 :> t1) @@ (e2 :> t2) @@ (e3 :> t1)
TwoTenants == (e1 :> t1) @@ (e2 :> t2)
Symmetry == Permutations({d1, d2})
=============================================================================
