------------------------------ MODULE LeasesInv ------------------------------
(***************************************************************************)
(* The inductive invariant behind LeaseProtects.  TLC checks it on small   *)
(* instances; LeasesProofs proves it for all.                              *)
(***************************************************************************)
EXTENDS Leases

(* Where the lease transaction of a worker may have written something. *)
Writing == {"claim", "rebalance", "commit"}

Drafted(w, p) == draft[w][p] # Nil

(* A transaction holds rows while it is open only, and writes only rows    *)
(* that are its own or nobody's; a worker works on a list in "match" only. *)
PassesAreClosed ==
    \A w \in Workers :
       /\ pc[w] \notin Writing => draft[w] = NoDraft
       /\ pc[w] # "match" => acting[w] = {}
       /\ \A p \in Partitions : Drafted(w, p) => draft[w][p].owned_by \in {w, Nil}

(* Row locks have one holder. *)
RowsAreLockedOnce ==
    \A v, w \in Workers : \A p \in Partitions : Drafted(v, p) /\ Drafted(w, p) => v = w

(* After renew_owned_partitions, a row that the transaction still sees as  *)
(* its own is locked by it: nobody can be claiming what it gives back.     *)
RenewedRowsAreLocked ==
    \A w \in Workers : \A p \in Partitions :
       pc[w] \in Writing /\ lease[p].owned_by = w /\ Live(w, lease[p]) => Drafted(w, p)

(* A lease with time left is in nobody else's draft, whatever the age of   *)
(* that transaction: an old now() sees leases as longer, never as shorter. *)
RunningLeasesAreSafe ==
    \A v, w \in Workers : \A p \in Partitions :
       lease[p].owned_by = w /\ lease[p].until > 0 /\ Drafted(v, p) => v = w

(* What a worker listed and still has time for is the committed row. *)
ListedLeasesStand ==
    \A w \in Workers : \A p \in acting[w] : left[w][p] > 0 =>
       lease[p] = [owned_by |-> w, until |-> left[w][p]]

IInv ==
    /\ TypeOK
    /\ PassesAreClosed
    /\ RowsAreLockedOnce
    /\ RenewedRowsAreLocked
    /\ RunningLeasesAreSafe
    /\ ListedLeasesStand
=============================================================================
