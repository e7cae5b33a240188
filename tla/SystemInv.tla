------------------------------ MODULE SystemInv ------------------------------
(***************************************************************************)
(* The inductive invariant behind the safety properties of System.  TLC    *)
(* checks it on a small instance; SystemProofs proves it for all.          *)
(***************************************************************************)
EXTENDS System, LeasesInv

(* The stages in which a worker may hold a batch. *)
Fetched == M!Working \union {"fetch_oldest", "find", "pairs"}

(* The work of a pass is done in the pass: after its list, before its end. *)
StageFollowsThePass(w) ==
    /\ pc[w] = "down" <=> stage[w] = "down"
    /\ stage[w] = "fetch" => pc[w] \in {"list", "match"}
    /\ stage[w] \in Fetched => pc[w] = "match"

(* A worker has tickets of partitions that it listed in this pass, and     *)
(* drops them with the list.                                               *)
BatchIsListed(w) ==
    /\ stage[w] \notin Fetched => batch[w] = <<>>
    /\ stage[w] = "fetch_oldest" => owned[w] \subseteq acting[w]
    /\ \A t \in Tickets : Working(w, t) => PartitionOf[request[t].queue] \in acting[w]

(* The matches there are, and those whose commit is the next step. *)
Made == matches \union
        {r \in M!MatchRow : \E w \in Workers : stage[w] = "commit" /\ r \in tx[w].matches}

(* A match is counted when it is made, which is before it can be seen. *)
MadeAreCounted ==
    /\ matches_created \in Nat
    /\ IsFiniteSet(Made)
    /\ Cardinality(Made) <= matches_created

SInv ==
    /\ IInv
    /\ M!IInv
    /\ \A w \in Workers : StageFollowsThePass(w) /\ BatchIsListed(w)
    /\ MadeAreCounted
=============================================================================
