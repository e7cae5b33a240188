---------------------------- MODULE CallbacksInv ----------------------------
(***************************************************************************)
(* The inductive invariant behind the safety properties of Callbacks and   *)
(* behind its refinement of Outbox.  TLC checks it on small instances;     *)
(* CallbacksProofs proves it for all.                                      *)
(***************************************************************************)
EXTENDS Callbacks

Claiming == {"lock", "commit"}
InTurn == {"post", "persist", "release"}

(* A dispatcher has claimed, and works on, events that were announced.     *)
EventsAreTold ==
    \A d \in Dispatchers :
       /\ \A e \in picked[d] : event[e].status # "none"
       /\ pc[d] \in InTurn => event[current[d]].status # "none"

(* What a match says of its callback rests on POSTs that were made, and    *)
(* the outbox never says more than the match.                              *)
VerdictsRest ==
    \A e \in Events :
       /\ match_status[e] = "callback_delivered" => received[e]
       /\ match_status[e] = "callback_failed" => posts[e] >= MaxAttempts
       /\ event[e].status = "delivered" => match_status[e] = "callback_delivered"
       /\ event[e].status = "failed" => match_status[e] = "callback_failed"

(* No delivery error: the tenant took the event. *)
NoErrorIsReceipt ==
    \A d \in Dispatchers : pc[d] = "persist" /\ ~error[d] => received[current[d]]

(* A POST counts as one attempt at most, and until its outcome is written  *)
(* as none: several dispatchers may be at that point with the same event.  *)
Outstanding(e) == {d \in Dispatchers : pc[d] = "persist" /\ current[d] = e}

AttemptsWereMade ==
    \A e \in Events : event[e].attempts + Cardinality(Outstanding(e)) <= posts[e]

(* CallbackEvent.attempts may be stale, and then it is too small. *)
KnownIsPast ==
    \A d \in Dispatchers : \A e \in Events : known[d][e] <= event[e].attempts

ClaimsAreOwned ==
    \A e \in Events : event[e].status = "in_progress" => event[e].locked_by \in Dispatchers

(* What a dispatcher has in flight with a tenant, and what it is claiming, *)
(* fits into the tenant's limit together: the share was computed from a    *)
(* snapshot, and since then others can only have taken from this.          *)
OwnInFlight(d, t) == {e \in InFlight(t) : event[e].locked_by = d}
BeingClaimed(d, t) == {e \in picked[d] : TenantOf[e] = t /\ pc[d] \in Claiming}

SharesAreKept ==
    \A d \in Dispatchers : \A t \in Tenants :
       Cardinality(OwnInFlight(d, t) \union BeingClaimed(d, t)) <= TenantLimit

IInv ==
    /\ TypeOK
    /\ EventsAreTold
    /\ VerdictsRest
    /\ NoErrorIsReceipt
    /\ AttemptsWereMade
    /\ KnownIsPast
    /\ ClaimsAreOwned
    /\ SharesAreKept
=============================================================================
