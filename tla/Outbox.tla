------------------------------- MODULE Outbox -------------------------------
(***************************************************************************)
(* What the callback outbox promises a tenant about a match, without       *)
(* dispatchers, claims, locks or retries: the tenant is POSTed the event,  *)
(* and the verdict that GET /v1/matches shows rests on those POSTs.        *)
(***************************************************************************)
EXTENDS Naturals

CONSTANTS Events, MaxAttempts

VARIABLES
    told,       \* the match and its event exist
    attempts,   \* POSTs of the event that ended
    taken,      \* the tenant answered one of them with 2xx
    verdict     \* what the match says of its callback

ovars == <<told, attempts, taken, verdict>>

Init ==
    /\ told = [e \in Events |-> FALSE]
    /\ attempts = [e \in Events |-> 0]
    /\ taken = [e \in Events |-> FALSE]
    /\ verdict = [e \in Events |-> "open"]

Announce(e) ==
    /\ ~told[e]
    /\ told' = [told EXCEPT ![e] = TRUE]
    /\ UNCHANGED <<attempts, taken, verdict>>

(* At least once: also after a verdict. *)
Attempt(e, took) ==
    /\ told[e]
    /\ attempts' = [attempts EXCEPT ![e] = @ + 1]
    /\ taken' = [taken EXCEPT ![e] = @ \/ took]
    /\ UNCHANGED <<told, verdict>>

Deliver(e) ==
    /\ taken[e]
    /\ verdict' = [verdict EXCEPT ![e] = "delivered"]
    /\ UNCHANGED <<told, attempts, taken>>

GiveUp(e) ==
    /\ attempts[e] >= MaxAttempts
    /\ verdict' = [verdict EXCEPT ![e] = "failed"]
    /\ UNCHANGED <<told, attempts, taken>>

Next ==
    \E e \in Events :
       \/ Announce(e)
       \/ \E took \in BOOLEAN : Attempt(e, took)
       \/ Deliver(e)
       \/ GiveUp(e)

Safety == Init /\ [][Next]_ovars

Spec ==
    /\ Safety
    /\ \A e \in Events : told[e] ~> verdict[e] # "open"
=============================================================================
