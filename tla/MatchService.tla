---------------------------- MODULE MatchService ----------------------------
(***************************************************************************)
(* What the matchmaking service promises its tenants, without workers,     *)
(* transactions or partitions: a ticket waits until it is cancelled or     *)
(* matched; a match takes two waiting tickets of two players of one queue  *)
(* at once, and announces itself in the same step.                         *)
(***************************************************************************)
EXTENDS Naturals

CONSTANTS Tickets, Players, Queues, Nil

VARIABLES
    who,        \* the player and queue of a ticket, Nil before it exists
    status,     \* the state a client may see
    mates,      \* the pairs of tickets that are matches
    announced   \* the pairs of tickets the tenant is to be told about

svars == <<who, status, mates, announced>>

Claim == [player: Players, queue: Queues]

Init ==
    /\ who = [t \in Tickets |-> Nil]
    /\ status = [t \in Tickets |-> "none"]
    /\ mates = {}
    /\ announced = {}

Submit(t, c) ==
    /\ status[t] = "none"
    /\ \A u \in Tickets : status[u] = "waiting" => who[u] # c
    /\ who' = [who EXCEPT ![t] = c]
    /\ status' = [status EXCEPT ![t] = "waiting"]
    /\ UNCHANGED <<mates, announced>>

Cancel(t) ==
    /\ status[t] = "waiting"
    /\ status' = [status EXCEPT ![t] = "cancelled"]
    /\ UNCHANGED <<who, mates, announced>>

Match(t, u) ==
    /\ status[t] = "waiting" /\ status[u] = "waiting"
    /\ who[t].queue = who[u].queue /\ who[t].player # who[u].player
    /\ status' = [status EXCEPT ![t] = "matched", ![u] = "matched"]
    /\ mates' = mates \union {{t, u}}
    /\ announced' = announced \union {{t, u}}
    /\ UNCHANGED who

Next ==
    \/ \E t \in Tickets : Cancel(t) \/ \E c \in Claim : Submit(t, c)
    \/ \E t, u \in Tickets : Match(t, u)

Spec == Init /\ [][Next]_svars
=============================================================================
