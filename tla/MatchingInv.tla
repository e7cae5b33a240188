---------------------------- MODULE MatchingInv ----------------------------
(***************************************************************************)
(* The inductive invariant behind the safety properties of Matching.  TLC  *)
(* checks it on small instances; MatchingProofs proves it for all.         *)
(***************************************************************************)
EXTENDS Matching

(* How far the open transaction of a worker has come, by its label. *)
HasEvent == {"commit"}
LinkedSecond == HasEvent \union {"insert_event"}
LinkedFirst == LinkedSecond \union {"link_second"}
HasMatch == LinkedFirst \union {"link_first"}
HoldsSecond == HasMatch \union {"insert_match"}
HoldsFirst == HoldsSecond \union {"reserve_second"}

Working == InPair \union {"commit"}

ReservedRow(w) == [status |-> "reserved", match_id |-> Nil, reserved_by |-> w]
MatchedRow(m) == [status |-> "matched", match_id |-> m, reserved_by |-> Nil]

Match(m, t) == [match_id |-> m, queue |-> request[t].queue]
Seat(m, t) == [match_id |-> m, ticket_id |-> t, player_id |-> request[t].player]
Event(m, t, u) == [match_id |-> m, queue |-> request[t].queue, ticket_ids |-> {t, u}]

(* A worker inside a pair has a pair: two tickets of its batch. *)
PairAtHand(w) ==
    /\ IF pc[w] \in Working \union {"pairs"}
       THEN partner[w] \in [DOMAIN batch[w] -> 0 .. Len(batch[w])]
       ELSE partner[w] = <<>>
    /\ pc[w] \in Working =>
          at[w] \in DOMAIN batch[w] /\ partner[w][at[w]] \in DOMAIN batch[w]

(* find_pairs pairs tickets of one queue, and a ticket keeps its queue. *)
PairsAreOfOneQueue(w) ==
    /\ \A i \in DOMAIN batch[w] : request[batch[w][i]] # Nil
    /\ pc[w] \in Working \union {"pairs"} =>
          \A i \in DOMAIN batch[w] : partner[w][i] # 0 =>
             request[batch[w][i]].queue = request[batch[w][partner[w][i]]].queue

(* Exactly what the open transaction has written so far: t and u are the   *)
(* tickets of the pair, m is the id of the match.                          *)
Written(w, t, u, m, x) ==
    IF x = t /\ pc[w] \in LinkedFirst THEN MatchedRow(m)
    ELSE IF x = t /\ pc[w] \in HoldsFirst THEN ReservedRow(w)
    ELSE IF x = u /\ pc[w] \in LinkedSecond THEN MatchedRow(m)
    ELSE IF x = u /\ pc[w] \in HoldsSecond THEN ReservedRow(w)
    ELSE Nil

DraftOf(w, t, u, m) ==
    /\ \A x \in Tickets : tx[w].rows[x] = Written(w, t, u, m, x)
    /\ tx[w].matches = IF pc[w] \in HasMatch THEN {Match(m, t)} ELSE {}
    /\ tx[w].match_players = (IF pc[w] \in LinkedFirst THEN {Seat(m, t)} ELSE {})
                             \union (IF pc[w] \in LinkedSecond THEN {Seat(m, u)} ELSE {})
    /\ tx[w].callback_events = IF pc[w] \in HasEvent THEN {Event(m, t, u)} ELSE {}

DraftFollowsTheCode(w) ==
    /\ pc[w] \notin HoldsFirst => tx[w] = NoDraft
    /\ pc[w] \in HoldsFirst =>
          \E m \in MatchIds \union {Nil} :
             /\ pc[w] \in HasMatch => m \in MatchIds
             /\ DraftOf(w, First(w), Second(w), m)
    /\ pc[w] \in HoldsSecond => First(w) # Second(w)

WorkerInv(w) == PairAtHand(w) /\ PairsAreOfOneQueue(w) /\ DraftFollowsTheCode(w)

(* Row locks: one holder, and what is locked is committed as waiting. *)
LocksAreExclusive ==
    \A v, w \in Workers : \A t \in Tickets :
       tx[v].rows[t] # Nil /\ tx[w].rows[t] # Nil => v = w

LockedIsWaiting ==
    \A w \in Workers : \A t \in Tickets :
       tx[w].rows[t] # Nil => ticket[t] = WaitingRow

(* The committed tickets. *)
TicketsAreSound ==
    \A t \in Tickets :
       /\ ticket[t].status = "none" <=> request[t] = Nil
       /\ ticket[t].status # "reserved"
       /\ ticket[t].status = "waiting" => ticket[t] = WaitingRow

OneActivePerPlayer ==
    \A t, u \in Tickets :
       Active(t) /\ Active(u) /\ SamePlayer(request[t], request[u]) => t = u

(* The committed matches. *)
FreshMatchIds ==
    /\ \A w \in Workers : \A m \in matches : \A r \in tx[w].matches : r.match_id # m.match_id
    /\ \A v, w \in Workers : \A q \in tx[v].matches : \A r \in tx[w].matches :
          q.match_id = r.match_id => v = w

SeatsAreTaken ==
    \A p \in match_players :
       /\ ticket[p.ticket_id] = MatchedRow(p.match_id)
       /\ p = Seat(p.match_id, p.ticket_id)
       /\ \E m \in matches : m.match_id = p.match_id

MatchesAreSound ==
    \A m \in matches :
       \E t, u \in Tickets :
          /\ t # u
          /\ request[t] # Nil /\ request[u] # Nil
          /\ PlayersOf(m.match_id) = {Seat(m.match_id, t), Seat(m.match_id, u)}
          /\ request[t].queue = m.queue /\ request[u].queue = m.queue
          /\ request[t].player # request[u].player
          /\ Event(m.match_id, t, u) \in callback_events

MatchedAreSeated ==
    /\ \A t \in Tickets : ticket[t].status = "matched" => Seat(ticket[t].match_id, t) \in match_players
    /\ \A e \in callback_events : \E m \in matches : m.match_id = e.match_id

TablesInv ==
    /\ TicketsAreSound
    /\ OneActivePerPlayer
    /\ SeatsAreTaken
    /\ MatchesAreSound
    /\ MatchedAreSeated

LocksInv == LocksAreExclusive /\ LockedIsWaiting /\ FreshMatchIds

IInv ==
    /\ TypeOK
    /\ \A w \in Workers : WorkerInv(w)
    /\ LocksInv
    /\ TablesInv

-----------------------------------------------------------------------------
(* Skills.  The code takes any three thresholds; whoever waits longer is   *)
(* to accept more (config.py:45 to 47).                                    *)
DeltasGrow == 0 <= SkillDelta[0] /\ SkillDelta[0] <= SkillDelta[1] /\ SkillDelta[1] <= SkillDelta[2]

SkillsFit(t, u) ==
    Distance(request[t].skill, request[u].skill)
      <= Larger(SkillDelta[waited[t]], SkillDelta[waited[u]])

(* The pairs still fit while the worker goes through them. *)
PairsAreClose(w) ==
    pc[w] \in Working \union {"pairs"} =>
       \A i \in DOMAIN batch[w] : partner[w][i] # 0 =>
          SkillsFit(batch[w][i], batch[w][partner[w][i]])

SkillInv == SkillsAreClose /\ \A w \in Workers : PairsAreClose(w)
=============================================================================
