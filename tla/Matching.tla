------------------------------ MODULE Matching ------------------------------
(***************************************************************************)
(* The matchmaking core: worker processes that pair waiting tickets inside *)
(* PostgreSQL transactions (READ COMMITTED), next to API requests that     *)
(* create and cancel tickets.                                              *)
(*                                                                         *)
(* Committed rows are in ticket, matches, match_players, callback_events.  *)
(* tx[w] holds what worker w's open transaction has written; a ticket row  *)
(* written by an open transaction is locked, and every other reader still  *)
(* sees the committed version.  Which partitions a worker believes it owns *)
(* is left open here (module Leases models it): FetchTickets takes any set *)
(* of partitions, so nothing below rests on exclusive ownership.           *)
(***************************************************************************)
EXTENDS Naturals, Integers, Sequences, FiniteSets, SequencesExt

CONSTANTS
    Workers,        \* worker ids
    Tickets,        \* ticket ids, numbered in the order of created_at
    MatchIds,       \* match ids (UUIDs: a fresh one is never in use)
    Players,        \* player ids
    Queues,         \* (tenant_id, region, queue_name) triples
    Partitions,     \* logical partitions
    PartitionOf,    \* compute_partition_id, a function of the queue
    Skills,         \* skills a ticket may ask with
    SkillDelta,     \* the allowed skill difference by stage of waiting
    MaxStage,       \* bound: the last stage of waiting a ticket reaches (0..2)
    BatchSize,      \* worker_ticket_batch_size
    FreshnessBias,  \* worker_freshness_bias
    MaxPairs,       \* worker_max_pairs_per_loop
    CommitInOrder,  \* bound: tickets are committed in the order of created_at
    Nil             \* SQL NULL, and "not written"

ASSUME TicketsAssumption == Tickets \subseteq Nat
ASSUME BatchAssumption ==
    BatchSize \in Nat /\ FreshnessBias \in BOOLEAN /\ CommitInOrder \in BOOLEAN
ASSUME PartitionAssumption == PartitionOf \in [Queues -> Partitions]
ASSUME StageAssumption == MaxStage \in 0 .. 2
ASSUME SkillAssumption == Skills \subseteq Int /\ SkillDelta \in [0 .. 2 -> Int]

VARIABLES
    request,          \* the immutable columns of a ticket: player, queue, skill
    waited,           \* stage of waiting: 0, then >= 30 s, then >= 60 s
    ticket,           \* the mutable columns of a ticket
    matches,          \* rows of table matches
    match_players,    \* rows of table match_players
    callback_events,  \* rows of table callback_events
    tx,               \* the uncommitted writes of each worker's transaction
    pc,               \* where each worker is in run_loop
    owned,            \* the partitions listed for the fetch under way
    batch,            \* the tickets the worker fetched, in order
    partner,          \* find_pairs: index of the second ticket, 0 for none
    at,               \* the worker's position in its list of pairs
    made              \* matches_created_this_loop

tables == <<ticket, matches, match_players, callback_events>>
local == <<owned, batch, partner, at, made>>
vars == <<request, waited, tables, tx, pc, local>>

-----------------------------------------------------------------------------
(* Rows. *)

Request == [player: Players, queue: Queues, skill: Skills]

Row == [status: {"none", "waiting", "reserved", "matched", "cancelled"},
        match_id: MatchIds \union {Nil},
        reserved_by: Workers \union {Nil}]

NoRow == [status |-> "none", match_id |-> Nil, reserved_by |-> Nil]
WaitingRow == [status |-> "waiting", match_id |-> Nil, reserved_by |-> Nil]

ASSUME NilAssumption == Nil \notin Workers \union MatchIds \union Request \union Row

MatchRow == [match_id: MatchIds, queue: Queues]
PlayerRow == [match_id: MatchIds, ticket_id: Tickets, player_id: Players]
EventRow == [match_id: MatchIds, queue: Queues, ticket_ids: SUBSET Tickets]

Draft == [rows: [Tickets -> Row \union {Nil}],
          matches: SUBSET MatchRow,
          match_players: SUBSET PlayerRow,
          callback_events: SUBSET EventRow]

NoDraft == [rows |-> [t \in Tickets |-> Nil],
            matches |-> {}, match_players |-> {}, callback_events |-> {}]

(* The row as worker w's own transaction sees it. *)
View(w, t) == IF tx[w].rows[t] # Nil THEN tx[w].rows[t] ELSE ticket[t]

Locked(t) == \E w \in Workers : tx[w].rows[t] # Nil
LockedByOther(w, t) == \E v \in Workers \ {w} : tx[v].rows[t] # Nil

Active(t) == ticket[t].status \in {"waiting", "reserved"}

(* The columns of uq_active_ticket_per_player_queue. *)
SamePlayer(r, s) == r.player = s.player /\ r.queue = s.queue

-----------------------------------------------------------------------------
(* Fetching and pairing. *)

(* ORDER BY ... LIMIT n over the set S. *)
Listing(S, n, Before(_, _)) ==
    {s \in BoundedSeq(S, n) :
        /\ \A i, j \in DOMAIN s : i < j => Before(s[i], s[j])
        /\ \A t \in S \ Range(s) :
              Len(s) = n /\ \A i \in DOMAIN s : Before(s[i], t)}

Oldest(S, n) == Listing(S, n, LAMBDA t, u : t < u)
Newest(S, n) == Listing(S, n, LAMBDA t, u : t > u)

WaitingIn(ps) ==
    {t \in Tickets : /\ ticket[t].status = "waiting"
                     /\ PartitionOf[request[t].queue] \in ps}

newest_limit == (BatchSize + 1) \div 2
oldest_limit == BatchSize - newest_limit

Larger(m, n) == IF m >= n THEN m ELSE n
Distance(m, n) == IF m >= n THEN m - n ELSE n - m

(* Mutants: the queue is not compared; every pair is judged as if it had   *)
(* waited longest.                                                         *)
AnyQueueCompatible(t, u) ==
    Distance(request[t].skill, request[u].skill)
       <= Larger(SkillDelta[waited[t]], SkillDelta[waited[u]])

PatientCompatible(t, u) ==
    /\ request[t].queue = request[u].queue
    /\ Distance(request[t].skill, request[u].skill) <= SkillDelta[2]

tickets_compatible(t, u) ==
    /\ request[t].queue = request[u].queue
    /\ Distance(request[t].skill, request[u].skill)
         <= Larger(SkillDelta[waited[t]], SkillDelta[waited[u]])

(* The greedy first-fit pairing of the list b: each index not already used *)
(* takes the first later compatible index that is not used either.         *)
find_pairs(b) ==
    LET Later(p, i) ==
          {j \in i + 1 .. Len(b) : /\ tickets_compatible(b[i], b[j])
                                   /\ \A k \in 1 .. i - 1 : p[k] # j}
    IN {p \in [1 .. Len(b) -> 0 .. Len(b)] :
          \A i \in 1 .. Len(b) :
             IF \E k \in 1 .. i - 1 : p[k] = i
             THEN p[i] = 0
             ELSE \/ p[i] = 0 /\ Later(p, i) = {}
                  \/ p[i] \in Later(p, i) /\ \A j \in Later(p, i) : p[i] <= j}

Pending(w) == {i \in DOMAIN batch[w] : i >= at[w] /\ partner[w][i] # 0}
First(w) == batch[w][at[w]]
Second(w) == batch[w][partner[w][at[w]]]

-----------------------------------------------------------------------------
Init ==
    /\ request = [t \in Tickets |-> Nil]
    /\ waited = [t \in Tickets |-> 0]
    /\ ticket = [t \in Tickets |-> NoRow]
    /\ matches = {} /\ match_players = {} /\ callback_events = {}
    /\ tx = [w \in Workers |-> NoDraft]
    /\ pc = [w \in Workers |-> "idle"]
    /\ owned = [w \in Workers |-> {}]
    /\ batch = [w \in Workers |-> <<>>]
    /\ partner = [w \in Workers |-> <<>>]
    /\ at = [w \in Workers |-> 1]
    /\ made = [w \in Workers |-> 0]

-----------------------------------------------------------------------------
(* The API. *)

(* Mutant: the table has no unique index. *)
CreateTicketTwice(t, r) ==
    /\ ticket[t].status = "none"
    /\ CommitInOrder => \A u \in Tickets : u < t => ticket[u].status # "none"
    /\ request' = [request EXCEPT ![t] = r]
    /\ ticket' = [ticket EXCEPT ![t] = WaitingRow]
    /\ UNCHANGED <<waited, matches, match_players, callback_events, tx, pc, local>>

(* INSERT of a waiting ticket.  The unique index refuses it while the      *)
(* player has an active ticket in the queue, and makes it wait while that  *)
(* ticket's row is being changed by an open transaction.                   *)
CreateTicket(t, r) ==
    /\ ticket[t].status = "none"
    /\ CommitInOrder => \A u \in Tickets : u < t => ticket[u].status # "none"
    /\ \A u \in Tickets : Active(u) => ~SamePlayer(request[u], r)
    /\ request' = [request EXCEPT ![t] = r]
    /\ ticket' = [ticket EXCEPT ![t] = WaitingRow]
    /\ UNCHANGED <<waited, matches, match_players, callback_events, tx, pc, local>>

(* Mutant: the cancel does not look at the status. *)
CancelAnyTicket(t) ==
    /\ ticket[t].status # "none"
    /\ ~Locked(t)
    /\ ticket' = [ticket EXCEPT ![t].status = "cancelled"]
    /\ UNCHANGED <<request, waited, matches, match_players, callback_events, tx, pc, local>>

(* UPDATE ... WHERE status IN ('waiting', 'reserved'): waits for the lock  *)
(* of an open transaction and then judges the row that transaction left.   *)
CancelTicket(t) ==
    /\ Active(t)
    /\ ~Locked(t)
    /\ ticket' = [ticket EXCEPT ![t].status = "cancelled"]
    /\ UNCHANGED <<request, waited, matches, match_players, callback_events, tx, pc, local>>

(* A waiting ticket passes the next threshold of skill_delta; an older one *)
(* passes it first.                                                        *)
PassThreshold(t) ==
    /\ ticket[t].status = "waiting"
    /\ waited[t] < MaxStage
    /\ \A u \in Tickets : u < t => waited[u] > waited[t] \/ ~Active(u)
    /\ waited' = [waited EXCEPT ![t] = @ + 1]
    /\ UNCHANGED <<request, tables, tx, pc, local>>

-----------------------------------------------------------------------------
(* One pass of run_loop. *)

Goto(w, label) == pc' = [pc EXCEPT ![w] = label]

(* cleanup_expired_reservations, committed on its own: every expired       *)
(* reservation goes back to waiting, once no open transaction holds it.    *)
CleanupReservations(w) ==
    /\ pc[w] = "idle"
    /\ \E expired \in SUBSET {t \in Tickets : ticket[t].status = "reserved"} :
          /\ \A t \in expired : ~Locked(t)
          /\ ticket' = [t \in Tickets |-> IF t \in expired
                                       THEN [ticket[t] EXCEPT !.status = "waiting",
                                                              !.reserved_by = Nil]
                                       ELSE ticket[t]]
    /\ Goto(w, "fetch")
    /\ UNCHANGED <<request, waited, matches, match_players, callback_events, tx, local>>

(* list_owned_partitions (any answer) and the first SELECT of              *)
(* fetch_waiting_tickets.                                                  *)
FetchTickets(w, listed) ==
    /\ pc[w] = "fetch"
    /\ IF FreshnessBias /\ listed # {}
       THEN /\ \E s \in Newest(WaitingIn(listed), newest_limit) :
                  batch' = [batch EXCEPT ![w] = s]
            /\ owned' = [owned EXCEPT ![w] = listed]
            /\ Goto(w, "fetch_oldest")
       ELSE /\ \E s \in Oldest(WaitingIn(listed), BatchSize) :
                  batch' = [batch EXCEPT ![w] = s]
            /\ Goto(w, "find")
            /\ UNCHANGED owned
    /\ UNCHANGED <<request, waited, tables, tx, partner, at, made>>

(* The second SELECT sees what was committed since the first; what the     *)
(* first one returned is left out of its answer.                           *)
FetchOldest(w) ==
    /\ pc[w] = "fetch_oldest"
    /\ \E s \in Oldest(WaitingIn(owned[w]), oldest_limit) :
          \E unseen \in Oldest(Range(s) \ Range(batch[w]), oldest_limit) :
             batch' = [batch EXCEPT ![w] = @ \o unseen]
    /\ owned' = [owned EXCEPT ![w] = {}]
    /\ Goto(w, "find")
    /\ UNCHANGED <<request, waited, tables, tx, partner, at, made>>

FindPairs(w) ==
    /\ pc[w] = "find"
    /\ \E p \in find_pairs(batch[w]) : partner' = [partner EXCEPT ![w] = p]
    /\ Goto(w, "pairs")
    /\ UNCHANGED <<request, waited, tables, tx, owned, batch, at, made>>

(* The next pair, unless the loop has made its maximum of matches. *)
StartPair(w) ==
    /\ pc[w] = "pairs"
    /\ made[w] < MaxPairs
    /\ \E i \in Pending(w) :
          /\ \A j \in Pending(w) : i <= j
          /\ at' = [at EXCEPT ![w] = i]
    /\ Goto(w, "reserve_first")
    /\ UNCHANGED <<request, waited, tables, tx, owned, batch, partner, made>>

(* Mutant: the pairs of the last loop stay. *)
ForgetBatchOnly(w) ==
    /\ owned' = [owned EXCEPT ![w] = {}]
    /\ batch' = [batch EXCEPT ![w] = <<>>]
    /\ at' = [at EXCEPT ![w] = 1]
    /\ made' = [made EXCEPT ![w] = 0]
    /\ UNCHANGED partner

Forget(w) ==
    /\ owned' = [owned EXCEPT ![w] = {}]
    /\ batch' = [batch EXCEPT ![w] = <<>>]
    /\ partner' = [partner EXCEPT ![w] = <<>>]
    /\ at' = [at EXCEPT ![w] = 1]
    /\ made' = [made EXCEPT ![w] = 0]

(* No pair is left, the maximum is reached, or the loop's time budget is   *)
(* exceeded, which may happen before any pair.                             *)
EndLoop(w) ==
    /\ pc[w] = "pairs"
    /\ Forget(w)
    /\ Goto(w, "idle")
    /\ UNCHANGED <<request, waited, tables, tx>>

Discard(w) == tx' = [tx EXCEPT ![w] = NoDraft]

(* conn.rollback() and on to the next pair. *)
RollbackPair(w) ==
    /\ Discard(w)
    /\ at' = [at EXCEPT ![w] = @ + 1]
    /\ Goto(w, "pairs")
    /\ UNCHANGED <<request, waited, tables, owned, batch, partner, made>>

Write(w, t, row) == tx' = [tx EXCEPT ![w].rows[t] = row]

Reserve(w, t) ==
    /\ View(w, t).status = "waiting"
    /\ ~LockedByOther(w, t)
    /\ Write(w, t, [status |-> "reserved", match_id |-> View(w, t).match_id, reserved_by |-> w])

ReserveFirst(w) ==
    /\ pc[w] = "reserve_first"
    /\ Reserve(w, First(w))
    /\ Goto(w, "reserve_second")
    /\ UNCHANGED <<request, waited, tables, local>>

ReserveSecond(w) ==
    /\ pc[w] = "reserve_second"
    /\ Reserve(w, Second(w))
    /\ Goto(w, "insert_match")
    /\ UNCHANGED <<request, waited, tables, local>>

(* COMMIT: what the transaction wrote becomes the committed rows. *)
Apply(w) ==
    /\ ticket' = [t \in Tickets |-> View(w, t)]
    /\ matches' = matches \union tx[w].matches
    /\ match_players' = match_players \union tx[w].match_players
    /\ callback_events' = callback_events \union tx[w].callback_events

(* Mutant: the caller commits what the first reservation wrote. *)
LosePairCommits(w) ==
    /\ \/ pc[w] = "reserve_first" /\ View(w, First(w)).status # "waiting"
       \/ pc[w] = "reserve_second" /\ View(w, Second(w)).status # "waiting"
    /\ Apply(w)
    /\ Discard(w)
    /\ at' = [at EXCEPT ![w] = @ + 1]
    /\ Goto(w, "pairs")
    /\ UNCHANGED <<request, waited, owned, batch, partner, made>>

(* create_match_from_pair returns False: the first ticket, if it was       *)
(* reserved, is released, and the caller rolls the transaction back.       *)
LosePair(w) ==
    /\ \/ pc[w] = "reserve_first" /\ View(w, First(w)).status # "waiting"
       \/ pc[w] = "reserve_second" /\ View(w, Second(w)).status # "waiting"
    /\ RollbackPair(w)

InsertMatch(w) ==
    /\ pc[w] = "insert_match"
    /\ \E m \in MatchIds :
          /\ \A r \in matches : r.match_id # m
          /\ \A v \in Workers : \A r \in tx[v].matches : r.match_id # m
          /\ tx' = [tx EXCEPT ![w].matches =
                      {[match_id |-> m, queue |-> request[First(w)].queue]}]
    /\ Goto(w, "link_first")
    /\ UNCHANGED <<request, waited, tables, local>>

(* INSERT INTO match_players, then the UPDATE of the ticket that is still  *)
(* reserved by this worker.                                                *)
LinkTicket(w, t, m) ==
    LET inserted == [match_id |-> m, ticket_id |-> t, player_id |-> request[t].player]
        mine == View(w, t).status = "reserved" /\ View(w, t).reserved_by = w
    IN tx' = [tx EXCEPT
                ![w].match_players = @ \union {inserted},
                ![w].rows[t] = IF mine
                               THEN [status |-> "matched", match_id |-> m, reserved_by |-> Nil]
                               ELSE @]

LinkFirst(w) ==
    /\ pc[w] = "link_first"
    /\ \E r \in tx[w].matches : LinkTicket(w, First(w), r.match_id)
    /\ Goto(w, "link_second")
    /\ UNCHANGED <<request, waited, tables, local>>

LinkSecond(w) ==
    /\ pc[w] = "link_second"
    /\ \E r \in tx[w].matches : LinkTicket(w, Second(w), r.match_id)
    /\ Goto(w, "insert_event")
    /\ UNCHANGED <<request, waited, tables, local>>

(* Mutant: the outbox row is forgotten. *)
InsertNoEvent(w) ==
    /\ pc[w] = "insert_event"
    /\ Goto(w, "commit")
    /\ UNCHANGED <<request, waited, tables, tx, local>>

InsertEvent(w) ==
    /\ pc[w] = "insert_event"
    /\ \E r \in tx[w].matches :
          tx' = [tx EXCEPT ![w].callback_events =
                   {[match_id |-> r.match_id, queue |-> r.queue,
                     ticket_ids |-> {First(w), Second(w)}]}]
    /\ Goto(w, "commit")
    /\ UNCHANGED <<request, waited, tables, local>>

InPair == {"reserve_first", "reserve_second", "insert_match", "link_first",
           "link_second", "insert_event"}

(* Mutant: what was written before the error is committed. *)
PairFailsHalfway(w) ==
    /\ pc[w] \in InPair
    /\ Apply(w)
    /\ Discard(w)
    /\ at' = [at EXCEPT ![w] = @ + 1]
    /\ Goto(w, "pairs")
    /\ UNCHANGED <<request, waited, owned, batch, partner, made>>

(* A statement raises: whatever create_match_from_pair released on its way *)
(* out, the caller rolls the whole transaction back.                       *)
PairFails(w) ==
    /\ pc[w] \in InPair
    /\ RollbackPair(w)

(* w waits for a row that v's open transaction holds. *)
Blocks(v, w) ==
    \/ pc[w] = "reserve_first" /\ tx[v].rows[First(w)] # Nil /\ v # w
    \/ pc[w] = "reserve_second" /\ tx[v].rows[Second(w)] # Nil /\ v # w

(* PostgreSQL's deadlock detector aborts one transaction of a cycle of     *)
(* waits.  A worker waits for one holder at a time, so a set of workers in *)
(* which each waits for one and blocks one is a cycle.                     *)
InDeadlock(w) ==
    /\ pc[w] \in {"reserve_first", "reserve_second"}
    /\ \E cycle \in SUBSET Workers :
       /\ w \in cycle
       /\ \A v \in cycle : (\E u \in cycle : Blocks(u, v)) /\ (\E u \in cycle : Blocks(v, u))

(* Mutant: the pair is tried again at once, in the same order. *)
DeadlockRetry(w) ==
    /\ InDeadlock(w)
    /\ Discard(w)
    /\ Goto(w, "reserve_first")
    /\ UNCHANGED <<request, waited, tables, local>>

(* The statement raises like any other, and the loop goes on to the next   *)
(* pair: the two workers do not meet on this one again.                    *)
DeadlockAbort(w) ==
    /\ InDeadlock(w)
    /\ RollbackPair(w)

Commit(w) ==
    /\ pc[w] = "commit"
    /\ Apply(w)
    /\ Discard(w)
    /\ made' = [made EXCEPT ![w] = @ + 1]
    /\ at' = [at EXCEPT ![w] = @ + 1]
    /\ Goto(w, "pairs")
    /\ UNCHANGED <<request, waited, owned, batch, partner>>

(* The connection is lost at the commit, which is outside the try: run_loop *)
(* raises, and the transaction was applied or it was not.                   *)
CommitLost(w) ==
    /\ pc[w] = "commit"
    /\ Apply(w) \/ UNCHANGED tables
    /\ Discard(w)
    /\ Forget(w)
    /\ Goto(w, "idle")
    /\ UNCHANGED <<request, waited>>

(* A statement of the loop outside the pairs raises: run_loop is left. *)
LoopFails(w) ==
    /\ pc[w] \in {"fetch", "fetch_oldest", "find", "pairs"}
    /\ Forget(w)
    /\ Goto(w, "idle")
    /\ UNCHANGED <<request, waited, tables, tx>>

(* SIGTERM or SIGKILL: PostgreSQL rolls the open transaction back. *)
Crash(w) ==
    /\ pc[w] # "down"
    /\ Discard(w)
    /\ Forget(w)
    /\ Goto(w, "down")
    /\ UNCHANGED <<request, waited, tables>>

Restart(w) ==
    /\ pc[w] = "down"
    /\ Goto(w, "idle")
    /\ UNCHANGED <<request, waited, tables, tx, local>>

-----------------------------------------------------------------------------
PairStep(w) ==
    \/ StartPair(w) \/ ReserveFirst(w) \/ ReserveSecond(w) \/ LosePair(w)
    \/ InsertMatch(w) \/ LinkFirst(w) \/ LinkSecond(w) \/ InsertEvent(w)
    \/ Commit(w) \/ DeadlockAbort(w)

LoopStep(w) ==
    \/ CleanupReservations(w)
    \/ \E listed \in SUBSET Partitions : FetchTickets(w, listed)
    \/ FetchOldest(w)
    \/ FindPairs(w)
    \/ EndLoop(w)

Fault(w) == PairFails(w) \/ CommitLost(w) \/ LoopFails(w) \/ Crash(w) \/ Restart(w)

ApiStep ==
    \E t \in Tickets :
       \/ \E r \in Request : CreateTicket(t, r)
       \/ CancelTicket(t)
       \/ PassThreshold(t)

Next == ApiStep \/ \E w \in Workers : LoopStep(w) \/ PairStep(w) \/ Fault(w)

(* A worker between two statements goes on, PostgreSQL's deadlock detector *)
(* runs, and a transaction that waits for a row lock is served in turn     *)
(* when the lock is given up: hence strong fairness.  Nothing is assumed   *)
(* of the API, of new loops or of faults.                                  *)
Fairness == \A w \in Workers : SF_vars(PairStep(w))

Spec == Init /\ [][Next]_vars
FairSpec == Spec /\ Fairness

-----------------------------------------------------------------------------
(* Type correctness. *)

Label == InPair \union {"idle", "fetch", "fetch_oldest", "find", "pairs", "commit", "down"}

TypeOK ==
    /\ request \in [Tickets -> Request \union {Nil}]
    /\ waited \in [Tickets -> 0 .. MaxStage]
    /\ ticket \in [Tickets -> Row]
    /\ matches \in SUBSET MatchRow
    /\ match_players \in SUBSET PlayerRow
    /\ callback_events \in SUBSET EventRow
    /\ tx \in [Workers -> Draft]
    /\ pc \in [Workers -> Label]
    /\ owned \in [Workers -> SUBSET Partitions]
    /\ batch \in [Workers -> Seq(Tickets)]
    /\ partner \in [Workers -> Seq(Nat)]
    /\ \A w \in Workers :
          partner[w] = <<>> \/ partner[w] \in [DOMAIN batch[w] -> 0 .. Len(batch[w])]
    /\ at \in [Workers -> Nat \ {0}]
    /\ made \in [Workers -> Nat]

(* No transaction commits a reservation: 'reserved' is a lock held by the  *)
(* transaction that is about to match the ticket, and whatever way that    *)
(* transaction ends the committed row is waiting or matched.  So a worker  *)
(* that dies leaves no ticket that must wait for its reservation to expire.*)
NoReservationOutlivesItsTransaction ==
    \A t \in Tickets : ticket[t].status # "reserved"

(* A ticket is in at most one match, whatever partitions the workers think *)
(* they own, and a cancelled ticket is in none.                            *)
NoDoubleMatch ==
    \A p, q \in match_players :
       p.ticket_id = q.ticket_id => p = q /\ ticket[p.ticket_id].status = "matched"

PlayersOf(m) == {p \in match_players : p.match_id = m}

(* What a match writes is all there or not there at all: two player rows   *)
(* whose tickets point back at the match, and the outbox event that names  *)
(* the same two tickets; and a matched ticket has its match.               *)
MatchIsWhole ==
    /\ \A m \in matches :
          /\ Cardinality(PlayersOf(m.match_id)) = 2
          /\ \A p \in PlayersOf(m.match_id) :
                /\ ticket[p.ticket_id].status = "matched"
                /\ ticket[p.ticket_id].match_id = m.match_id
          /\ \E e \in callback_events :
                /\ e.match_id = m.match_id
                /\ e.ticket_ids = {p.ticket_id : p \in PlayersOf(m.match_id)}
    /\ \A t \in Tickets : ticket[t].status = "matched" =>
          \E p \in match_players : p.ticket_id = t /\ p.match_id = ticket[t].match_id
    /\ \A e \in callback_events : \E m \in matches : m.match_id = e.match_id

(* A match is between two different players of the queue it is filed under.*)
(* The worker's batch may hold two tickets of one player (a cancelled one  *)
(* and its successor), read by two statements.                             *)
OpponentsDiffer ==
    \A m \in matches : \A p, q \in PlayersOf(m.match_id) :
       /\ request[p.ticket_id].queue = m.queue
       /\ request[p.ticket_id].player = p.player_id
       /\ p # q => p.player_id # q.player_id

(* A ticket that left waiting never changes again: a match is not undone   *)
(* by a late cancel, nor a cancel by a worker that had read the ticket.    *)
OutcomesAreFinal ==
    [][\A t \in Tickets : ticket[t].status \in {"matched", "cancelled"}
          => ticket'[t] = ticket[t]]_vars

(* Opponents are as close in skill as the wait of the longer waiting one   *)
(* allows, also when tickets age between the fetch and the commit.         *)
SkillsAreClose ==
    \A m \in matches : \A p, q \in PlayersOf(m.match_id) :
       Distance(request[p.ticket_id].skill, request[q.ticket_id].skill)
          <= Larger(SkillDelta[waited[p.ticket_id]], SkillDelta[waited[q.ticket_id]])

(* A pair is given up or matched in the end: the waits for row locks end,  *)
(* also when two workers that both believe they own a partition reserve    *)
(* the same two tickets in opposite orders (matching.py:110, :262), and    *)
(* neither a deadlock nor a lost ticket is met again and again.            *)
PairsAreResolved ==
    \A w \in Workers : pc[w] \in InPair ~> pc[w] \in {"pairs", "idle", "down"}

-----------------------------------------------------------------------------
(* What a client sees of the tables. *)

who == [t \in Tickets |-> IF request[t] = Nil
                          THEN Nil
                          ELSE [player |-> request[t].player, queue |-> request[t].queue]]

status == [t \in Tickets |-> IF ticket[t].status = "reserved"
                             THEN "waiting" ELSE ticket[t].status]

mates == {{p.ticket_id : p \in PlayersOf(m.match_id)} : m \in matches}

announced == {e.ticket_ids : e \in callback_events}

Service == INSTANCE MatchService
               WITH who <- who, status <- status, mates <- mates, announced <- announced

(* Workers, transactions, crashes and lost commits implement the service:  *)
(* every committed step is one submission, one cancellation or one whole   *)
(* match, and everything else is invisible.                                *)
ImplementsService == Service!Spec
=============================================================================
