------------------------------- MODULE System --------------------------------
(***************************************************************************)
(* The worker process as a whole: run_loop takes its leases (module        *)
(* Leases), lists its partitions, and pairs and matches the tickets of the *)
(* list (module Matching, instance M), until it begins the next pass.      *)
(* A failed statement, a crash or an interrupt ends both at once.          *)
(***************************************************************************)
EXTENDS Leases

CONSTANTS Tickets, MatchIds, Players, Queues, PartitionOf, Skills, SkillDelta,
          MaxStage, BatchSize, FreshnessBias, MaxPairs, CommitInOrder

VARIABLES request, waited, ticket, matches, match_players, callback_events,
          tx, owned, batch, partner, at, made,
          stage,      \* Matching's pc: where the worker is in the pass's work
          matches_created  \* calls of record_match, in all processes so far

(* Matching with its theorems, of which SystemProofs makes use. *)
M == INSTANCE MatchingProofs WITH pc <- stage

ASSUME MatchingAssumption ==
    /\ M!TicketsAssumption /\ M!BatchAssumption /\ M!PartitionAssumption
    /\ M!StageAssumption /\ M!SkillAssumption /\ M!NilAssumption

lvars == vars
mvars == <<request, waited, ticket, matches, match_players, callback_events,
           tx, stage, owned, batch, partner, at, made>>
svars == <<lvars, mvars, matches_created>>

-----------------------------------------------------------------------------
SInit == Init /\ M!Init /\ matches_created = 0

Clock == Tick /\ UNCHANGED mvars

ApiStep == M!ApiStep /\ UNCHANGED lvars

(* The lease transaction at the head of the pass. *)
LeaseStep(w) ==
    /\ \/ BeginLoop(w) \/ renew_owned_partitions(w)
       \/ claim_available_partitions(w) \/ release_excess_partitions(w)
       \/ CommitLeases(w)
    /\ UNCHANGED mvars

Cleanup(w) ==
    /\ pc[w] = "list"
    /\ M!CleanupReservations(w)
    /\ UNCHANGED lvars

ListPartitions(w) ==
    /\ stage[w] = "fetch"
    /\ list_owned_partitions(w)
    /\ UNCHANGED mvars

(* Mutant: the fetch asks for every partition. *)
FetchAll(w) ==
    /\ pc[w] = "match"
    /\ M!FetchTickets(w, Partitions)
    /\ UNCHANGED lvars

Fetch(w) ==
    /\ pc[w] = "match"
    /\ M!FetchTickets(w, acting[w])
    /\ UNCHANGED lvars

SearchPairs(w) == (M!FetchOldest(w) \/ M!FindPairs(w)) /\ UNCHANGED lvars

(* Mutant: a match is counted when its commit has returned. *)
CountCommitted(w) ==
    matches_created' = matches_created + IF stage[w] = "commit" THEN 1 ELSE 0

(* A match is counted when create_match_from_pair has returned, before its *)
(* commit.                                                                 *)
RecordMatch(w) ==
    matches_created' = matches_created + IF stage[w] = "insert_event" THEN 1 ELSE 0

PairStep(w) == M!PairStep(w) /\ RecordMatch(w) /\ UNCHANGED lvars

EndPass(w) == EndLoop(w) /\ M!EndLoop(w)

(* One pair fails: the pass goes on with the next one. *)
PairFails(w) ==
    /\ Fault
    /\ M!PairFails(w)
    /\ UNCHANGED <<lease, beat, draft, pc, age, acting, left>>

(* A statement outside the pairs raises, or the connection is lost at a    *)
(* commit: the pass is left, its transaction applied only in that case.    *)
PassFails(w) ==
    /\ LoopFails(w)
    /\ \/ stage[w] = "idle" /\ UNCHANGED mvars
       \/ M!LoopFails(w)
       \/ M!CommitLost(w)

Die(w) == (Crash(w) \/ shutdown_worker(w)) /\ M!Crash(w)

Revive(w) == Restart(w) /\ M!Restart(w)

-----------------------------------------------------------------------------
PassStep(w) ==
    \/ PairStep(w)
    \/ /\ UNCHANGED matches_created
       /\ \/ LeaseStep(w) \/ Cleanup(w) \/ ListPartitions(w) \/ Fetch(w)
          \/ SearchPairs(w) \/ EndPass(w) \/ Revive(w)

SNext ==
    \/ \E w \in Workers : PassStep(w)
    \/ /\ UNCHANGED matches_created
       /\ \/ Clock
          \/ ApiStep
          \/ \E w \in Workers : PairFails(w) \/ PassFails(w) \/ Die(w)

(* The steps that may have to wait: for the rows of the pair, and for a    *)
(* pass that has time left.                                                *)
ContendedStep(w) ==
    /\ M!StartPair(w) \/ M!ReserveFirst(w) \/ M!ReserveSecond(w)
    /\ UNCHANGED <<lvars, matches_created>>

(* As in Leases and Matching: workers and the clock go on, a worker that   *)
(* waits for a row is served in turn; and the time budget is not always    *)
(* used up before a pass comes to its first pair.  With one partition no   *)
(* worker hides a row from another, so nothing is assumed of the jitter.   *)
SFairness ==
    /\ SF_svars(Clock /\ UNCHANGED matches_created)
    /\ \A w \in Workers : WF_svars(PassStep(w)) /\ SF_svars(ContendedStep(w))

SSpec == SInit /\ [][SNext]_svars
SFairSpec == SSpec /\ SFairness

-----------------------------------------------------------------------------
(* Properties. *)

Working(w, t) == \E i \in DOMAIN batch[w] : batch[w][i] = t

(* main.py:81 to 116: two workers have one ticket in their batches only    *)
(* when a lease has run out under one of them.  So the row locks and the   *)
(* status check of the reservation are a second line of defence, never the *)
(* rule, and every worker works on partitions it listed in this pass only. *)
ContentionMeansExpiry ==
    /\ \A w \in Workers : \A t \in Tickets :
          Working(w, t) => PartitionOf[request[t].queue] \in acting[w]
    /\ \A v, w \in Workers : \A t \in Tickets :
          v # w /\ Working(v, t) /\ Working(w, t)
             => \E x \in {v, w} : left[x][PartitionOf[request[t].queue]] = 0

(* main.py:126 to 128: no match escapes pms_worker_matches_created_total,  *)
(* by which the system is measured, even when the answer to its commit is  *)
(* lost; the counter may exceed the matches, never fall short of them (but *)
(* for the counts of processes that have died since).                      *)
MatchesAreCounted == Cardinality(matches) <= matches_created

(* README.md:39, "reserve compatible tickets, and create matches": no two  *)
(* compatible tickets wait for ever side by side, whichever worker dies    *)
(* with the lease of their partition, as long as a batch holds all waiting *)
(* tickets.                                                                *)
CompatibleTicketsAreMatched ==
    \A t, u \in Tickets : t < u =>
       ~<>[](/\ M!Active(t) /\ M!Active(u)
             /\ M!tickets_compatible(t, u))
=============================================================================
