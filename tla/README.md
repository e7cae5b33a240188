# A TLA+ model of the partitioned matchmaking service

This directory specifies the parts of the service that decide whether its
answers are right: how tickets are admitted, how workers pair them inside
PostgreSQL transactions, how workers share partitions, how results are
delivered to tenants, and whether the benchmark that measures all this runs on
the cluster it believes it runs on. Paths below are relative to the repository
root.

- [1. The system](#1-the-system)
- [2. What is hard about it](#2-what-is-hard-about-it)
- [3. Modules and how they read against the code](#3-modules-and-how-they-read-against-the-code)
- [4. Runs: what each one asks and shows](#4-runs-what-each-one-asks-and-shows)
- [5. Fairness](#5-fairness)
- [6. Proofs](#6-proofs)
- [7. Where code and documents part](#7-where-code-and-documents-part)
- [8. What is not modelled](#8-what-is-not-modelled)
- [9. Plan](#9-plan)

## 1. The system

The processes share nothing but PostgreSQL (and, for one counter, Redis). All
transactions run at READ COMMITTED.

| Component | State | Operations | Talks to | What makes it correct |
|---|---|---|---|---|
| Ticket API (`app/api/routes/tickets.py`, `app/core/idempotency.py`, `app/core/admission.py`) | `tickets`, `idempotency_keys`, Redis rate buckets, an asyncpg pool | create, cancel, read | clients by HTTP; workers through `tickets` | one ticket per idempotency key; keys never stored without their ticket; limits overshot by a bounded number; the requests never all wait for one another |
| Matching worker (`app/worker/matching.py`, pair loop of `app/worker/main.py`) | `tickets`, `matches`, `match_players`, `callback_events`; a list of pairs in memory | clean up reservations, fetch, pair, reserve, create match, commit or roll back | API and other workers through row locks; dispatcher through the outbox row | no ticket in two matches; a match with its players, tickets and event is all or nothing; outcomes are final; opponents differ and are close in skill; no transaction hangs |
| Leases (`app/worker/leases.py`, start of `run_loop`, `shutdown_worker`, `app/worker/scheduling.py`) | `partition_leases`, `worker_heartbeats`; the list of partitions a pass works on | heartbeat, renew, claim, rebalance, list, release | other workers through the rows, with SKIP LOCKED | a live lease is never taken away; every partition keeps being served; shares become fair |
| Callback dispatcher (`app/callback_dispatcher/main.py`) | `callback_events`, `matches.status`; the claimed batch in memory | claim, POST, mark delivered, mark failed attempt, release claim | tenants by HTTP; other dispatchers through the rows | nothing is called delivered that was not received; no event is given up early; event and match agree; every event is settled |
| Schema and migration (`app/db/schema.sql`, `app/db/migrate.py`) | the tables, `uq_active_ticket_per_player_queue`, the primary keys | runs once | | one active ticket per player and queue |
| Benchmark runner (`scripts/run_gke_benchmark.py`) with the manifests it applies, the migration job (`app/db/init.py`) and the API's start-up (`app/main.py`) | its arguments and the node counts left; in the cluster: nodes, stores and their volumes, the migration job, deployments and their pods, ingress | size the pool, deploy, reset a store, migrate, scale, restart, load, tear down | the cluster through kubectl and gcloud; worker metrics; `/health` | a load runs on a seeded database and on this run's pods only; a fresh row is fresh; nothing is left running |
| The rest: read routes, configuration, other metrics, mock tenant, dashboard, Terraform, the other scripts and load tests | see section 8 | | | |

Interactions:

1. The API inserts a `waiting` ticket; a worker that lists the ticket's
   partition fetches it, reserves it and turns it into `matched` in one
   transaction, which also writes `matches`, two `match_players` and one
   `callback_events` row (the outbox).
2. A dispatcher claims outbox rows, posts them, and writes the outcome to
   `matches` first and `callback_events` second.
3. A client may cancel at any moment; the cancel's UPDATE and the worker's meet
   in the ticket's row lock.
4. A worker's right to a partition is a row of `partition_leases`. It is read
   once per pass and not again when a match is written.
5. The benchmark reads `pms_worker_matches_created_total` of all worker pods
   before and after a load. The counter lives in the worker process and is raised
   before the match's commit.

## 2. What is hard about it

The list with source lines is `hazards` in `PROJECT.json`; those that no property
covers (a batch smaller than the queue, the lock order of outcome writes, a gauge, a failure between
a volume's loss and its migration, a teardown before the first apply) say why. In short:

- **stale reads**: pairs are computed from a batch read by two earlier
  statements; `event.attempts` is remembered from the claim; the partitions of a
  pass are listed once; the claim of callbacks judges rows by its snapshot and
  locks them by id only;
- **interleavings of transactions**: opposite lock orders of two workers, cancel
  against match, two requests under one key, counting before inserting;
- **partial failure**: exceptions between two statements, commits whose answer is
  lost, processes that die with open transactions, claims or leases;
- **time**: leases and callback locks that run out while their holder is still
  at work, `now()` that is the start of a transaction and not the present;
- **liveness**: rows hidden by SKIP LOCKED, batches abandoned half-way, a pool
  of connections that would hang if a request waited for a second one while holding one;
- **what an earlier run left**: a script of twenty-odd steps against a cluster that
  moves by itself, any of which may fail, time out or be interrupted, is run again on
  volumes, jobs and pods of its predecessors.

## 3. Modules and how they read against the code

`PROJECT.json` maps each definition to its lines. One action is one SQL statement
(or one step of Python between two of them) where other processes can come in
between; the label in `pc` says which statement comes next. Operators that come
from a function of the code carry its name (`find_pairs`,
`mark_failed_attempt`, `renew_owned_partitions`, ...).

### Matching, MatchService

`Matching` is `run_loop` after the lease transaction, with create and cancel of
tickets next to it.

- Committed rows are `ticket`, `matches`, `match_players`, `callback_events`;
  `tx[w]` is what worker `w`'s open transaction has written. A row with an entry
  in some `tx` is locked: an UPDATE or a unique-index check that meets it waits
  (the action is disabled) and then judges the row that was committed. A reader
  goes on and sees the committed version. `Commit` applies a draft, every
  rollback discards it.
- `FetchTickets` and `FetchOldest` are the two SELECTs of
  `fetch_waiting_tickets`, so other transactions may commit in between. They take
  an **arbitrary** set of partitions: no safety property of matching rests on
  exclusive leases.
- `find_pairs` says what the greedy double loop returns: each index not yet used
  takes the first later compatible one.
- Waiting time is the stage of `skill_delta` a ticket has reached.
- `LosePair`, `PairFails`, `DeadlockAbort`, `CommitLost`, `LoopFails` and `Crash`
  are the ways out other than `Commit`; a worker in a cycle of waits (`InDeadlock`) is
  one PostgreSQL may abort. `_release_ticket` after a lost or failed
  pair writes into the transaction that the caller rolls back at once, so its
  effect is that of the rollback.

`MatchService` is the abstract specification: submit, cancel, and match-and-
announce as one atomic step. `Matching!ImplementsService` is the refinement, with
a mapping that reads `reserved` as waiting and derives the pairs from
`match_players`.

Each component has its inductive invariant in `<Component>Inv` and its theorems in
`<Component>Proofs` (`MatchingInv`, `MatchingProofs`, `LeasesInv`, ...): section 6.

### System

The worker process as a whole: `System` EXTENDS `Leases` and instantiates `Matching`,
with its theorems, as `M` (its `pc` is `stage` here). A pass first takes its leases, then does
`Matching`'s work on the partitions it listed: `Fetch` is `M!FetchTickets(w,
acting[w])`, where `Matching` alone lets a worker fetch any. A failed statement, a
crash or a shutdown ends both halves at once (`PassFails`, `Die`), while a failed
pair (`PairFails`) leaves the pass going. `matches_created` counts the calls of
`record_match`, over all processes.

### Leases

The lease transaction at the start of a pass (heartbeat, renew, claim, rebalance,
commit), the listing, and the pass itself (`match`), in which module `Matching`
takes place. Times are relative: `until` is what is left of `lease_until`,
`age[w]` how old `w`'s transaction is, so `lease_until > now()` inside it reads
`until + age[w] > 0`. `Tick` moves everything by one. `LoopFails`, `Crash` and
`shutdown_worker` end a pass early; a killed worker releases nothing.

### Callbacks

One claim is three actions, since its snapshot, its row locks and its commit are
three moments: `Snapshot` chooses the eligible events with the tenant's share and
the batch limit, `LockRows` is `FOR UPDATE SKIP LOCKED`, which compares only
`event_id` again, `CommitClaim` writes. `StartPost`/`Answer` are `deliver_event`:
the tenant takes the event or not and the answer may be lost. `Persist` is the
outcome transaction, `PersistFails` and `Release` the path through
`release_claim`. `posts` and `received` are history variables, written with the
answer and read by the properties only. Time is `live` (`locked_until` ahead)
and `due` (`next_attempt_at` reached).

`Outbox` is the abstract specification: an event is announced, attempted any
number of times, and the verdict shown for its match is "delivered" only if the tenant
took an attempt and "failed" only after `MaxAttempts` of them; every announced
event gets a verdict. It has no dispatchers, claims or locks.
`Callbacks!ImplementsOutbox` is the refinement; its mapping reads
`matches.status` as the verdict and the history variables as the attempts. `Outbox!Safety`
is the promise without "every announced event gets a verdict". The
promised verdict may change (delivered to failed and back): that is what the code does,
section 7.

### TicketApi

Up to `|Handlers|` requests of one API process at a time. Each admission check
uses a connection of its own for one statement (`Connection` is its guard), and
the final transaction keeps one. `new_key` and `new_ticket` are the transaction's
writes; `reserve_idempotency_key` waits for another open transaction that holds
the key, `InsertTicket` for one that holds the slot of the unique index.
`replies` is history: what clients with a key were told. The process starts on the
tickets that an earlier one left waiting (`OldTickets`, without keys).

### Benchmark

The script's steps are the labels of `pc`, in the order of `execute`; `mode` tells which
of its three callers a reset, a migration or a restart serves (`--reset-postgres`, the
repair of a store, the scaling). Next to it the cluster moves by itself: `StoreUp`,
`JobCompletes`, `PodsReady`, `PodsRetire`, `PodsEnd`. What a resize does to volumes
is in `Resize`: a store whose pod loses its node has a volume "lost" to the script's
`stateful_store_needs_reset`. `data` is empty, has the tables and some tenants (what
the API's `migrate()` makes), or is seeded (what the job makes); `job` remembers the
success of a job, not whose volume it migrated. `Awaited` collects what each step
waits for. `StepFails` is a command that fails, a wait that times out or an
interrupt, `NothingThere` a command on an object that does not exist, `AuthFails`
and `ManualReset` the password check and the operator who follows its message.

`MC<Component>` modules define the small instances; each `MC*.cfg` is one run.

## 4. Runs: what each one asks and shows

"States" are distinct states; each run ends within three minutes with two TLC workers.

| Run | Asks | Result |
|---|---|---|
| `MatchingOverlap` | Two workers fetch the same four tickets of three players; cancels, successors, deadlocks, lost commits, crashes. | `TypeOK`, `NoReservationOutlivesItsTransaction`, `NoDoubleMatch`, `MatchIsWhole`, `OpponentsDiffer`, `OutcomesAreFinal`, `ImplementsService` and the inductive invariant `IInv` hold (325 000 states) |
| `MatchingLive` | Two queues of one partition, two skills, ageing tickets, batches in either order, every fault, fairness. | `SkillsAreClose`, `OpponentsDiffer`, `PairsAreResolved` hold (269 000) |
| `LeasesPasses` | Three partitions for two workers, passes of up to three ticks on leases of two, one fault, fairness. | `TypeOK`, `LeaseProtects`, `PartitionsAreServed`, `SharesBecomeFair` and the inductive invariant `IInv` hold (184 000) |
| `LeasesOverlap` | A pass that outlasts its lease. | `OneOwnerAtATime` is violated (section 7) |
| `CallbacksRaces` | Two dispatchers on one event, three attempts, three faults, fairness. | `TypeOK`, `DeliveredWasReceived`, `GivesUpLate`, `OutcomesAgree`, `EventsAreSettled`, `ImplementsOutbox` and the inductive invariant `IInv` hold (256 000) |
| `CallbacksShares` | Two dispatchers, three events of two tenants, a limit of one, an unparsable URL, one fault. | `InFlightIsBounded` holds (1 480 000) |
| `CallbacksFinal` | Two dispatchers, no fault. | `FailedIsFinal` is violated (section 7) |
| `CallbacksPoison` | One dispatcher, no fault, one unparsable URL. | `EventsAreSettled` is violated (section 7) |
| `TicketApiRequests` | Three requests at a time on a pool of two, retries and conflicting bodies under one key, quota of one with one ticket waiting already, one fault. | `TypeOK`, `OneTicketPerKey`, `KeysHaveTickets`, `RepliesAgree`, `OvershootIsBounded`, `RequestsGoOn` hold (209 000) |
| `System` | Two workers that lease one partition and match two tickets in it; passes may outlast the lease; one fault; fairness. | `ContentionMeansExpiry`, `MatchesAreCounted`, `CompatibleTicketsAreMatched` and the inductive invariant `SInv` hold (148 000) |
| `BenchmarkRuns` | Two runs out of five kinds, the second on what the first left; one failing step or wait, but none between the loss of a volume and its migration. | `TypeOK`, `LoadIsSeeded`, `LoadIsOnNewPods`, `FreshIsEmpty`, `NothingKeepsRunning` hold (902 000) |
| `BenchmarkAdvice` | An operator who does what the failed password check says. | `LoadIsSeeded` is violated (section 7) |

Each property of a passing run has a mutant: an operator that differs from the
code as a plausible bug would (a dropped `AND status = 'waiting'`, a commit
where a rollback belongs, a missing unique index, a claim that ignores live
leases, a key that survives its transaction, ...), for which TLC finds the property
violated. They stand next to the definition they would replace and no
specification uses them.

### Bounds, and why they are enough

- *Two workers, two dispatchers, three requests.* The protocols meet in pairs, at a
  row or a key. Cycles of waits between transactions need two, a pool that is in
  the way of a third request needs three. The safety properties are proved for any
  number (section 6).
- *Four tickets of three players* (`MatchingOverlap`): two disjoint pairs in
  one pass, a ticket wanted by two pairs, and a cancelled ticket with its
  successor. `CommitInOrder = TRUE` makes tickets visible in the order of
  `created_at`; the theorems hold for either value.
- *Two match ids* (four tickets give at most two matches).
- *MaxStage* 1 and skills 0 and 2 in `MatchingLive`: the two differ by more than
  the first delta (1) and not by more than the second (2), so a ticket's age decides.
- *BatchSize* 4 in `MatchingLive`: each SELECT of a fetch has room for both tickets. With a
  ticket created between the two SELECTs a batch is oldest first, otherwise newest first, so
  two workers reserve the same two tickets in opposite orders and `DeadlockAbort` happens
  (with a batch of two it cannot). The mutant of `PairsAreResolved` is a worker that tries
  such a pair again without the rollback.
- *LeaseTicks, MaxSetup, MaxStall*: in `LeasesPasses` a pass (3) may outlast a lease
  (2). Two relations are needed for liveness, and the configuration has both: the list
  must be read before the lease runs out (`MaxSetup < LeaseTicks`; 15 s of lease against
  a few statements), and a live worker's heartbeat must still count when its pass is
  slow (`HeartbeatTicks > MaxStall + MaxSetup`; 30 s against a budget of 2 s), else
  the shares are computed without it. A `LeaseBatch` of one is not enough for
  `PartitionsAreServed`: a worker at its share spends its one claim on the row it gives
  back, and the row behind it is never reached. The default is 8.
- *MaxAttempts* 3 with *MaxFaults* 3 in `CallbacksRaces`: first, middle and
  last attempt, with a fault at each. *MaxPosts* (20) is never reached there:
  overlaps of claims come to an end by themselves. In `CallbacksShares` it is 2 and ends
  the claims: two dispatchers with an unparsable URL revive events that are
  settled for ever, since each abandoned batch leaves stale claims behind.
- *MaxRequests*, *MaxFaults* in `TicketApi`: a request, one that overlaps it, and a third
  that overlaps both or retries either; one failure anywhere. The pool of two is smaller than
  the number of requests: two transactions hold it while the third waits for admission, and
  two replays of a key that the third has made hold it together. A replay that took a
  second connection (`ReplayOverPool`) would hang there, and `RequestsGoOn` finds it.
  `OldTickets` is one ticket: three requests that count once it has left the queue meet the
  overshoot's bound exactly (three waiting, where the limit is one), and a count that is off
  by one, with the ticket still there, goes beyond it.
  Requests in progress are alike, and so are the bodies, each of a player of its own:
  the run, which has no liveness, is reduced by both symmetries.
- *System*: one partition, so that both workers want the same tickets; a batch holds
  both. Two tickets make one match, which is what the three properties speak of.
- *MaxRuns, MaxFaults, Options, Fallible* in `Benchmark`: a run meets only what the
  cluster remembers (volumes, job, deployments, pods, ingress), and one earlier run
  with a failure at any step produces each of these. The five argument records cover
  each option with and without its opposite; `Fallible` leaves out the steps between the
  loss of a volume and the end of its migration, for which `LoadIsSeeded` does not hold
  (section 7). With these bounds an operator who resets Postgres and deletes the job is
  safe; that is not so for more runs and faults, and the theorem about `LoadIsSeeded`
  excludes the reset. `BenchmarkAdvice` allows three runs: one that seeds, one that is refused,
  one after the reset.

`CHECK_DEADLOCK FALSE` is set in the Matching, TicketApi and System runs, which end when
all ticket ids or requests are used up and every worker is idle, in `CallbacksShares`, which
ends at the bound on POSTs, and in the Benchmark runs, which end after the last
run of the script. Leases and the other Callbacks runs never stop, and deadlock is
checked there.

## 5. Fairness

- `Matching!FairSpec`: strong fairness of each worker's steps inside a pass. A
  worker between two statements goes on; a transaction waiting for a row lock is
  queued by PostgreSQL and gets it when it is given up; the deadlock detector
  breaks cycles. New passes, clients and faults are not obliged to happen.
- `Leases!FairSpec`: time passes, worker steps happen, and a worker that claims again
  and again does so again and again while no other lease transaction is open
  (`Jitter`). The last is what the per-worker jitter of `app/worker/scheduling.py` is
  for: the lease transaction takes milliseconds of a 500 ms loop whose length differs by
  worker. Without it a worker at its share, which claims a row and gives it back in
  every pass, can hide the row from a worker that lacks one.
- `System!SFairSpec`: worker steps happen, time passes, and a worker that waits for the rows of a
  pair is served in turn (strong fairness of `ContendedStep` and `Clock`). The second
  also says that the time budget is not used up before the first pair in every
  pass. Nothing is assumed of the jitter: with one partition nobody gives rows back.
- `Benchmark` states no liveness: the code promises none (section 7).
- `Callbacks!FairSpec`: dispatchers loop (`main` catches every exception, a POST has a
  timeout, a dead pod is restarted) and clocks run. No fault is obliged.
- `TicketApi` states none: `RequestsGoOn` is an invariant, that whenever requests are under
  way one of them can take its next step. No step of a request goes back, so with
  PostgreSQL and the pool serving waiters in turn all of them come to an end.

## 6. Proofs

Every safety invariant that a passing run checks, `RequestsGoOn` excepted, is also proved
for every value of the constants: any sets of workers, dispatchers, requests, tickets and options, and any
bounds on faults and time; two of them, `SkillsAreClose` and `LoadIsSeeded`, under a
hypothesis. So are the action property of `Matching`, its refinement of
`MatchService`, and the safety part of the refinement of `Outbox`.

| Module | Theorem | States |
|---|---|---|
| `MatchingProofs` | `Invariance` | `Spec => []IInv` |
| | `TypeCorrectness` | `Spec => []TypeOK` |
| | `NoStaleReservation` | `Spec => []NoReservationOutlivesItsTransaction` |
| | `MatchedOnce` | `Spec => []NoDoubleMatch` |
| | `Atomicity` | `Spec => []MatchIsWhole` |
| | `Opponents` | `Spec => []OpponentsDiffer` |
| | `Finality` | `Spec => OutcomesAreFinal` |
| | `SkillsStayClose` | `DeltasGrow => (Spec => []SkillsAreClose)` |
| | `Refinement` | `Spec => ImplementsService` |
| `LeasesProofs` | `Invariance`, `TypeCorrect` | `Spec => []IInv`, `Spec => []TypeOK` |
| | `LeasesProtect` | `Spec => []LeaseProtects` |
| `SystemProofs` | `SystemInvariance` | `SSpec => []SInv` |
| | `MatchingInTheSystem` | `SSpec => M!Spec`: the composition is a run of `Matching` |
| | `SystemKeepsTheService` | `SSpec => M!ImplementsService /\ []M!NoDoubleMatch` |
| | `LeasesProtectTheWork` | `SSpec => []LeaseProtects` |
| | `ContentionIsExpiry` | `SSpec => []ContentionMeansExpiry` |
| | `MatchesNeverEscape` | `SSpec => []MatchesAreCounted` |
| `CallbacksProofs` | `Invariance`, `TypeCorrect` | `Spec => []IInv`, `Spec => []TypeOK` |
| | `DeliveriesAreReceipts` | `Spec => []DeliveredWasReceived` |
| | `GivingUpIsLate` | `Spec => []GivesUpLate` |
| | `OutcomesAlwaysAgree` | `Spec => []OutcomesAgree` |
| | `TenantsAreSpared` | `Spec => []InFlightIsBounded` |
| | `KeepsThePromise` | `Spec => Promise!Safety` (`Promise` is `Outbox` under the mapping) |
| `TicketApiProofs` | `Invariance`, `TypeCorrect` | `Spec => []IInv`, `Spec => []TypeOK` |
| | `KeysMakeOneTicket` | `Spec => []OneTicketPerKey` |
| | `KeysAreNotUsedUp` | `Spec => []KeysHaveTickets` |
| | `RepliesAreTrue` | `Spec => []RepliesAgree` |
| | `QuotaIsNearlyKept` | `Spec => []OvershootIsBounded` |
| `BenchmarkProofs` | `Invariance`, `TypeCorrect` | `Spec => []IInv`, `Spec => []TypeOK` |
| | `LoadsAreOnNewPods` | `Spec => []LoadIsOnNewPods` |
| | `FreshRowsAreFresh` | `Spec => []FreshIsEmpty` |
| | `NothingIsLeftRunning` | `Spec => []NothingKeepsRunning` |
| | `CompletedResetsAreSeeded` | `ResetsComplete => (Spec => []LoadIsSeeded)` |

### Assumptions

The named ASSUMEs of the modules; TLC evaluates them in the runs. Most give constants
their type. Those that say more:

- `Callbacks!FiniteAssumption`, `TicketApi!HandlerAssumption`: finitely many dispatchers
  and events, and finitely many requests at a time (at least one), as counting needs.
- `TicketApi!OldAssumption`: the tickets that wait at the start are fewer than the limit and
  the number of requests together, which is what `OvershootIsBounded` says of any other time.
- `Leases!TicksAssumption`: the part of a pass before its list is no longer than the whole.
- `Benchmark!OptionsAssumption`: `--node-counts` gives at least one positive number
  (`run_gke_benchmark.py:492`, `:1335`).
- `NilAssumption` of each module: the value for "no row" is no row.

Two theorems have a hypothesis of their own, since the code does not ensure it.
`DeltasGrow`: the skill threshold does not shrink with the wait. The defaults 100, 200,
400 (`app/core/config.py:45-47`) satisfy it, but they are three independent settings: with
a shrinking one a pair found early may have become too far apart when it is its turn.
`ResetsComplete`: no step between the loss of a volume and the end of its migration fails,
and Postgres is not reset by hand. Without it `LoadIsSeeded` is false (section 7).

### Arguments

*Matching.* The safety properties speak of committed rows only and are not
inductive: a commit may apply anything. `MatchingInv!IInv` adds, for each label of
`pc`, exactly what the transaction has written by then (`DraftFollowsTheCode`:
first ticket reserved, second reserved, match inserted, first linked, ...), that row
locks are exclusive and a locked row is committed as waiting
(`LocksAreExclusive` and what follows it), that the pair at hand is a pair of the
worker's own batch and of one queue, that ids of open matches are fresh, and that a
player has one active ticket per queue. The last gives `OpponentsDiffer`: two
tickets of one player and queue in the batch are not both still waiting when they
are reserved. `Finality` and `Refinement` are step arguments on top: every
step under `IInv` leaves settled rows alone, and maps to `Submit`, `Cancel`,
`Match` or a stutter of `MatchService`. `SkillsStayClose` carries from `find_pairs` on
that the pairs still to come are close enough for the *present* wait of one of the two,
which ageing can only widen; that is where `DeltasGrow` is used.

*Leases.* `LeaseProtects` compares a list with rows that others may be writing. `IInv`
says why they are not: a lease with time left is in no other transaction's draft
(`RunningLeasesAreSafe`), because the `now()` of a transaction is its start and so can only
see a lease as *longer* than it is. Giving back in `rebalance_partitions` is where this is
delicate, since it takes what an old `now()` sees as the worker's own; `RenewedRowsAreLocked`
says that `renew_owned_partitions` has locked all of these first.

*System.* `SInv` is the invariants of both halves, that a worker holds tickets only while it
holds the list they come from (`BatchIsListed`), and that committed matches together with those
about to commit are no more than the counter. `ContentionMeansExpiry` then is `LeaseProtects`
on the partition of the contested ticket. The composition is a run of `Matching` step by step,
so its theorems carry over by citation. It is *not* a run of `Leases`: a failing pair uses
up a fault of the bound that `Leases` counts as well, and moves nothing there. `LeaseProtects`
is therefore proved again for `SSpec`, from the lemmas of `LeasesProofs`.

*Callbacks.* Outcomes are written by event id alone, by dispatchers whose claim may long be
another's, so nothing can rest on who holds the row. `VerdictsRest` and `NoErrorIsReceipt` rest
on the history of POSTs instead. `GivesUpLate` is a count: `attempts` plus the dispatchers whose
outcome of this event is not yet written is at most `posts` (`AttemptsWereMade`), and what a
dispatcher remembers of `attempts` can be too small but never too large (`KnownIsPast`).
`InFlightIsBounded` is a bound on a union, what a dispatcher has in flight and what
it is about to claim (`SharesAreKept`): from the snapshot to the commit others can only take from
the first.

*TicketApi.* `DraftsFollowTheCode` says what each transaction holds at each line;
`ReservedKeysAreFree` that a reserved key is nobody else's and not stored; `TicketsHaveKeys`,
with `KeysHaveTickets`, that keys and tickets point at each other. The quota is not kept, and
`QuotaCount` says by how much it is missed: tickets that wait and requests past the check
are together fewer than the limit plus the number of handlers.

*Benchmark.* `IInv` says what the cluster is like at each line: pool and deployments have the
size of the row (`SizesFollowTheRow`), the pods of the load are up and those of the row before
are gone (`PodsFollowTheRow`), a run asked for a fresh Postgres still has it unused
(`FreshFollowsTheLine`), the finally clauses see what there is to end (`TeardownSeesAll`). The
least obvious part is that Postgres does not come up while the pods of a load do: an API pod is
ready without its pool only if Postgres was down, and then `/health` never lets the load begin.
`SeedInv` adds, for `CompletedResetsAreSeeded`, that a finished job may be believed except
between a reset and its migration.

There is one lemma per action, or per group of actions with the same frame, and within it
one step per conjunct that the action can disturb. TLC had checked each of the inductive
invariants on the instances of section 4 before it was proved (`SeedInv` without the failing
password check, which `ResetsComplete` excludes); `LeasesPasses`, `CallbacksRaces`, `System`
and `MatchingOverlap` still do.

### Only model-checked

- Liveness, which needs ENABLED: `PairsAreResolved`, `PartitionsAreServed`,
  `SharesBecomeFair`, `EventsAreSettled`,
  `CompatibleTicketsAreMatched`, and the part of `ImplementsOutbox` that says every event
  gets a verdict.
- `RequestsGoOn`, an invariant that says ENABLED.
- `LoadIsSeeded` for the instance of `BenchmarkRuns`, which allows a reset by hand: there it
  holds because of the bounds.
- That the operators for `find_pairs` and the two SELECTs are what the loops of the code compute
  is read, not proved: an induction over data is out of the prover's reach.

## 7. Where code and documents part

Violation runs, with the counterexample TLC prints:

- **`CallbacksPoison`** (`Contracts.md:344`, "at-least-once delivery").
  `deliver_event` catches `httpx.HTTPError`; `httpx.InvalidURL` is none. An
  event with such a URL ends `run_once` (line 312 is outside the `try`), its claim
  and those of the rest of the batch run out, and the next loop claims the same batch again:
  the events behind the bad one are never posted.
- **`CallbacksFinal`** (`app/callback_dispatcher/main.py:175`, "final failed"). Outcomes are
  written `WHERE event_id = ...` alone, and a claim statement whose snapshot
  predates another claim takes the row over once that has committed, whatever
  its state then. A failed event returns to `in_progress`, and may become
  delivered.
- **`LeasesOverlap`** (`README.md:38`, "owned by at most one worker at a time"). A
  pass that outlasts its lease goes on with its list while another worker has
  claimed the partition. `NoDoubleMatch` does not depend on it.

- **`BenchmarkAdvice`** (`scripts/run_gke_benchmark.py:887`, "Reset Postgres, then
  re-run"). The three commands of the message delete the volume. The next run brings Postgres
  up empty, finds that the job `pms-migrate` has succeeded (on the old volume) and
  does not migrate; the API's own start-up creates the tables, `/health` is ok, and the
  load runs against a database without its tenants, whose tickets are refused with
  403. Deleting the job as well (`DropsJob`) repairs it in the runs of `BenchmarkRuns`, but not
  in general: with four runs and two faults, Postgres is reset by hand and the job deleted, the
  next run gets as far as an API pod whose start-up makes the tables and then fails, and a run
  with `--skip-deploy` after it finds the pods up and loads. Without such failures
  and resets the load is always seeded (`CompletedResetsAreSeeded`).

Seen while modelling, without a run:

- The same happens without any operator when a step fails after the script
  has deleted a volume and before it has migrated the new one (`run_gke_benchmark.py:857`,
  a failing reset of Redis, say): the next run finds a volume in place and a job that
  succeeded.
- `delete_ingress` raises after 120 s (`run_gke_benchmark.py:671`), and the nodes are then
  not stopped, though the results file says they were (line 474). `wait_for_nodes(0)` is
  satisfied at once (`ready >= 0`), so the quota-safe resize does not wait for the old nodes to go.
- A run that is torn down after the stores and before the first apply of the apps leaves a state
  in which later runs fail: the resize makes the stores need a reset, and
  `restart_app_deployments` then fails on deployments that do not exist.
- With several node counts, rows already measured are lost when a later count fails
  (`run_gke_benchmark.py:1323`).
- `matches_created` is raised before the commit: a match whose commit is lost unapplied is
  counted, and its tickets may be counted again (`MatchesAreCounted` is the direction that
  holds).

- The tenant concurrency limit of callbacks (`Roadmap.md:233`) and
  `max_partition_depth` (`README.md:75`) are counted before and apart from the write,
  so concurrent claims or requests exceed them. `OvershootIsBounded` is what does
  hold of the ticket quota.
- The gauge `active_tickets` ("currently active (waiting)",
  `app/core/metrics.py:28`) is raised at creation and lowered by a cancel only: matched
  tickets are counted for ever.
- No reservation is ever committed (`NoReservationOutlivesItsTransaction`), so
  `cleanup_expired_reservations` has nothing to find in a database that only this code
  writes; the expiring reservations of `README.md:87` are not what recovers from a crash.
- Dispatchers do not "verify matched tickets" (`README.md:43`).

## 8. What is not modelled

- Reads that change nothing (`GET` routes, match status), metrics other than the matches
  counter, dashboards, configuration parsing, application wiring, pydantic
  validation.
- Callback payload, HMAC signature and headers; the arithmetic of back-off
  and jitter (an event becomes due at some later time).
- `compute_partition_id`'s hash: a constant function of the queue.
- `match_size` other than 2, which `find_pairs` refuses, and the
  `max_wait_seconds` filter, which no caller uses.
- The statements of the migration (each is idempotent; when it runs and what it leaves is in
  `Benchmark`), the mock tenant (its answers are nondeterministic in `Callbacks`),
  Terraform, Docker and Compose, the other scripts and the load tests.
- Of the benchmark runner: tools and paths, the image build, diagnostics, parsing and
  formatting of results, the address of the ingress and its failure patterns, passwords
  (a check that may fail), `--recreate-ingress` and `--smoke`, and the autoscalers, which the
  script neither applies nor removes.
- Several API processes: the handlers of `TicketApi` share one pool; more processes are
  more handlers with more connections.

## 9. Plan

Done: every module of section 3 checked, and every safety invariant of the runs proved.

Next:

1. Action properties of the lease protocol and of the API and their proofs: a row of
   `partition_leases` with time left changes hands only by its owner (renewing or giving
   back), a stored idempotency key never changes its ticket.
2. An abstract lease table (grant, renew, give back, expire) that `Leases` implements, with
   `System` using it in place of `LeasesInv`.
3. In `Benchmark`, the weakest condition on `Fallible` under which `LoadIsSeeded` holds:
   `ResetsComplete` is sufficient, and names more lines than every choice of options needs.
