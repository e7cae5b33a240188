------------------------------- MODULE Leases -------------------------------
(***************************************************************************)
(* Ownership of partitions: each pass of a worker's run_loop renews its    *)
(* leases, claims free ones and gives excess ones back in one transaction, *)
(* then lists what it owns and works on that list, without asking again,   *)
(* until the pass ends.                                                    *)
(*                                                                         *)
(* Times are kept relative to the clock of PostgreSQL: until and beat are  *)
(* the ticks left of lease_until and of the heartbeat, age[w] the ticks    *)
(* since worker w's pass began, which is the now() of its transaction.     *)
(* So "lease_until > now()" reads until + age[w] > 0 in the transaction.   *)
(***************************************************************************)
EXTENDS Integers, FiniteSets

CONSTANTS
    Workers,          \* worker ids
    Count,            \* matchmaking_partitions
    Offset,           \* partition_claim_offset, a hash of the worker id
    LeaseTicks,       \* worker_lease_seconds
    HeartbeatTicks,   \* worker_heartbeat_seconds
    LeaseBatch,       \* worker_partition_batch_size
    ElasticRebalance, \* worker_elastic_rebalance_enabled
    MaxSetup,         \* bound: ticks from the start of a pass to its list
    MaxStall,         \* bound: ticks from the start of a pass to the next start
    MaxFaults,        \* bound: crashes, shutdowns and failed passes
    Nil               \* SQL NULL, and "not written"

ASSUME CountAssumption == Count \in Nat \ {0}
ASSUME OffsetAssumption == Offset \in [Workers -> Nat]
ASSUME TicksAssumption ==
    /\ LeaseTicks \in Nat \ {0} /\ HeartbeatTicks \in Nat \ {0}
    /\ MaxStall \in Nat /\ MaxSetup \in 0 .. MaxStall /\ MaxFaults \in Nat
    /\ LeaseBatch \in Nat /\ ElasticRebalance \in BOOLEAN

Partitions == 0 .. Count - 1

VARIABLES
    lease,      \* the committed rows of partition_leases
    beat,       \* ticks until a worker's heartbeat no longer counts
    draft,      \* the rows each worker's open lease transaction has written
    pc,         \* where each worker is in run_loop
    age,        \* ticks since the worker's pass began
    acting,     \* owned_partitions: what the pass works on
    left,       \* ticks left of the leases in acting when they were listed
    faults      \* faults so far

vars == <<lease, beat, draft, pc, age, acting, left, faults>>

-----------------------------------------------------------------------------
Row == [owned_by: Workers \union {Nil}, until: -MaxStall .. LeaseTicks]
Unowned == [owned_by |-> Nil, until |-> -MaxStall]

ASSUME NilAssumption == Nil \notin Workers \union Row

(* A heartbeat that counts for no transaction, however old. *)
NoBeat == -MaxStall

NoDraft == [p \in Partitions |-> Nil]

View(w, p) == IF draft[w][p] # Nil THEN draft[w][p] ELSE lease[p]
LockedByOther(w, p) == \E v \in Workers \ {w} : draft[v][p] # Nil

Live(w, r) == r.until + age[w] > 0
Leased(w) == [owned_by |-> w, until |-> LeaseTicks - age[w]]

OwnedInTx(w) == {p \in Partitions : View(w, p).owned_by = w /\ Live(w, View(w, p))}

Down(n) == IF n > -MaxStall THEN n - 1 ELSE n
Aged(r) == [owned_by |-> r.owned_by, until |-> Down(r.until)]

Goto(w, l) == pc' = [pc EXCEPT ![w] = l]

Fault == faults < MaxFaults /\ faults' = faults + 1

-----------------------------------------------------------------------------
Init ==
    /\ lease = [p \in Partitions |-> Unowned]
    /\ beat = [w \in Workers |-> NoBeat]
    /\ draft = [w \in Workers |-> NoDraft]
    /\ pc = [w \in Workers |-> "idle"]
    /\ age = [w \in Workers |-> 0]
    /\ acting = [w \in Workers |-> {}]
    /\ left = [w \in Workers |-> [p \in Partitions |-> 0]]
    /\ faults = 0

Setup == {"renew", "claim", "rebalance", "commit", "list"}

(* Time passes, unless a worker's pass is as long as the bounds allow. *)
Tick ==
    /\ \A w \in Workers : pc[w] # "down" =>
          age[w] < IF pc[w] \in Setup THEN MaxSetup ELSE MaxStall
    /\ lease' = [p \in Partitions |-> Aged(lease[p])]
    /\ draft' = [w \in Workers |-> [p \in Partitions |->
                   IF draft[w][p] = Nil THEN Nil ELSE Aged(draft[w][p])]]
    /\ beat' = [w \in Workers |-> Down(beat[w])]
    /\ age' = [w \in Workers |-> IF pc[w] = "down" THEN 0 ELSE age[w] + 1]
    /\ left' = [w \in Workers |-> [p \in Partitions |->
                  IF left[w][p] > 0 THEN left[w][p] - 1 ELSE 0]]
    /\ UNCHANGED <<pc, acting, faults>>

(* record_worker_heartbeat opens the lease transaction (its row is written *)
(* by this worker only and appears with the commit).                       *)
BeginLoop(w) ==
    /\ pc[w] = "idle"
    /\ age' = [age EXCEPT ![w] = 0]
    /\ Goto(w, "renew")
    /\ UNCHANGED <<lease, beat, draft, acting, left, faults>>

(* Write(w, S, r): the open transaction sets the rows of S to r. *)
Write(w, S, r) ==
    draft' = [draft EXCEPT ![w] = [p \in Partitions |-> IF p \in S THEN r ELSE @[p]]]

(* renew_owned_partitions waits for a row that another worker, whose now() *)
(* is later, is claiming; once that commits, the row is no longer its own. *)
renew_owned_partitions(w) ==
    /\ pc[w] = "renew"
    /\ \A p \in OwnedInTx(w) : ~LockedByOther(w, p)
    /\ Write(w, OwnedInTx(w), Leased(w))
    /\ Goto(w, "claim")
    /\ UNCHANGED <<lease, beat, age, acting, left, faults>>

Rank(w, p) == (p + Offset[w]) % Count

(* Mutant: any lease of another worker will do. *)
ClaimableAny(w) ==
    {p \in Partitions : View(w, p).owned_by # w /\ ~LockedByOther(w, p)}

(* Mutant: only rows without an owner, so a dead owner keeps its rows. *)
ClaimableUnowned(w) ==
    {p \in Partitions : View(w, p).owned_by = Nil /\ ~LockedByOther(w, p)}

(* Mutant: without IS NULL, a lease_until of NULL is never past. *)
ClaimableExpired(w) ==
    {p \in Partitions : /\ View(w, p).owned_by # Nil /\ ~Live(w, View(w, p))
                        /\ ~LockedByOther(w, p)}

(* Mutant: the rows are not locked by the SELECT. *)
ClaimableUnlocked(w) ==
    {p \in Partitions : View(w, p).owned_by = Nil \/ ~Live(w, View(w, p))}

(* FOR UPDATE SKIP LOCKED, the rows judged by this transaction's now(). *)
Claimable(w) ==
    {p \in Partitions : /\ View(w, p).owned_by = Nil \/ ~Live(w, View(w, p))
                        /\ ~LockedByOther(w, p)}

claim_available_partitions(w) ==
    /\ pc[w] = "claim"
    /\ \E S \in SUBSET Claimable(w) :
          /\ Cardinality(S) <= LeaseBatch
          /\ S = Claimable(w) \/ Cardinality(S) = LeaseBatch
          /\ \A p \in S, q \in Claimable(w) \ S : Rank(w, p) < Rank(w, q)
          /\ Write(w, S, Leased(w))
    /\ Goto(w, "rebalance")
    /\ UNCHANGED <<lease, beat, age, acting, left, faults>>

(* Mutant: the other workers are not counted. *)
ActiveAlone(w) == {w}

(* count_active_workers: the other heartbeats, and this transaction's own. *)
ActiveWorkers(w) == {v \in Workers : v = w \/ beat[v] + age[w] > 0}

fair_partition_cap(n) == (Count + n - 1) \div n

release_excess_partitions(w) ==
    LET owned == OwnedInTx(w)
        cap == fair_partition_cap(Cardinality(ActiveWorkers(w)))
        excess == {p \in owned : Cardinality({q \in owned : q <= p}) > cap}
    IN /\ pc[w] = "rebalance"
       /\ Write(w, IF ElasticRebalance THEN excess ELSE {}, Unowned)
       /\ Goto(w, "commit")
       /\ UNCHANGED <<lease, beat, age, acting, left, faults>>

Discard(w) == draft' = [draft EXCEPT ![w] = NoDraft]

(* Mutant: the heartbeat counts from the end of the transaction, twice. *)
CommitLateBeat(w) ==
    /\ pc[w] = "commit"
    /\ lease' = [p \in Partitions |-> View(w, p)]
    /\ beat' = [beat EXCEPT ![w] = HeartbeatTicks + age[w]]
    /\ Discard(w)
    /\ Goto(w, "list")
    /\ UNCHANGED <<age, acting, left, faults>>

CommitLeases(w) ==
    /\ pc[w] = "commit"
    /\ lease' = [p \in Partitions |-> View(w, p)]
    /\ beat' = [beat EXCEPT ![w] = HeartbeatTicks - age[w]]
    /\ Discard(w)
    /\ Goto(w, "list")
    /\ UNCHANGED <<age, acting, left, faults>>

(* A transaction of its own, so now() is the present. *)
list_owned_partitions(w) ==
    LET listed == {p \in Partitions : lease[p].owned_by = w /\ lease[p].until > 0}
    IN /\ pc[w] = "list"
       /\ acting' = [acting EXCEPT ![w] = listed]
       /\ left' = [left EXCEPT ![w] = [p \in Partitions |->
                     IF p \in listed THEN lease[p].until ELSE 0]]
       /\ Goto(w, "match")
       /\ UNCHANGED <<lease, beat, draft, age, faults>>

(* The pass is over, or given up. *)
Leave(w, l) ==
    /\ Discard(w)
    /\ acting' = [acting EXCEPT ![w] = {}]
    /\ left' = [left EXCEPT ![w] = [p \in Partitions |-> 0]]
    /\ Goto(w, l)

(* Module Matching is what happens before: fetch, pair, match. *)
EndLoop(w) ==
    /\ pc[w] = "match"
    /\ Leave(w, "idle")
    /\ UNCHANGED <<lease, beat, age, faults>>

(* A statement raises: rolled back, and main goes on to the next pass. *)
LoopFails(w) ==
    /\ pc[w] \notin {"idle", "down"}
    /\ Fault
    /\ Leave(w, "idle")
    /\ UNCHANGED <<lease, beat, age>>

(* SIGTERM and SIGKILL end the process where it is: nothing is released. *)
Crash(w) ==
    /\ pc[w] # "down"
    /\ Fault
    /\ Leave(w, "down")
    /\ age' = [age EXCEPT ![w] = 0]
    /\ UNCHANGED <<lease, beat>>

(* An interrupt runs shutdown_worker: every row still owned is released,   *)
(* also an expired one, after the wait for whoever is claiming it.         *)
shutdown_worker(w) ==
    /\ pc[w] # "down"
    /\ \A p \in Partitions : lease[p].owned_by = w => ~LockedByOther(w, p)
    /\ Fault
    /\ lease' = [p \in Partitions |-> IF lease[p].owned_by = w THEN Unowned ELSE lease[p]]
    /\ beat' = [beat EXCEPT ![w] = NoBeat]
    /\ Leave(w, "down")
    /\ age' = [age EXCEPT ![w] = 0]

(* The same worker id: it finds the leases of its former process. *)
Restart(w) ==
    /\ pc[w] = "down"
    /\ Goto(w, "idle")
    /\ UNCHANGED <<lease, beat, draft, age, acting, left, faults>>

-----------------------------------------------------------------------------
WorkerStep(w) ==
    \/ BeginLoop(w) \/ renew_owned_partitions(w) \/ claim_available_partitions(w)
    \/ release_excess_partitions(w) \/ CommitLeases(w) \/ list_owned_partitions(w)
    \/ EndLoop(w) \/ Restart(w)

FaultStep(w) == LoopFails(w) \/ Crash(w) \/ shutdown_worker(w)

Next == Tick \/ \E w \in Workers : WorkerStep(w) \/ FaultStep(w)

(* No other lease transaction is open while w claims. *)
ClaimAlone(w) ==
    /\ \A v \in Workers \ {w} : draft[v] = NoDraft
    /\ claim_available_partitions(w)

(* The loop of main goes on, dead workers are restarted, time passes.  The *)
(* jitter of scheduling.py keeps the loops from running in step for ever:  *)
(* a worker that claims again and again does so again and again while no   *)
(* other is in its short lease transaction.  Without that, a worker at its *)
(* share, which claims a row and gives it back in every pass, could hide   *)
(* the row from the others.                                                *)
Jitter(w) == []<>(pc[w] = "claim") => []<><<ClaimAlone(w)>>_vars

Fairness ==
    /\ SF_vars(Tick)
    /\ \A w \in Workers : WF_vars(WorkerStep(w)) /\ Jitter(w)

Spec == Init /\ [][Next]_vars
FairSpec == Spec /\ Fairness

-----------------------------------------------------------------------------
(* Properties. *)

(* Every variable holds a value of its type. *)
TypeOK ==
    /\ lease \in [Partitions -> Row]
    /\ beat \in [Workers -> -MaxStall .. HeartbeatTicks]
    /\ draft \in [Workers -> [Partitions -> Row \union {Nil}]]
    /\ pc \in [Workers -> {"idle", "renew", "claim", "rebalance", "commit",
                           "list", "match", "down"}]
    /\ age \in [Workers -> 0 .. MaxStall]
    /\ acting \in [Workers -> SUBSET Partitions]
    /\ left \in [Workers -> [Partitions -> 0 .. LeaseTicks]]
    /\ faults \in 0 .. MaxFaults

(* While the lease a worker listed has time left, the row is still its own *)
(* and nobody else works on the partition: neither a transaction whose     *)
(* now() is old nor a restart nor a rebalance takes it away.               *)
LeaseProtects ==
    \A w \in Workers : \A p \in acting[w] : left[w][p] > 0 =>
       /\ lease[p] = [owned_by |-> w, until |-> left[w][p]]
       /\ \A v \in Workers \ {w} : p \notin acting[v] \/ left[v][p] = 0

(* README.md:84, "recover without double-processing": again and again some *)
(* worker works on each partition, whoever died and whatever it held.      *)
PartitionsAreServed ==
    \A p \in Partitions : []<>(\E w \in Workers : p \in acting[w])

(* README.md:84, "elastic rebalancing releases excess leases": when the    *)
(* faults are over, every worker comes to hold its fair share at most (of  *)
(* leases that have not run out), and stays there.                         *)
SharesBecomeFair ==
    <>[](\A w \in Workers :
           Cardinality({p \in Partitions : lease[p].owned_by = w /\ lease[p].until > 0})
             <= fair_partition_cap(Cardinality(Workers)))

(* README.md:38, "each partition is owned by at most one worker at a time":*)
(* no two workers work on a partition at the same time.                    *)
OneOwnerAtATime ==
    \A v, w \in Workers : v # w => acting[v] \intersect acting[w] = {}
=============================================================================
