---------------------------- MODULE SystemProofs ----------------------------
(***************************************************************************)
(* Proofs about the worker process as a whole, for all constants: what     *)
(* was proved of its two halves, Leases and Matching, holds of the         *)
(* composition, and the properties that relate the halves hold.            *)
(***************************************************************************)
EXTENDS SystemInv, LeasesProofs, Sequences, FiniteSetTheorems

-----------------------------------------------------------------------------
(* The steps of the system are steps of the matching. *)

(* Whatever the leases do, the matching makes one of its steps or none.    *)
LEMMA StepOfMatching == IInv /\ [SNext]_svars => [M!Next]_(M!vars)
  <1> SUFFICES ASSUME IInv, [SNext]_svars PROVE [M!Next]_(M!vars)
    OBVIOUS
  <1> USE DEF M!Next
  <1>1. ASSUME UNCHANGED mvars PROVE UNCHANGED M!vars
    BY <1>1 DEF mvars, M!vars, M!tables, M!local
  <1>2. ASSUME NEW w \in Workers, PassStep(w) PROVE [M!Next]_(M!vars)
    <2>1. CASE PairStep(w)
      BY <2>1 DEF PairStep
    <2>2. CASE LeaseStep(w) \/ ListPartitions(w)
      BY <1>1, <2>2 DEF LeaseStep, ListPartitions
    <2>3. CASE Cleanup(w)
      BY <2>3 DEF Cleanup, M!LoopStep
    <2>4. CASE Fetch(w)
      <3>1. acting[w] \in SUBSET Partitions
        BY DEF IInv, TypeOK
      <3> QED
        BY <2>4, <3>1 DEF Fetch, M!LoopStep
    <2>5. CASE SearchPairs(w)
      BY <2>5 DEF SearchPairs, M!LoopStep
    <2>6. CASE EndPass(w)
      BY <2>6 DEF EndPass, M!LoopStep
    <2>7. CASE Revive(w)
      BY <2>7 DEF Revive, M!Fault
    <2> QED
      BY <1>2, <2>1, <2>2, <2>3, <2>4, <2>5, <2>6, <2>7 DEF PassStep
  <1>3. CASE Clock
    BY <1>1, <1>3 DEF Clock
  <1>4. CASE ApiStep
    BY <1>4 DEF ApiStep
  <1>5. ASSUME NEW w \in Workers, PairFails(w) \/ PassFails(w) \/ Die(w)
        PROVE  [M!Next]_(M!vars)
    BY <1>1, <1>5 DEF PairFails, PassFails, Die, M!Fault
  <1>6. CASE UNCHANGED svars
    BY <1>1, <1>6 DEF svars
  <1> QED
    BY <1>2, <1>3, <1>4, <1>5, <1>6 DEF SNext

(* The invariant of the leases is kept: a failed pair is the only step of  *)
(* the system that is none of theirs, and it only counts as a fault.       *)
LEMMA StepKeepsLeases == IInv /\ [SNext]_svars => IInv'
  <1> SUFFICES ASSUME IInv, [SNext]_svars PROVE IInv'
    OBVIOUS
  <1>1. ASSUME NEW w \in Workers, PairFails(w) PROVE IInv'
    <2>1. faults' \in 0 .. MaxFaults
      BY <1>1, TicksAssumption DEF PairFails, Fault, IInv, TypeOK
    <2>2. UNCHANGED <<lease, beat, draft, pc, age, acting, left>>
      BY <1>1 DEF PairFails
    <2> QED
      BY <2>1, <2>2 DEF IInv, TypeOK, PassesAreClosed, RowsAreLockedOnce,
         RenewedRowsAreLocked, RunningLeasesAreSafe, ListedLeasesStand, Drafted, Live
  <1>2. ASSUME NEW w \in Workers, PassStep(w) PROVE [Next]_vars
    BY <1>2 DEF PassStep, PairStep, LeaseStep, Cleanup, ListPartitions, Fetch, SearchPairs,
       EndPass, Revive, Next, WorkerStep, lvars
  <1>3. ASSUME NEW w \in Workers, PassFails(w) \/ Die(w) PROVE [Next]_vars
    BY <1>3 DEF PassFails, Die, Next, FaultStep
  <1>4. ASSUME Clock \/ ApiStep \/ UNCHANGED svars PROVE [Next]_vars
    BY <1>4 DEF Clock, ApiStep, svars, lvars, Next
  <1> QED
    BY <1>1, <1>2, <1>3, <1>4, NextKeeps DEF SNext

-----------------------------------------------------------------------------
(* A worker works on what it listed. *)

(* What a worker has in its batch has a request. *)
LEMMA BatchHasRequests ==
    ASSUME M!IInv, NEW w \in Workers, NEW t \in Tickets, Working(w, t)
    PROVE  request[t] # Nil
  BY DEF M!IInv, M!WorkerInv, M!PairsAreOfOneQueue, Working

(* A worker keeps its part of the invariant as long as its stage stays one *)
(* with a batch, or one without, and its batch and its list stay the same. *)
LEMMA WorkerKept ==
    ASSUME M!IInv, [M!Next]_(M!vars), NEW w \in Workers,
           StageFollowsThePass(w), BatchIsListed(w),
           pc'[w] = pc[w], acting'[w] = acting[w], batch'[w] = batch[w], owned'[w] = owned[w],
           \/ stage'[w] = stage[w]
           \/ stage[w] \in Fetched /\ stage'[w] \in Fetched \ {"fetch_oldest"}
    PROVE  StageFollowsThePass(w)' /\ BatchIsListed(w)'
  <1>1. StageFollowsThePass(w)'
    BY DEF StageFollowsThePass, Fetched, M!Working, M!InPair
  <1>2. ASSUME NEW t \in Tickets, Working(w, t)'
        PROVE  PartitionOf[request'[t].queue] \in acting'[w]
    <2>1. Working(w, t)
      BY <1>2 DEF Working
    <2>2. request'[t] = request[t]
      BY <2>1, BatchHasRequests, MatchingAssumption, M!RequestsStay
    <2> QED
      BY <2>1, <2>2 DEF BatchIsListed
  <1>3. BatchIsListed(w)'
    BY <1>2 DEF BatchIsListed
  <1> QED
    BY <1>1, <1>3

(* A worker that drops its batch when it leaves the pass, or has none yet. *)
LEMMA WorkerIdle ==
    ASSUME NEW w \in Workers, batch'[w] = <<>>, stage'[w] \notin Fetched,
           pc'[w] = "down" <=> stage'[w] = "down",
           stage'[w] = "fetch" => pc'[w] \in {"list", "match"}
    PROVE  StageFollowsThePass(w)' /\ BatchIsListed(w)'
  BY DEF StageFollowsThePass, BatchIsListed, Working, Fetched

(* Inside a pair only the stage moves, among those that hold a batch.      *)
LEMMA PairFrame ==
    ASSUME M!IInv, NEW w \in Workers, M!PairStep(w) \/ M!PairFails(w)
    PROVE  /\ stage[w] \in Fetched /\ stage'[w] \in Fetched \ {"fetch_oldest"}
           /\ \A v \in Workers \ {w} : stage'[v] = stage[v]
           /\ UNCHANGED <<batch, owned>>
  <1> USE DEF M!IInv, M!TypeOK, M!Goto, M!local, Fetched, M!Working, M!InPair
  <1>1. CASE M!StartPair(w)
    BY <1>1 DEF M!StartPair
  <1>2. CASE M!ReserveFirst(w) \/ M!ReserveSecond(w)
    BY <1>2 DEF M!ReserveFirst, M!ReserveSecond
  <1>3. CASE M!LosePair(w) \/ M!PairFails(w)
    BY <1>3 DEF M!LosePair, M!PairFails, M!RollbackPair
  <1>4. CASE M!DeadlockAbort(w)
    BY <1>4 DEF M!DeadlockAbort, M!InDeadlock, M!Blocks, M!RollbackPair
  <1>5. CASE M!InsertMatch(w) \/ M!InsertEvent(w)
    BY <1>5 DEF M!InsertMatch, M!InsertEvent
  <1>6. CASE M!LinkFirst(w) \/ M!LinkSecond(w)
    BY <1>6 DEF M!LinkFirst, M!LinkSecond
  <1>7. CASE M!Commit(w)
    BY <1>7 DEF M!Commit
  <1> QED
    BY <1>1, <1>2, <1>3, <1>4, <1>5, <1>6, <1>7 DEF M!PairStep

(* The fetch takes tickets of the list only, in each of its two SELECTs.   *)
LEMMA FetchKeeps ==
    ASSUME SInv, NEW w \in Workers, Fetch(w)
    PROVE  StageFollowsThePass(w)' /\ BatchIsListed(w)'
  <1>1. /\ stage' = [stage EXCEPT ![w] = stage'[w]] /\ stage'[w] \in {"fetch_oldest", "find"}
        /\ pc'[w] = "match" /\ acting'[w] = acting[w] /\ request' = request
    BY DEF SInv, M!IInv, M!TypeOK, Fetch, M!FetchTickets, M!Goto, lvars, vars
  <1>2. StageFollowsThePass(w)'
    BY <1>1 DEF StageFollowsThePass
  <1>3. \A i \in DOMAIN batch'[w] : batch'[w][i] \in M!WaitingIn(acting[w])
    <2> DEFINE W == M!WaitingIn(acting[w])
    <2>1. W \in SUBSET Tickets /\ M!newest_limit \in Nat /\ BatchSize \in Nat
      BY MatchingAssumption DEF M!WaitingIn, M!newest_limit, M!BatchAssumption
    <2>2. \/ \E s \in M!Newest(W, M!newest_limit) : batch'[w] = s
          \/ \E s \in M!Oldest(W, BatchSize) : batch'[w] = s
      BY DEF SInv, M!IInv, M!TypeOK, Fetch, M!FetchTickets
    <2> HIDE DEF W
    <2>3. ASSUME NEW n \in Nat, NEW s, s \in M!Oldest(W, n) \/ s \in M!Newest(W, n)
          PROVE  \A i \in DOMAIN s : s[i] \in W
      BY <2>1, <2>3, MatchingAssumption, M!ListingTypes
    <2> QED
      BY <2>1, <2>2, <2>3 DEF W
  <1>4. stage'[w] = "fetch_oldest" => owned'[w] \subseteq acting'[w]
    BY <1>1 DEF SInv, M!IInv, M!TypeOK, Fetch, M!FetchTickets, M!Goto
  <1>5. \A t \in Tickets : Working(w, t)' => PartitionOf[request'[t].queue] \in acting'[w]
    BY <1>1, <1>3 DEF Working, M!WaitingIn
  <1> QED
    BY <1>1, <1>2, <1>4, <1>5 DEF BatchIsListed, Fetched

(* The second SELECT is for the partitions of the first.                   *)
LEMMA FetchOldestKeeps ==
    ASSUME SInv, NEW w \in Workers, M!FetchOldest(w), UNCHANGED lvars
    PROVE  StageFollowsThePass(w)' /\ BatchIsListed(w)'
  <1>1. /\ stage' = [stage EXCEPT ![w] = "find"] /\ stage[w] = "fetch_oldest"
        /\ pc'[w] = pc[w] /\ acting'[w] = acting[w] /\ request' = request
    BY DEF SInv, M!FetchOldest, M!Goto, lvars, vars
  <1>2. stage'[w] = "find" /\ pc[w] = "match" /\ owned[w] \subseteq acting[w]
    BY <1>1 DEF SInv, M!IInv, M!TypeOK, StageFollowsThePass, BatchIsListed, Fetched
  <1>3. StageFollowsThePass(w)'
    BY <1>1, <1>2 DEF StageFollowsThePass
  <1>4. PICK s \in Seq(Tickets) : /\ batch' = [batch EXCEPT ![w] = @ \o s]
                                  /\ \A i \in DOMAIN s : s[i] \in M!WaitingIn(owned[w])
    BY MatchingAssumption, M!SecondListing
  <1>5. batch'[w] = batch[w] \o s /\ batch[w] \in Seq(Tickets)
    BY <1>4 DEF SInv, M!IInv, M!TypeOK
  <1>6. ASSUME NEW t \in Tickets, Working(w, t)'
        PROVE  PartitionOf[request[t].queue] \in acting[w]
    <2>1. Working(w, t) \/ t \in M!WaitingIn(owned[w])
      BY <1>4, <1>5, <1>6 DEF Working
    <2> QED
      BY <1>2, <2>1 DEF M!WaitingIn, SInv, BatchIsListed
  <1> QED
    BY <1>1, <1>2, <1>3, <1>6 DEF BatchIsListed, Fetched
(* The steps of a worker that leave its matching alone move its pass only  *)
(* before the list, or to the list.                                        *)
LEMMA LeaseStepKeeps ==
    ASSUME SInv, [SNext]_svars, NEW w \in Workers, LeaseStep(w) \/ ListPartitions(w)
    PROVE  \A v \in Workers : StageFollowsThePass(v)' /\ BatchIsListed(v)'
  <1>1. UNCHANGED <<stage, batch, owned>> /\ [M!Next]_(M!vars)
    BY StepOfMatching DEF LeaseStep, ListPartitions, mvars, SInv
  <1>2. ASSUME NEW v \in Workers \ {w} PROVE pc'[v] = pc[v] /\ acting'[v] = acting[v]
    BY DEF LeaseStep, ListPartitions, BeginLoop, renew_owned_partitions,
       claim_available_partitions, release_excess_partitions, CommitLeases,
       list_owned_partitions, Goto, SInv, IInv, TypeOK
  <1>3. CASE LeaseStep(w)
    <2>1. pc[w] \in Setup \union {"idle"} /\ pc[w] # "list" /\ pc'[w] \in Setup
      BY <1>3 DEF LeaseStep, BeginLoop, renew_owned_partitions, Setup,
         claim_available_partitions, release_excess_partitions, CommitLeases, Goto,
         SInv, IInv, TypeOK
    <2>2. pc[w] \notin {"match", "list", "down"} /\ pc'[w] # "down"
      BY <2>1 DEF Setup
    <2>3. stage[w] \notin Fetched \union {"fetch", "down"} /\ batch[w] = <<>>
      BY <2>2 DEF SInv, StageFollowsThePass, BatchIsListed
    <2> QED
      BY <1>1, <1>2, <2>2, <2>3, WorkerKept, WorkerIdle DEF SInv
  <1>4. CASE ListPartitions(w)
    <2>1. stage[w] = "fetch" /\ pc'[w] = "match"
      BY <1>4 DEF ListPartitions, list_owned_partitions, Goto, SInv, IInv, TypeOK
    <2>2. stage[w] \notin Fetched
      BY <2>1 DEF Fetched, M!Working, M!InPair
    <2>3. batch[w] = <<>>
      BY <2>2 DEF SInv, BatchIsListed
    <2> QED
      BY <1>1, <1>2, <2>1, <2>2, <2>3, WorkerKept, WorkerIdle DEF SInv
  <1> QED
    BY <1>3, <1>4

(* The ends of a pass: its tickets and its list go together.               *)
LEMMA PassEndKeeps ==
    ASSUME SInv, [SNext]_svars, NEW w \in Workers,
           EndPass(w) \/ PassFails(w) \/ Die(w) \/ Revive(w)
    PROVE  \A v \in Workers : StageFollowsThePass(v)' /\ BatchIsListed(v)'
  <1>1. [M!Next]_(M!vars)
    BY StepOfMatching DEF SInv
  <1>2. ASSUME NEW v \in Workers \ {w}
        PROVE  /\ pc'[v] = pc[v] /\ acting'[v] = acting[v]
               /\ stage'[v] = stage[v] /\ batch'[v] = batch[v] /\ owned'[v] = owned[v]
    <2>1. pc'[v] = pc[v] /\ acting'[v] = acting[v]
      BY DEF EndPass, PassFails, Die, Revive, EndLoop, LoopFails, Crash, shutdown_worker,
         Restart, Leave, Goto, SInv, IInv, TypeOK
    <2>2. stage'[v] = stage[v] /\ batch'[v] = batch[v] /\ owned'[v] = owned[v]
      BY DEF EndPass, PassFails, Die, Revive, M!EndLoop, M!LoopFails, M!CommitLost, M!Crash,
         M!Restart, M!Forget, M!Goto, M!local, mvars, SInv, M!IInv, M!TypeOK
    <2> QED
      BY <2>1, <2>2
  <1>3. batch'[w] = <<>>
    <2>1. CASE Revive(w) \/ (PassFails(w) /\ stage[w] = "idle" /\ UNCHANGED mvars)
      <3>1. stage[w] \notin Fetched /\ batch'[w] = batch[w]
        BY <2>1 DEF Revive, M!Restart, M!local, mvars, Fetched, M!Working, M!InPair
      <3> QED
        BY <3>1 DEF SInv, BatchIsListed
    <2>2. CASE EndPass(w) \/ Die(w) \/ M!LoopFails(w) \/ M!CommitLost(w)
      BY <2>2 DEF EndPass, Die, M!EndLoop, M!LoopFails, M!CommitLost, M!Crash, M!Forget,
         SInv, M!IInv, M!TypeOK
    <2> QED
      BY <2>1, <2>2 DEF PassFails
  <1>4. \/ stage'[w] = "idle" /\ pc'[w] = "idle"
        \/ stage'[w] = "down" /\ pc'[w] = "down"
    <2>1. \/ pc'[w] = "idle" /\ ~Die(w)
          \/ pc'[w] = "down" /\ Die(w)
      BY DEF EndPass, PassFails, Die, Revive, EndLoop, LoopFails, Crash, shutdown_worker,
         Restart, Leave, Goto, SInv, IInv, TypeOK
    <2>2. IF Die(w) THEN stage'[w] = "down" ELSE stage'[w] = "idle"
      BY DEF EndPass, PassFails, Die, Revive, M!EndLoop, M!LoopFails, M!CommitLost, M!Crash,
         M!Restart, M!Goto, mvars, SInv, M!IInv, M!TypeOK
    <2> QED
      BY <2>1, <2>2
  <1>5. StageFollowsThePass(w)' /\ BatchIsListed(w)'
    BY <1>3, <1>4, WorkerIdle DEF Fetched, M!Working, M!InPair
  <1>6. ASSUME NEW v \in Workers \ {w}
        PROVE  StageFollowsThePass(v)' /\ BatchIsListed(v)'
    BY <1>1, <1>2, WorkerKept DEF SInv
  <1> QED
    BY <1>5, <1>6

(* What a worker works on has been listed, at every step of the system.    *)
LEMMA PassesKept ==
    ASSUME SInv, [SNext]_svars
    PROVE  \A v \in Workers : StageFollowsThePass(v)' /\ BatchIsListed(v)'
  <1>1. [M!Next]_(M!vars)
    BY StepOfMatching DEF SInv
  <1>2. ASSUME UNCHANGED <<pc, acting, stage, batch, owned>>
        PROVE  \A v \in Workers : StageFollowsThePass(v)' /\ BatchIsListed(v)'
    BY <1>1, <1>2, WorkerKept DEF SInv
  <1>3. CASE Clock \/ ApiStep \/ UNCHANGED svars
    BY <1>2, <1>3 DEF Clock, Tick, mvars, ApiStep, lvars, vars, svars, M!ApiStep,
       M!CreateTicket, M!CancelTicket, M!PassThreshold, M!local
  <1>4. ASSUME NEW w \in Workers, PairStep(w) \/ PairFails(w)
        PROVE  \A v \in Workers : StageFollowsThePass(v)' /\ BatchIsListed(v)'
    <2>1. UNCHANGED <<pc, acting>>
      BY <1>4 DEF PairStep, PairFails, lvars, vars
    <2>2. /\ stage[w] \in Fetched /\ stage'[w] \in Fetched \ {"fetch_oldest"}
          /\ \A v \in Workers \ {w} : stage'[v] = stage[v]
          /\ UNCHANGED <<batch, owned>>
      BY <1>4, PairFrame DEF PairStep, PairFails, SInv
    <2> QED
      BY <1>1, <2>1, <2>2, WorkerKept DEF SInv
  <1>5. ASSUME NEW w \in Workers, Cleanup(w)
        PROVE  \A v \in Workers : StageFollowsThePass(v)' /\ BatchIsListed(v)'
    <2>1. /\ stage[w] = "idle" /\ stage'[w] = "fetch" /\ pc[w] = "list"
          /\ \A v \in Workers \ {w} : stage'[v] = stage[v]
          /\ UNCHANGED <<pc, acting, batch, owned>>
      BY <1>5 DEF Cleanup, M!CleanupReservations, M!Goto, M!local, lvars, vars,
         SInv, M!IInv, M!TypeOK
    <2>2. stage[w] \notin Fetched /\ stage'[w] \notin Fetched
      BY <2>1 DEF Fetched, M!Working, M!InPair
    <2>3. batch[w] = <<>>
      BY <2>2 DEF SInv, BatchIsListed
    <2> QED
      BY <1>1, <2>1, <2>2, <2>3, WorkerKept, WorkerIdle DEF SInv
  <1>6. ASSUME NEW w \in Workers, Fetch(w) \/ SearchPairs(w)
        PROVE  \A v \in Workers : StageFollowsThePass(v)' /\ BatchIsListed(v)'
    <2>1. /\ UNCHANGED <<pc, acting>>
          /\ \A v \in Workers \ {w} :
                stage'[v] = stage[v] /\ batch'[v] = batch[v] /\ owned'[v] = owned[v]
      BY <1>6 DEF Fetch, SearchPairs, M!FetchTickets, M!FetchOldest, M!FindPairs, M!Goto,
         lvars, vars, SInv, M!IInv, M!TypeOK
    <2>2. ASSUME M!FindPairs(w) PROVE StageFollowsThePass(w)' /\ BatchIsListed(w)'
      <3>1. stage[w] = "find" /\ stage'[w] = "pairs" /\ UNCHANGED <<batch, owned>>
        BY <2>2 DEF M!FindPairs, M!Goto, SInv, M!IInv, M!TypeOK
      <3> QED
        BY <1>1, <2>1, <3>1, WorkerKept DEF SInv, Fetched
    <2>3. StageFollowsThePass(w)' /\ BatchIsListed(w)'
      BY <1>6, <2>2, FetchKeeps, FetchOldestKeeps DEF SearchPairs
    <2> QED
      BY <1>1, <2>1, <2>3, WorkerKept DEF SInv
  <1>7. ASSUME NEW w \in Workers, PassStep(w)
        PROVE  \A v \in Workers : StageFollowsThePass(v)' /\ BatchIsListed(v)'
    BY <1>4, <1>5, <1>6, <1>7, LeaseStepKeeps, PassEndKeeps DEF PassStep
  <1>8. ASSUME NEW w \in Workers, PassFails(w) \/ Die(w)
        PROVE  \A v \in Workers : StageFollowsThePass(v)' /\ BatchIsListed(v)'
    BY <1>8, PassEndKeeps
  <1> QED
    BY <1>3, <1>4, <1>7, <1>8 DEF SNext

-----------------------------------------------------------------------------
(* Every match is counted before it can be seen. *)

(* No match is made when the tables get only what was to be committed, and *)
(* no worker comes to its commit.                                          *)
LEMMA NothingMade ==
    ASSUME matches' \subseteq Made,
           \A v \in Workers : stage'[v] = "commit" =>
              stage[v] = "commit" /\ tx'[v].matches = tx[v].matches
    PROVE  Made' \subseteq Made
  BY DEF Made

(* The count does not fall, and what is made does not grow.                *)
LEMMA CountSuffices ==
    ASSUME MadeAreCounted, Made' \subseteq Made,
           matches_created' \in Nat, matches_created <= matches_created'
    PROVE  MadeAreCounted'
  <1>1. IsFiniteSet(Made') /\ Cardinality(Made') <= Cardinality(Made)
    BY FS_Subset DEF MadeAreCounted
  <1>2. Cardinality(Made) \in Nat /\ Cardinality(Made') \in Nat
    BY <1>1, FS_CardinalityType DEF MadeAreCounted
  <1> QED
    BY <1>1, <1>2 DEF MadeAreCounted

(* The tables get a draft's match only from a worker at its commit.        *)
LEMMA AppliedWasMade ==
    ASSUME M!IInv, NEW w \in Workers, stage[w] = "commit", M!Apply(w)
    PROVE  matches' \subseteq Made
  BY DEF M!Apply, Made, M!IInv, M!TypeOK, M!Draft

(* Inside a pair, the last INSERT is the step that makes a match.          *)
LEMMA PairMakes ==
    ASSUME M!IInv, NEW w \in Workers, M!PairStep(w) \/ M!PairFails(w),
           ~(stage[w] = "insert_event" /\ stage'[w] = "commit")
    PROVE  Made' \subseteq Made
  <1> USE DEF M!IInv, M!TypeOK, M!Goto, M!tables, M!local
  <1>1. ASSUME matches' = matches, stage' = [stage EXCEPT ![w] = stage'[w]], stage'[w] # "commit",
               \A v \in Workers \ {w} : tx'[v] = tx[v]
        PROVE  Made' \subseteq Made
    BY <1>1, NothingMade DEF Made
  <1>2. CASE M!StartPair(w)
    BY <1>1, <1>2 DEF M!StartPair
  <1>3. CASE M!ReserveFirst(w) \/ M!ReserveSecond(w)
    BY <1>1, <1>3 DEF M!ReserveFirst, M!ReserveSecond, M!Reserve, M!Write
  <1>4. CASE M!LosePair(w) \/ M!PairFails(w) \/ M!DeadlockAbort(w)
    BY <1>1, <1>4 DEF M!LosePair, M!PairFails, M!DeadlockAbort, M!RollbackPair, M!Discard
  <1>5. CASE M!InsertMatch(w)
    BY <1>1, <1>5 DEF M!InsertMatch
  <1>6. CASE M!LinkFirst(w) \/ M!LinkSecond(w)
    BY <1>1, <1>6 DEF M!LinkFirst, M!LinkSecond, M!LinkTicket
  <1>7. CASE M!InsertEvent(w)
    BY <1>7 DEF M!InsertEvent
  <1>8. CASE M!Commit(w)
    <2>1. matches' \subseteq Made
      BY <1>8, AppliedWasMade DEF M!Commit
    <2>2. \A v \in Workers \ {w} : stage'[v] = stage[v] /\ tx'[v] = tx[v]
      BY <1>8 DEF M!Commit, M!Discard
    <2>3. stage'[w] = "pairs"
      BY <1>8 DEF M!Commit
    <2> QED
      BY <2>1, <2>2, <2>3, NothingMade
  <1> QED
    BY <1>2, <1>3, <1>4, <1>5, <1>6, <1>7, <1>8 DEF M!PairStep

(* It makes one.                                                           *)
LEMMA InsertMakesOne ==
    ASSUME M!IInv, NEW w \in Workers, M!InsertEvent(w)
    PROVE  \E r \in M!MatchRow : Made' \subseteq Made \union {r}
  <1>1. /\ stage[w] = "insert_event" /\ matches' = matches
        /\ \A v \in Workers \ {w} : stage'[v] = stage[v] /\ tx'[v] = tx[v]
        /\ tx'[w].matches = tx[w].matches
    BY DEF M!InsertEvent, M!IInv, M!TypeOK, M!Goto, M!tables, M!Draft
  <1>2. PICK r : tx[w].matches = {r}
    BY <1>1 DEF M!IInv, M!WorkerInv, M!DraftFollowsTheCode, M!DraftOf,
       M!HoldsFirst, M!HoldsSecond, M!HasMatch, M!LinkedFirst, M!LinkedSecond, M!HasEvent
  <1>3. r \in M!MatchRow
    BY <1>2 DEF M!IInv, M!TypeOK, M!Draft
  <1>4. Made' \subseteq Made \union {r}
    BY <1>1, <1>2 DEF Made
  <1> QED
    BY <1>3, <1>4

(* The steps of a pair count what they make.                               *)
LEMMA PairStepCounts ==
    ASSUME SInv, NEW w \in Workers, PairStep(w)
    PROVE  MadeAreCounted'
  <1>1. CASE ~(stage[w] = "insert_event" /\ stage'[w] = "commit")
    <2>1. Made' \subseteq Made
      BY <1>1, PairMakes DEF PairStep, SInv
    <2>2. matches_created' \in Nat /\ matches_created <= matches_created'
      BY DEF PairStep, RecordMatch, SInv, MadeAreCounted
    <2> QED
      BY <2>1, <2>2, CountSuffices DEF SInv
  <1>2. CASE stage[w] = "insert_event" /\ stage'[w] = "commit"
    <2>1. M!InsertEvent(w)
      BY <1>2 DEF PairStep, M!PairStep, M!StartPair, M!ReserveFirst, M!ReserveSecond,
         M!LosePair, M!InsertMatch, M!LinkFirst, M!LinkSecond, M!Commit, M!DeadlockAbort, M!InDeadlock,
         M!Blocks
    <2>2. PICK r \in M!MatchRow : Made' \subseteq Made \union {r}
      BY <2>1, InsertMakesOne DEF SInv
    <2>3. matches_created' = matches_created + 1
      BY <1>2 DEF PairStep, RecordMatch
    <2>4. /\ IsFiniteSet(Made) /\ Cardinality(Made) <= matches_created
          /\ matches_created \in Nat
      BY DEF SInv, MadeAreCounted
    <2>5. /\ IsFiniteSet(Made \union {r}) /\ Cardinality(Made) \in Nat
          /\ Cardinality(Made \union {r}) <= Cardinality(Made) + 1
      <3> DEFINE S == Made
      <3>1. IsFiniteSet(S)
        BY <2>4
      <3> HIDE DEF S
      <3>2. Cardinality(S) \in Nat /\ IsFiniteSet(S \union {r})
            /\ Cardinality(S \union {r}) = IF r \in S THEN Cardinality(S) ELSE Cardinality(S) + 1
        BY <3>1, FS_AddElement, FS_CardinalityType
      <3>3. Cardinality(S \union {r}) <= Cardinality(S) + 1
        BY <3>2
      <3> QED
        BY <3>2, <3>3 DEF S
    <2>6. /\ IsFiniteSet(Made') /\ Cardinality(Made') <= Cardinality(Made \union {r})
      BY <2>2, <2>5, FS_Subset
    <2>7. Cardinality(Made') \in Nat /\ Cardinality(Made \union {r}) \in Nat
      BY <2>5, <2>6, FS_CardinalityType
    <2> QED
      BY <2>3, <2>4, <2>5, <2>6, <2>7 DEF MadeAreCounted
  <1> QED
    BY <1>1, <1>2

(* No step makes a match that is not counted.                              *)
LEMMA CountKept ==
    ASSUME SInv, [SNext]_svars
    PROVE  MadeAreCounted'
  <1>1. ASSUME Made' \subseteq Made, UNCHANGED matches_created PROVE MadeAreCounted'
    BY <1>1, CountSuffices DEF SInv, MadeAreCounted
  <1>2. ASSUME UNCHANGED <<matches, stage, tx>> PROVE Made' \subseteq Made
    BY <1>2 DEF Made
  <1>3. CASE ((Clock \/ ApiStep) /\ UNCHANGED matches_created) \/ UNCHANGED svars
    <2>1. UNCHANGED <<matches, stage, tx, matches_created>>
      BY <1>3 DEF Clock, ApiStep, svars, mvars, M!ApiStep, M!CreateTicket, M!CancelTicket,
         M!PassThreshold, M!tables
    <2> QED
      BY <1>1, <1>2, <2>1
  <1>4. ASSUME NEW w \in Workers, LeaseStep(w) \/ ListPartitions(w), UNCHANGED matches_created
        PROVE  MadeAreCounted'
    BY <1>1, <1>2, <1>4 DEF LeaseStep, ListPartitions, mvars
  <1>5. ASSUME NEW w \in Workers, UNCHANGED matches_created,
               \/ Cleanup(w) \/ Fetch(w) \/ SearchPairs(w) \/ EndPass(w) \/ Revive(w)
        PROVE  MadeAreCounted'
    <2>1. UNCHANGED <<matches, tx>> /\ \A v \in Workers : stage'[v] = "commit" => stage[v] = "commit"
      BY <1>5 DEF Cleanup, Fetch, SearchPairs, EndPass, Revive, M!CleanupReservations,
         M!FetchTickets, M!FetchOldest, M!FindPairs, M!EndLoop, M!Restart, M!tables, M!Goto,
         SInv, M!IInv, M!TypeOK
    <2>2. Made' \subseteq Made
      BY <2>1, NothingMade DEF Made
    <2> QED
      BY <1>1, <1>5, <2>2
  <1>6. ASSUME NEW w \in Workers, UNCHANGED matches_created, PairFails(w)
        PROVE  MadeAreCounted'
    <2>1. stage'[w] # "commit"
      BY <1>6 DEF PairFails, M!PairFails, M!RollbackPair, M!Goto, SInv, M!IInv, M!TypeOK
    <2> QED
      BY <1>1, <1>6, <2>1, PairMakes DEF PairFails, SInv
  <1>7. ASSUME NEW w \in Workers, UNCHANGED matches_created, PassFails(w) \/ Die(w)
        PROVE  MadeAreCounted'
    <2>1. CASE UNCHANGED mvars
      BY <1>1, <1>2, <1>7, <2>1 DEF mvars
    <2>2. CASE M!LoopFails(w) \/ M!CommitLost(w) \/ M!Crash(w)
      <3>1. \A v \in Workers \ {w} : stage'[v] = stage[v] /\ tx'[v] = tx[v]
        BY <2>2 DEF M!LoopFails, M!CommitLost, M!Crash, M!Discard, M!Goto, SInv, M!IInv, M!TypeOK
      <3>2. stage'[w] # "commit"
        BY <2>2 DEF M!LoopFails, M!CommitLost, M!Crash, M!Goto, SInv, M!IInv, M!TypeOK
      <3>3. matches' \subseteq Made
        BY <2>2, AppliedWasMade DEF M!LoopFails, M!CommitLost, M!Crash, M!tables, Made, SInv
      <3> QED
        BY <1>1, <1>7, <3>1, <3>2, <3>3, NothingMade
    <2> QED
      BY <1>7, <2>1, <2>2 DEF PassFails, Die
  <1> QED
    BY <1>3, <1>4, <1>5, <1>6, <1>7, PairStepCounts DEF SNext, PassStep

-----------------------------------------------------------------------------
(* The theorems. *)

(* The invariant holds of idle workers and empty tables.                   *)
LEMMA SystemInit == SInit => SInv
  <1> SUFFICES ASSUME SInit PROVE SInv
    OBVIOUS
  <1>1. IInv /\ M!IInv
    BY InitInv, M!InitInv, MatchingAssumption DEF SInit
  <1>2. \A w \in Workers : StageFollowsThePass(w) /\ BatchIsListed(w)
    BY DEF SInit, Init, M!Init, StageFollowsThePass, BatchIsListed, Working, Fetched,
       M!Working, M!InPair
  <1>3. Made = {} /\ matches_created = 0
    BY DEF SInit, M!Init, Made
  <1>4. MadeAreCounted
    BY <1>3, FS_EmptySet DEF MadeAreCounted
  <1> QED
    BY <1>1, <1>2, <1>4 DEF SInv

(* Every step keeps it.                                                    *)
LEMMA SystemStep == SInv /\ [SNext]_svars => SInv'
  <1> SUFFICES ASSUME SInv, [SNext]_svars PROVE SInv'
    OBVIOUS
  <1>1. IInv'
    BY StepKeepsLeases DEF SInv
  <1>2. M!IInv'
    BY StepOfMatching, M!StepInv, MatchingAssumption DEF SInv
  <1> QED
    BY <1>1, <1>2, PassesKept, CountKept DEF SInv

(* The invariant of the worker process, for any number of workers,         *)
(* partitions, tickets and faults.                                         *)
THEOREM SystemInvariance == SSpec => []SInv
  BY SystemInit, SystemStep, PTL DEF SSpec

(* The whole process is a run of the matching: what was proved of Matching *)
(* for workers with any partitions holds of workers with leased ones.      *)
THEOREM MatchingInTheSystem == SSpec => M!Spec
  <1>1. SInit => M!Init
    BY DEF SInit
  <1>2. SInv => IInv
    BY DEF SInv
  <1> QED
    BY <1>1, <1>2, StepOfMatching, SystemInvariance, PTL DEF SSpec, M!Spec

(* main.py:81 to 128 as a whole implements the abstract service: matches   *)
(* are whole and final whichever lease runs out under whichever worker.    *)
THEOREM SystemKeepsTheService == SSpec => M!ImplementsService /\ []M!NoDoubleMatch
  BY MatchingInTheSystem, M!Refinement, M!MatchedOnce, MatchingAssumption, PTL

(* A lease that was listed and has time left is its worker's alone, also   *)
(* while that worker matches.                                              *)
THEOREM LeasesProtectTheWork == SSpec => []LeaseProtects
  <1>1. SInv => LeaseProtects
    BY LeasesHold DEF SInv
  <1> QED
    BY <1>1, SystemInvariance, PTL

(* main.py:81 to 116: two workers meet on a ticket only when a lease has   *)
(* run out under one of them.                                              *)
THEOREM ContentionIsExpiry == SSpec => []ContentionMeansExpiry
  <1>1. SInv => ContentionMeansExpiry
    <2> SUFFICES ASSUME SInv PROVE ContentionMeansExpiry
      OBVIOUS
    <2>1. \A w \in Workers : \A t \in Tickets :
             Working(w, t) => PartitionOf[request[t].queue] \in acting[w]
      BY DEF SInv, BatchIsListed
    <2>2. ASSUME NEW v \in Workers, NEW w \in Workers, v # w, NEW p \in acting[v], p \in acting[w]
          PROVE  \E x \in {v, w} : left[x][p] = 0
      <3>1. left[w][p] \in Nat
        BY <2>2 DEF SInv, IInv, TypeOK
      <3>2. left[w][p] > 0 => left[v][p] = 0
        BY <2>2, LeasesHold DEF SInv, LeaseProtects
      <3>3. left[w][p] = 0 \/ left[v][p] = 0
        BY <3>1, <3>2
      <3> QED
        BY <3>3
    <2> QED
      BY <2>1, <2>2 DEF ContentionMeansExpiry
  <1> QED
    BY <1>1, SystemInvariance, PTL

(* main.py:126 to 128: the counter never falls short of the matches.       *)
THEOREM MatchesNeverEscape == SSpec => []MatchesAreCounted
  <1>1. SInv => MatchesAreCounted
    <2> SUFFICES ASSUME SInv PROVE MatchesAreCounted
      OBVIOUS
    <2>1. matches \subseteq Made /\ IsFiniteSet(Made)
      BY DEF Made, SInv, MadeAreCounted
    <2>2. IsFiniteSet(matches) /\ Cardinality(matches) <= Cardinality(Made)
      BY <2>1, FS_Subset
    <2>3. Cardinality(matches) \in Nat /\ Cardinality(Made) \in Nat
      BY <2>1, <2>2, FS_CardinalityType
    <2> QED
      BY <2>2, <2>3 DEF SInv, MadeAreCounted, MatchesAreCounted
  <1> QED
    BY <1>1, SystemInvariance, PTL
=============================================================================
