--------------------------- MODULE BenchmarkProofs ---------------------------
(***************************************************************************)
(* Proofs about Benchmark, for any arguments, any number of runs and any   *)
(* steps that fail.                                                        *)
(***************************************************************************)
EXTENDS BenchmarkInv, TLAPS

-----------------------------------------------------------------------------
(* Facts about single operators. *)

(* What the cluster leaves alone: all of the script but what it observes.   *)
LEMMA ClusterFrame ==
    ASSUME ClusterStep
    PROVE  UNCHANGED <<script, pool, replicas, used, want, access>>
  BY DEF ClusterStep, StoreUp, StoreDown, JobCompletes, PodsReady, PodsRetire, PodsEnd,
         stores, pods, script, access

(* The script starts, and stops, with nothing of a run left.                *)
LEMMA OptionsType ==
    ASSUME NEW a \in Options
    PROVE  /\ a.counts \in Seq(Nat \ {0}) /\ a.counts # <<>>
           /\ a.reset \in BOOLEAN /\ a.skip_deploy \in BOOLEAN
           /\ a.skip_teardown \in BOOLEAN /\ a.preflight \in BOOLEAN
  BY OptionsAssumption

(* The counts that are left.                                                *)
LEMMA CountsLemma ==
    ASSUME NEW s \in Seq(Nat \ {0}), s # <<>>
    PROVE  /\ Head(s) \in Nat \ {0} /\ Tail(s) \in Seq(Nat \ {0})
           /\ Len(s) > 1 => Tail(s) # <<>>
  <1>1. Len(s) \in Nat /\ Len(s) # 0
    OBVIOUS
  <1>2. Head(s) \in Nat \ {0} /\ Tail(s) \in Seq(Nat \ {0}) /\ Len(Tail(s)) = Len(s) - 1
    BY <1>1
  <1>3. Len(s) > 1 => Len(Tail(s)) # 0 /\ Len(<<>>) = 0
    BY <1>1, <1>2
  <1>4. Len(s) > 1 => Tail(s) # <<>>
    BY <1>3
  <1> QED
    BY <1>2, <1>4

(* The steps of a run that deploy or load, by the lines they lead to.       *)
LEMMA ModeKept == ModeFollowsTheLine /\ TypeOK /\ Next => ModeFollowsTheLine'
  <1> SUFFICES ASSUME ModeFollowsTheLine, TypeOK, Next PROVE ModeFollowsTheLine'
    OBVIOUS
  <1> USE DEF ModeFollowsTheLine, DeployLines, StoreLines
  <1>1. CASE ClusterStep
    BY <1>1, ClusterFrame DEF script
  <1>2. CASE Start \/ Verify \/ EmptyPool \/ SizePool \/ DeleteIngress \/ StopNodes \/ Exit
    BY <1>2 DEF Start, Verify, EmptyPool, SizePool, DeleteIngress, StopNodes, Exit, Goto, KeepPlan
  <1>3. CASE Deploy
    <2>1. CASE EnsureDeploy
      BY <2>1 DEF EnsureDeploy
    <2>2. CASE ApplyStores \/ ScaleToZero \/ PodGone \/ DeleteClaim
      BY <2>2 DEF ApplyStores, ScaleToZero, PodGone, DeleteClaim, Goto, KeepPlan
    <2>3. CASE CheckStore
      BY <2>3 DEF CheckStore, AfterStore, AfterStores
    <2>4. CASE ReapplyStore
      BY <2>4 DEF ReapplyStore, AfterStore, AfterStores, TypeOK
    <2>5. CASE PostgresReady \/ EnsureMigration \/ MigrationDone
      BY <2>5 DEF PostgresReady, EnsureMigration, MigrationDone, Goto, KeepPlan
    <2>6. CASE StoresReady \/ ApplyApps
      BY <2>6 DEF StoresReady, ApplyApps, Goto, KeepPlan
    <2> QED
      BY <1>3, <2>1, <2>2, <2>3, <2>4, <2>5, <2>6 DEF Deploy
  <1>4. CASE Measure
    BY <1>4 DEF Measure, DataReady, ScaleReplicas, Restart, Rollout, OldPodsGone, Connect,
       BeginLoad, EndLoad, Goto, KeepPlan, AfterStores
  <1>5. CASE Failure
    BY <1>5 DEF Failure, StepFails, NothingThere, AuthFails, TeardownFails, ManualReset, Escape
  <1> QED
    BY <1>1, <1>2, <1>3, <1>4, <1>5 DEF Next, ScriptStep

(* What the steps that deploy have in common. *)
LEMMA DeployFrame ==
    ASSUME ModeFollowsTheLine, Deploy
    PROVE  /\ pool' = pool /\ counts' = counts /\ args' = args /\ access' = access
           /\ pc \in DeployLines \union {"deploy"}
           /\ pc' \in DeployLines \union {"data", "restart"}
           /\ pc' = "restart" => mode' # "scale"
  <1> USE DEF DeployLines, StoreLines
  <1>1. CASE EnsureDeploy
    BY <1>1 DEF EnsureDeploy, KeepRun
  <1>2. CASE ApplyStores \/ ScaleToZero \/ PodGone \/ DeleteClaim
    BY <1>2 DEF ApplyStores, ScaleToZero, PodGone, DeleteClaim, Goto, KeepPlan, KeepRun
  <1>3. CASE CheckStore
    BY <1>3 DEF CheckStore, AfterStore, AfterStores, KeepRun
  <1>4. CASE ReapplyStore
    BY <1>4 DEF ReapplyStore, AfterStore, AfterStores, KeepRun
  <1>5. CASE PostgresReady \/ EnsureMigration \/ MigrationDone
    BY <1>5 DEF PostgresReady, EnsureMigration, MigrationDone, Goto, KeepPlan, KeepRun,
       ModeFollowsTheLine
  <1>6. CASE StoresReady \/ ApplyApps
    BY <1>6 DEF StoresReady, ApplyApps, Goto, KeepPlan, KeepRun
  <1> QED
    BY <1>1, <1>2, <1>3, <1>4, <1>5, <1>6 DEF Deploy

(* What a step that fails has in common: the run is over, or torn down.     *)
LEMMA FailureFrame ==
    ASSUME StepFails \/ NothingThere \/ AuthFails
    PROVE  /\ pc' \in {"teardown", "over"} /\ (pc' = "over" => args.preflight)
           /\ forward' = FALSE /\ used' = (used \/ pc = "load")
           /\ KeepCluster
  BY DEF StepFails, NothingThere, AuthFails, Escape

(* The size of the pool and, before the load, of the deployments.           *)
LEMMA SizesKept ==
    ModeFollowsTheLine /\ SizesFollowTheRow /\ TypeOK /\ Next => SizesFollowTheRow'
  <1> SUFFICES ASSUME ModeFollowsTheLine, SizesFollowTheRow, TypeOK, Next
               PROVE  SizesFollowTheRow'
    OBVIOUS
  <1> USE DEF SizesFollowTheRow, Scaled, SizedLines, RunLines, DeployLines, StoreLines, LoadLines
  <1>1. CASE ClusterStep
    BY <1>1, ClusterFrame DEF script, Replicas
  <1>2. CASE Start
    <2>1. pc' = "verify" /\ counts' # <<>>
      BY <1>2, OptionsType DEF Start, Goto
    <2> QED
      BY <2>1
  <1>3. CASE Verify \/ EmptyPool \/ DeleteIngress \/ StopNodes \/ Exit
    BY <1>3 DEF Verify, EmptyPool, DeleteIngress, StopNodes, Exit, Goto, KeepPlan
  <1>4. CASE SizePool
    <2>1. /\ pc' = "deploy" /\ pc \in {"pool", "grow"} /\ pool' = Head(counts)
          /\ counts' = counts
      BY <1>4 DEF SizePool, Goto, Resize, KeepPlan
    <2> QED
      BY <2>1
  <1>5. CASE Deploy
    BY <1>5, DeployFrame
  <1>6. CASE DataReady \/ ScaleReplicas
    BY <1>6 DEF DataReady, ScaleReplicas, SetReplicas, Goto, KeepPlan, Replicas
  <1>7. CASE Restart \/ Rollout \/ OldPodsGone \/ Connect \/ BeginLoad
    <2>1. /\ pool' = pool /\ counts' = counts /\ want' = want /\ mode' = mode
          /\ pc \in SizedLines /\ pc' \in SizedLines /\ (Scaled' => Scaled)
      BY <1>7 DEF Restart, Rollout, OldPodsGone, Connect, BeginLoad, Goto, KeepPlan, AfterStores, pods
    <2> QED
      BY <2>1 DEF Replicas
  <1>8. CASE EndLoad
    <2>1. /\ pc = "load" /\ counts' = Tail(counts) /\ counts \in Seq(Nat \ {0})
          /\ \/ pc' = "pool" /\ Len(counts) > 1
             \/ pc' = "teardown"
      BY <1>8 DEF EndLoad, Goto, TypeOK
    <2> QED
      BY <2>1, CountsLemma
  <1>9. CASE Failure
    BY <1>9 DEF Failure, StepFails, NothingThere, AuthFails, TeardownFails, ManualReset, Escape
  <1> QED
    BY <1>1, <1>2, <1>3, <1>4, <1>5, <1>6, <1>7, <1>8, <1>9 DEF Next, ScriptStep, Measure

(* The pods that a load test counts. *)
LEMMA PodsKept ==
    ModeFollowsTheLine /\ PodsFollowTheRow /\ TypeOK /\ Next => PodsFollowTheRow'
  <1> SUFFICES ASSUME ModeFollowsTheLine, PodsFollowTheRow, TypeOK, Next
               PROVE  PodsFollowTheRow'
    OBVIOUS
  <1> USE DEF PodsFollowTheRow, Scaled, DeployLines, StoreLines, LoadLines
  <1>1. CASE ClusterStep
    <2>1. /\ pc' = pc /\ mode' = mode /\ replicas' = replicas
          /\ (Scaled' <=> Scaled)
      BY <1>1, ClusterFrame DEF script
    <2>2. ASSUME NEW s \in Stores, StoreUp(s) PROVE PodsFollowTheRow'
      BY <2>1, <2>2 DEF StoreUp, pods, RolledOut
    <2>3. ASSUME NEW s \in Stores, StoreDown(s) PROVE PodsFollowTheRow'
      BY <2>1, <2>3 DEF StoreDown, pods, RolledOut
    <2>4. CASE JobCompletes
      BY <2>1, <2>4 DEF JobCompletes, pods, RolledOut
    <2>5. ASSUME NEW a \in Apps, PodsReady(a) PROVE PodsFollowTheRow'
      <3>1. pc \notin LoadLines
        BY <2>5 DEF PodsReady, RolledOut
      <3>2. up' = up /\ ("api" \in ready' /\ cold' => ("api" \in ready /\ cold) \/ "postgres" \notin up)
        BY <2>5 DEF PodsReady
      <3> QED
        BY <2>1, <3>1, <3>2
    <2>6. ASSUME NEW a \in Apps, PodsRetire(a) PROVE PodsFollowTheRow'
      <3>1. pc \notin LoadLines /\ up' = up /\ ready' = ready /\ cold' = cold
        BY <2>6 DEF PodsRetire, RolledOut, stores
      <3> QED
        BY <2>1, <3>1
    <2>7. ASSUME NEW a \in Apps, PodsEnd(a) PROVE PodsFollowTheRow'
      <3>1. pc \notin LoadLines /\ up' = up /\ ready' = ready /\ cold' = cold
        BY <2>7 DEF PodsEnd, stores
      <3> QED
        BY <2>1, <3>1
    <2> QED
      BY <1>1, <2>2, <2>3, <2>4, <2>5, <2>6, <2>7 DEF ClusterStep
  <1>2. CASE Start \/ Verify \/ EmptyPool \/ SizePool \/ DeleteIngress \/ StopNodes \/ Exit
    BY <1>2 DEF Start, Verify, EmptyPool, SizePool, DeleteIngress, StopNodes, Exit, Goto
  <1>3. CASE Deploy
    BY <1>3, DeployFrame
  <1>4. CASE DataReady
    BY <1>4 DEF DataReady, Goto, KeepPlan, Awaited, Stores, stores, pods
  <1>5. CASE ScaleReplicas
    BY <1>5 DEF ScaleReplicas, Goto, stores
  <1>6. CASE Restart
    BY <1>6 DEF Restart, Goto, KeepPlan, stores
  <1>7. CASE Rollout
    <2>1. /\ pc = "rollout" /\ UNCHANGED <<up, replicas, ready, old, leaving, cold, mode>>
          /\ pc' \notin LoadLines \union {"restart", "rollout", "scale"}
          /\ pc' = "oldgone" => mode = "scale"
      BY <1>7 DEF Rollout, Goto, KeepPlan, stores, pods, AfterStores
    <2> QED
      BY <2>1
  <1>8. CASE OldPodsGone
    BY <1>8 DEF OldPodsGone, Goto, KeepPlan, Awaited, RolledOut, stores, pods
  <1>9. CASE Connect
    BY <1>9 DEF Connect, Goto, KeepPlan, RolledOut, stores, pods
  <1>10. CASE BeginLoad
    <2>1. /\ pc = "health" /\ pc' = "load" /\ UNCHANGED <<up, replicas, ready, old, leaving, cold>>
      BY <1>10 DEF BeginLoad, Goto, stores, pods
    <2>2. "api" \in ready /\ "postgres" \in up
      BY <1>10, <2>1 DEF BeginLoad, Awaited, Healthy, Stores
    <2> QED
      BY <2>1, <2>2 DEF RolledOut
  <1>11. CASE EndLoad
    BY <1>11 DEF EndLoad, Goto
  <1>12. CASE Failure
    <2>1. pc' \in {"teardown", "over", "idle"}
      BY <1>12, FailureFrame DEF Failure, TeardownFails, ManualReset
    <2> QED
      BY <2>1
  <1> QED
    BY <1>1, <1>2, <1>3, <1>4, <1>5, <1>6, <1>7, <1>8, <1>9, <1>10, <1>11, <1>12
       DEF Next, ScriptStep, Measure

(* A fresh Postgres. *)
LEMMA FreshKept ==
    ModeFollowsTheLine /\ FreshFollowsTheLine /\ TypeOK /\ Next => FreshFollowsTheLine'
  <1> SUFFICES ASSUME ModeFollowsTheLine, FreshFollowsTheLine, TypeOK, Next
               PROVE  FreshFollowsTheLine'
    OBVIOUS
  <1> USE DEF FreshFollowsTheLine, SizedLines, DeployLines, StoreLines, LoadLines
  <1>1. CASE ClusterStep
    BY <1>1, ClusterFrame DEF script
  <1>2. CASE Start \/ Verify \/ EmptyPool \/ SizePool \/ DeleteIngress \/ StopNodes \/ Exit
    BY <1>2 DEF Start, Verify, EmptyPool, SizePool, DeleteIngress, StopNodes, Exit, Goto
  <1>3. CASE EnsureDeploy
    BY <1>3 DEF EnsureDeploy, KeepRun
  <1>4. CASE DeleteClaim
    <2>1. /\ pc = "claim" /\ pc' = "apply" /\ args' = args
          /\ mode = "force" => used' = FALSE
          /\ used' = used \/ used' = FALSE
      BY <1>4 DEF DeleteClaim, DropVolume, Goto, KeepRun, ModeFollowsTheLine
    <2> QED
      BY <2>1 DEF TypeOK
  <1>5. CASE ScaleToZero \/ PodGone
    BY <1>5 DEF ScaleToZero, PodGone, Goto, KeepPlan, KeepRun, stores
  <1>6. CASE CheckStore
    <2>1. pc = "stores" /\ args' = args /\ used' = used
      BY <1>6 DEF CheckStore, KeepRun, stores
    <2> QED
      BY <2>1
  <1>7. CASE /\ ApplyStores \/ ReapplyStore \/ PostgresReady \/ EnsureMigration
                \/ MigrationDone \/ StoresReady \/ ApplyApps
    <2>1. /\ args' = args /\ used' = used /\ pc \in DeployLines \ {"scale0", "gone", "claim"}
      BY <1>7 DEF ApplyStores, ReapplyStore, PostgresReady, EnsureMigration, MigrationDone,
         StoresReady, ApplyApps, Goto, KeepRun, stores
    <2> QED
      BY <2>1
  <1>8. CASE Measure
    <2>1. CASE EndLoad
      BY <2>1 DEF EndLoad, Goto
    <2>2. CASE ~EndLoad
      <3>1. args' = args /\ used' = used /\ pc \in SizedLines \ {"deploy", "scale0", "gone", "claim"}
        BY <1>8, <2>2 DEF Measure, DataReady, ScaleReplicas, Restart, Rollout, OldPodsGone,
           Connect, BeginLoad, Goto, KeepRun, stores
      <3> QED
        BY <3>1
    <2> QED
      BY <2>1, <2>2
  <1>9. CASE Failure
    <2>1. pc' \in {"teardown", "over", "idle"}
      BY <1>9, FailureFrame DEF Failure, TeardownFails, ManualReset
    <2> QED
      BY <2>1
  <1> QED
    BY <1>1, <1>2, <1>3, <1>4, <1>5, <1>6, <1>7, <1>8, <1>9 DEF Next, ScriptStep, Deploy

(* What the finally clauses end. *)
LEMMA TeardownKept ==
    TeardownSeesAll /\ NothingKeepsRunning /\ ModeFollowsTheLine /\ TypeOK /\ Next
       => TeardownSeesAll' /\ NothingKeepsRunning'
  <1> SUFFICES ASSUME TeardownSeesAll, NothingKeepsRunning, ModeFollowsTheLine, TypeOK, Next
               PROVE  TeardownSeesAll' /\ NothingKeepsRunning'
    OBVIOUS
  <1> USE DEF TeardownSeesAll, NothingKeepsRunning
  <1>1. CASE ClusterStep
    BY <1>1, ClusterFrame DEF script, access
  <1>2. CASE Start \/ Verify
    BY <1>2 DEF Start, Verify, Goto, KeepRun, access
  <1>3. CASE EmptyPool \/ SizePool
    BY <1>3 DEF EmptyPool, SizePool, Goto, access
  <1>4. CASE Deploy
    BY <1>4, DeployFrame DEF DeployLines, StoreLines, access
  <1>5. CASE Measure
    <2>1. CASE Connect
      BY <2>1 DEF Connect, Goto
    <2>2. CASE DataReady \/ ScaleReplicas \/ Restart \/ Rollout \/ OldPodsGone \/ BeginLoad
      BY <2>2 DEF DataReady, ScaleReplicas, Restart, Rollout, OldPodsGone, BeginLoad, Goto,
         access, AfterStores
    <2>3. CASE EndLoad
      BY <2>3 DEF EndLoad, Goto
    <2> QED
      BY <1>5, <2>1, <2>2, <2>3 DEF Measure
  <1>6. CASE DeleteIngress \/ StopNodes \/ Exit
    <2>1. CASE DeleteIngress
      BY <2>1 DEF DeleteIngress, Goto, KeepRun, TypeOK
    <2>2. CASE StopNodes
      BY <2>2 DEF StopNodes, Goto, Resize, access
    <2>3. CASE Exit
      BY <2>3 DEF Exit, Goto, access
    <2> QED
      BY <1>6, <2>1, <2>2, <2>3
  <1>7. CASE Failure
    <2>1. CASE StepFails \/ NothingThere \/ AuthFails
      <3>1. args' = args
        BY <2>1, FailureFrame DEF KeepCluster
      <3> QED
        BY <2>1, <3>1, FailureFrame
    <2>2. CASE TeardownFails \/ ManualReset
      BY <2>2 DEF TeardownFails, ManualReset, access
    <2> QED
      BY <1>7, <2>1, <2>2 DEF Failure
  <1> QED
    BY <1>1, <1>2, <1>3, <1>4, <1>5, <1>6, <1>7 DEF Next, ScriptStep

-----------------------------------------------------------------------------
(* Types. *)

LEMMA ResizeType ==
    ASSUME TypeOK, NEW n \in Nat, Resize(n)
    PROVE  /\ pool' \in Nat /\ up' \subseteq Stores /\ claim' \in [Stores -> {"none", "home", "lost"}]
           /\ ready' \subseteq Apps /\ old' \subseteq Apps /\ leaving' \subseteq Apps
           /\ UNCHANGED <<replicas, data, used, job, want, cold>>
  BY DEF TypeOK, Resize

LEMMA SetReplicasType ==
    ASSUME TypeOK, NEW new \in [Apps -> Nat], SetReplicas(new)
    PROVE  want' \in [Apps -> Nat] /\ ready' \subseteq Apps /\ leaving' \subseteq Apps
  BY DEF TypeOK, SetReplicas

LEMMA ReplicasType ==
    ASSUME NEW n \in Nat \ {0}
    PROVE  Replicas(n) \in [Apps -> Nat] /\ ManifestReplicas \in [Apps -> Nat]
  BY DEF Replicas, ManifestReplicas, dispatcher_replicas

(* The parts of TypeOK that steps leave alone together. *)
RunType ==
    /\ args \in Options /\ runs \in 0 .. MaxRuns /\ faults \in 0 .. MaxFaults
    /\ advised \in BOOLEAN /\ torn \in BOOLEAN
PlanType ==
    /\ counts \in Seq(Nat \ {0}) /\ store \in Stores
    /\ mode \in {"force", "ensure", "deploy", "scale"} /\ reset_postgres \in BOOLEAN
StoreType ==
    /\ replicas \in [Stores -> -1 .. 1] /\ up \subseteq Stores
    /\ claim \in [Stores -> {"none", "home", "lost"}]
    /\ data \in {"empty", "schema", "seeded"} /\ used \in BOOLEAN
    /\ job \in {"none", "running", "done"}
PodType ==
    /\ want \in [Apps -> Nat] /\ ready \subseteq Apps /\ old \subseteq Apps
    /\ leaving \subseteq Apps /\ cold \in BOOLEAN
AccessType == ingress \in BOOLEAN /\ forward \in BOOLEAN
Lines == Steps \union {"idle", "over"}

LEMMA TypeParts ==
    TypeOK <=> /\ pc \in Lines /\ RunType /\ PlanType /\ pool \in Nat
               /\ StoreType /\ PodType /\ AccessType
  BY DEF TypeOK, RunType, PlanType, StoreType, PodType, AccessType, Lines

LEMMA TypePartsNext ==
    (/\ pc' \in Lines /\ RunType' /\ PlanType' /\ pool' \in Nat
     /\ StoreType' /\ PodType' /\ AccessType') => TypeOK'
  BY DEF TypeOK, RunType, PlanType, StoreType, PodType, AccessType, Lines

LEMMA PartsKept ==
    ASSUME TypeOK
    PROVE  /\ KeepRun => RunType'
           /\ KeepPlan => PlanType'
           /\ UNCHANGED stores => StoreType'
           /\ UNCHANGED pods => PodType'
           /\ UNCHANGED access => AccessType'
           /\ UNCHANGED pool => pool' \in Nat
           /\ UNCHANGED script => pc' \in Lines /\ RunType' /\ PlanType'
  <1>1. pc \in Lines /\ RunType /\ PlanType /\ pool \in Nat /\ StoreType /\ PodType /\ AccessType
    BY TypeParts
  <1>2. /\ KeepRun => RunType'
        /\ KeepPlan => PlanType'
        /\ UNCHANGED script => pc' \in Lines /\ RunType' /\ PlanType'
    BY <1>1 DEF KeepRun, KeepPlan, script, RunType, PlanType
  <1>3. /\ UNCHANGED stores => StoreType'
        /\ UNCHANGED pods => PodType'
        /\ UNCHANGED access => AccessType'
    BY <1>1 DEF stores, pods, access, StoreType, PodType, AccessType
  <1> QED
    BY <1>1, <1>2, <1>3

(* Every line that a step names is a line of the script. *)
LEMMA LinesLemma ==
    /\ SizedLines \subseteq Lines /\ RunLines \subseteq Lines
    /\ {"teardown", "resize", "over", "idle"} \subseteq Lines
  BY DEF Lines, Steps, SizedLines, RunLines, DeployLines, StoreLines, LoadLines

LEMMA ClusterTypeKept ==
    ASSUME TypeOK, ClusterStep
    PROVE  TypeOK'
  <1>1. /\ pc' \in Lines /\ RunType' /\ PlanType' /\ pool' \in Nat /\ AccessType'
    BY PartsKept, ClusterFrame
  <1>2. StoreType' /\ PodType'
    <2> USE TypeParts DEF StoreType, PodType
    <2>1. ASSUME NEW s \in Stores, StoreUp(s) PROVE StoreType' /\ PodType'
      BY <2>1 DEF StoreUp, pods
    <2>2. ASSUME NEW s \in Stores, StoreDown(s) PROVE StoreType' /\ PodType'
      BY <2>2 DEF StoreDown, pods
    <2>3. CASE JobCompletes
      BY <2>3 DEF JobCompletes, pods
    <2>4. ASSUME NEW a \in Apps, PodsReady(a) PROVE StoreType' /\ PodType'
      <3>1. /\ ready' = ready \union {a} /\ cold' \in BOOLEAN
            /\ data' \in {"empty", "schema", "seeded"}
        BY <2>4 DEF PodsReady
      <3> QED
        BY <2>4, <3>1 DEF PodsReady
    <2>5. ASSUME NEW a \in Apps, PodsRetire(a) \/ PodsEnd(a) PROVE StoreType' /\ PodType'
      BY <2>5 DEF PodsRetire, PodsEnd, stores
    <2> QED
      BY <1>1, <2>1, <2>2, <2>3, <2>4, <2>5 DEF ClusterStep
  <1> QED
    BY <1>1, <1>2, TypePartsNext

LEMMA DeployTypeKept ==
    ASSUME TypeOK, ModeFollowsTheLine, Deploy
    PROVE  TypeOK'
  <1>1. pc' \in Lines /\ pool' \in Nat /\ AccessType'
    <2>1. pc' \in SizedLines
      BY DeployFrame DEF SizedLines, DeployLines
    <2> QED
      BY <2>1, DeployFrame, PartsKept, LinesLemma DEF access
  <1>2. RunType'
    BY PartsKept DEF Deploy, EnsureDeploy, ApplyStores, CheckStore, ScaleToZero, PodGone,
       DeleteClaim, ReapplyStore, PostgresReady, EnsureMigration, MigrationDone, StoresReady, ApplyApps
  <1>3. PlanType'
    <2>1. CASE EnsureDeploy \/ ApplyStores \/ StoresReady
      BY <2>1, TypeParts DEF EnsureDeploy, ApplyStores, StoresReady, PlanType, Stores
    <2>2. CASE CheckStore
      BY <2>2, TypeParts DEF CheckStore, PlanType, Stores
    <2>3. CASE ReapplyStore
      BY <2>3, TypeParts DEF ReapplyStore, PlanType, Stores
    <2>4. CASE KeepPlan
      BY <2>4, PartsKept
    <2> QED
      BY <2>1, <2>2, <2>3, <2>4 DEF Deploy, ScaleToZero, PodGone, DeleteClaim, PostgresReady,
         EnsureMigration, MigrationDone, ApplyApps
  <1>4. StoreType'
    <2> USE TypeParts DEF StoreType
    <2>1. CASE UNCHANGED stores
      BY <2>1, PartsKept
    <2>2. CASE ApplyStores \/ ScaleToZero \/ ReapplyStore
      BY <2>2 DEF ApplyStores, ScaleToZero, ReapplyStore
    <2>3. CASE DeleteClaim
      BY <2>3 DEF DeleteClaim, DropVolume
    <2>4. CASE EnsureMigration
      BY <2>4 DEF EnsureMigration
    <2> QED
      BY <2>1, <2>2, <2>3, <2>4 DEF Deploy, EnsureDeploy, CheckStore, PodGone, PostgresReady,
         MigrationDone, StoresReady, ApplyApps
  <1>5. PodType'
    <2>1. CASE UNCHANGED pods
      BY <2>1, PartsKept
    <2>2. CASE ApplyApps
      <3>1. ManifestReplicas \in [Apps -> Nat] /\ SetReplicas(ManifestReplicas)
        BY <2>2 DEF ApplyApps, ManifestReplicas
      <3> QED
        BY <2>2, <3>1, SetReplicasType, TypeParts DEF ApplyApps, PodType
    <2> QED
      BY <2>1, <2>2 DEF Deploy, EnsureDeploy, ApplyStores, CheckStore, ScaleToZero, PodGone,
         DeleteClaim, ReapplyStore, PostgresReady, EnsureMigration, MigrationDone, StoresReady
  <1> QED
    BY <1>1, <1>2, <1>3, <1>4, <1>5, TypePartsNext

LEMMA MeasureTypeKept ==
    ASSUME TypeOK, SizesFollowTheRow, Measure
    PROVE  TypeOK'
  <1>1. pc' \in Lines
    <2>1. pc' \in RunLines \union {"teardown"}
      BY DEF Measure, DataReady, ScaleReplicas, Restart, Rollout, OldPodsGone, Connect,
         BeginLoad, EndLoad, Goto, AfterStores, RunLines, SizedLines, DeployLines, LoadLines
    <2> QED
      BY <2>1, LinesLemma
  <1>2. RunType' /\ pool' \in Nat
    BY PartsKept DEF Measure, DataReady, ScaleReplicas, Restart, Rollout, OldPodsGone, Connect,
       BeginLoad, EndLoad
  <1>3. PlanType'
    <2>1. CASE ScaleReplicas
      BY <2>1, TypeParts DEF ScaleReplicas, PlanType
    <2>2. CASE EndLoad
      <3>1. counts' \in Seq(Nat \ {0})
        BY <2>2, CountsLemma
           DEF EndLoad, Goto, SizesFollowTheRow, RunLines, SizedLines, LoadLines, TypeOK
      <3> QED
        BY <2>2, <3>1, TypeParts DEF EndLoad, PlanType
    <2>3. CASE KeepPlan
      BY <2>3, PartsKept
    <2> QED
      BY <2>1, <2>2, <2>3 DEF Measure, DataReady, Restart, Rollout, OldPodsGone, Connect, BeginLoad
  <1>4. StoreType' /\ AccessType'
    <2>1. CASE EndLoad
      BY <2>1, TypeParts DEF EndLoad, StoreType, AccessType
    <2>2. CASE Connect
      BY <2>2, TypeParts, PartsKept DEF Connect, AccessType
    <2>3. CASE UNCHANGED <<stores, access>>
      BY <2>3, PartsKept
    <2> QED
      BY <2>1, <2>2, <2>3 DEF Measure, DataReady, ScaleReplicas, Restart, Rollout, OldPodsGone, BeginLoad
  <1>5. PodType'
    <2>1. CASE ScaleReplicas
      <3>1. pc = "scale" /\ SetReplicas(Replicas(Head(counts)))
        BY <2>1 DEF ScaleReplicas, Goto
      <3>2. Replicas(Head(counts)) \in [Apps -> Nat]
        BY <3>1, CountsLemma, ReplicasType DEF SizesFollowTheRow, RunLines, SizedLines, TypeOK
      <3> QED
        BY <2>1, <3>1, <3>2, SetReplicasType, TypeParts DEF ScaleReplicas, PodType
    <2>2. CASE Restart
      BY <2>2, TypeParts DEF Restart, PodType
    <2>3. CASE UNCHANGED pods
      BY <2>3, PartsKept
    <2> QED
      BY <2>1, <2>2, <2>3 DEF Measure, DataReady, Rollout, OldPodsGone, Connect, BeginLoad, EndLoad
  <1> QED
    BY <1>1, <1>2, <1>3, <1>4, <1>5, TypePartsNext

LEMMA PoolTypeKept ==
    ASSUME TypeOK, SizesFollowTheRow, EmptyPool \/ SizePool \/ StopNodes
    PROVE  TypeOK'
  <1>1. pc' \in Lines /\ RunType' /\ PlanType' /\ AccessType'
    <2>1. pc' \in {"grow", "deploy", "over"}
      BY DEF EmptyPool, SizePool, StopNodes, Goto
    <2>2. pc' \in Lines
      BY <2>1, LinesLemma DEF RunLines, SizedLines
    <2> QED
      BY <2>2, PartsKept DEF EmptyPool, SizePool, StopNodes
  <1>2. \E n \in Nat : Resize(n)
    <2>1. CASE EmptyPool \/ StopNodes
      BY <2>1 DEF EmptyPool, StopNodes
    <2>2. CASE SizePool
      <3>1. Resize(Head(counts)) /\ pc \in {"pool", "grow"}
        BY <2>2 DEF SizePool, Goto
      <3>2. Head(counts) \in Nat
        BY <3>1, CountsLemma DEF SizesFollowTheRow, RunLines, TypeOK
      <3> QED
        BY <3>1, <3>2
    <2> QED
      BY <2>1, <2>2
  <1>3. pool' \in Nat /\ StoreType' /\ PodType'
    BY <1>2, ResizeType, TypeParts DEF StoreType, PodType
  <1> QED
    BY <1>1, <1>3, TypePartsNext

LEMMA RestTypeKept ==
    ASSUME TypeOK, Start \/ Verify \/ DeleteIngress \/ Exit
    PROVE  TypeOK'
  <1>1. pc' \in Lines /\ pool' \in Nat /\ StoreType' /\ PodType'
    <2>1. pc' \in {"verify", "over", "pool", "resize", "idle"}
      BY DEF Start, Verify, DeleteIngress, Exit, Goto
    <2>2. pc' \in Lines
      BY <2>1, LinesLemma DEF RunLines
    <2> QED
      BY <2>2, PartsKept DEF Start, Verify, DeleteIngress, Exit
  <1>2. CASE Start
    <2>1. PICK a \in Options : args' = a /\ counts' = a.counts
      BY <1>2 DEF Start
    <2>2. counts' \in Seq(Nat \ {0}) /\ runs' \in 0 .. MaxRuns
      BY <1>2, <2>1, OptionsType, BoundsAssumption DEF Start, TypeOK
    <2>3. RunType'
      BY <1>2, <2>1, <2>2, TypeParts DEF Start, RunType
    <2>4. PlanType' /\ AccessType'
      BY <1>2, <2>2, TypeParts, PartsKept DEF Start, PlanType
    <2> QED
      BY <1>1, <2>3, <2>4, TypePartsNext
  <1>3. CASE Verify \/ DeleteIngress
    <2>1. AccessType'
      BY <1>3, TypeParts, PartsKept, OptionsType DEF Verify, DeleteIngress, AccessType, RunType
    <2>2. RunType' /\ PlanType'
      BY <1>3, PartsKept DEF Verify, DeleteIngress
    <2> QED
      BY <1>1, <2>1, <2>2, TypePartsNext
  <1>4. CASE Exit
    <2>1. counts' \in Seq(Nat \ {0})
      BY <1>4 DEF Exit
    <2>2. RunType' /\ AccessType'
      BY <1>4, PartsKept DEF Exit
    <2>3. PlanType'
      BY <1>4, <2>1, TypeParts DEF Exit, PlanType
    <2> QED
      BY <1>1, <2>2, <2>3, TypePartsNext
  <1> QED
    BY <1>2, <1>3, <1>4

LEMMA FailureTypeKept ==
    ASSUME TypeOK, Failure
    PROVE  TypeOK'
  <1>1. CASE StepFails \/ NothingThere \/ AuthFails
    <2>1. /\ pc' \in Lines /\ forward' \in BOOLEAN /\ used' \in BOOLEAN
          /\ KeepCluster
      BY <1>1, FailureFrame, LinesLemma DEF TypeOK
    <2>2. /\ faults' \in 0 .. MaxFaults /\ advised' \in BOOLEAN /\ torn' \in BOOLEAN
          /\ ingress' \in BOOLEAN
      <3>1. faults' = faults \/ (faults < MaxFaults /\ faults' = faults + 1)
        BY <1>1 DEF StepFails, NothingThere, AuthFails
      <3>2. /\ advised' \in {advised, TRUE} /\ torn' = torn /\ ingress' \in {ingress, TRUE}
        BY <1>1 DEF StepFails, NothingThere, AuthFails
      <3>3. faults' \in 0 .. MaxFaults
        BY <3>1, BoundsAssumption DEF TypeOK
      <3>4. advised' \in BOOLEAN /\ torn' \in BOOLEAN /\ ingress' \in BOOLEAN
        BY <3>2, TypeParts DEF RunType, AccessType
      <3> QED
        BY <3>3, <3>4
    <2>3. RunType' /\ PlanType'
      BY <2>1, <2>2, TypeParts DEF KeepCluster, RunType, PlanType
    <2>4. StoreType' /\ PodType' /\ AccessType' /\ pool' \in Nat
      BY <2>1, <2>2, TypeParts, PartsKept DEF KeepCluster, StoreType, AccessType
    <2> QED
      BY <2>1, <2>3, <2>4, TypePartsNext
  <1>2. CASE TeardownFails
    <2>1. pc' \in Lines /\ PlanType' /\ pool' \in Nat /\ StoreType' /\ PodType' /\ AccessType'
      BY <1>2, PartsKept, LinesLemma DEF TeardownFails, KeepPlan
    <2>2. RunType'
      BY <1>2, TypeParts, BoundsAssumption DEF TeardownFails, RunType
    <2> QED
      BY <2>1, <2>2, TypePartsNext
  <1>3. CASE ManualReset
    <2>1. pc' \in Lines /\ PlanType' /\ pool' \in Nat /\ PodType' /\ AccessType'
      BY <1>3, TypeParts, PartsKept DEF ManualReset, KeepPlan
    <2>2. RunType'
      BY <1>3, TypeParts DEF ManualReset, RunType
    <2>3. StoreType'
      <3>1. /\ replicas' = [replicas EXCEPT !["postgres"] = 0] /\ up' = up \ {"postgres"}
            /\ claim' = [claim EXCEPT !["postgres"] = "none"]
            /\ data' = "empty" /\ used' = FALSE /\ (job' = "none" \/ job' = job)
        BY <1>3 DEF ManualReset, DropVolume
      <3>2. /\ replicas' \in [Stores -> -1 .. 1] /\ up' \subseteq Stores
            /\ claim' \in [Stores -> {"none", "home", "lost"}]
        <4>1. StoreType
          BY TypeParts
        <4>2. replicas' \in [Stores -> -1 .. 1]
          <5>1. 0 \in -1 .. 1 /\ "postgres" \in Stores
            BY DEF Stores
          <5>2. replicas \in [Stores -> -1 .. 1]
            BY <4>1 DEF StoreType
          <5> QED
            BY <3>1, <5>1, <5>2
        <4>3. claim' \in [Stores -> {"none", "home", "lost"}]
          BY <3>1, <4>1 DEF StoreType
        <4> QED
          BY <3>1, <4>1, <4>2, <4>3 DEF StoreType
      <3> QED
        BY <3>1, <3>2, TypeParts DEF StoreType
    <2> QED
      BY <2>1, <2>2, <2>3, TypePartsNext
  <1> QED
    BY <1>1, <1>2, <1>3 DEF Failure

LEMMA TypeKept ==
    ASSUME TypeOK, SizesFollowTheRow, ModeFollowsTheLine, Next
    PROVE  TypeOK'
  BY ClusterTypeKept, DeployTypeKept, MeasureTypeKept, PoolTypeKept, RestTypeKept, FailureTypeKept
     DEF Next, ScriptStep

-----------------------------------------------------------------------------
(* IInv is inductive. *)

LEMMA InitInv == Init => IInv
  <1> SUFFICES ASSUME Init PROVE IInv
    OBVIOUS
  <1> USE DEF Init
  <1>1. TypeOK
    <2>1. counts \in Seq(Nat \ {0})
      OBVIOUS
    <2>2. /\ runs \in 0 .. MaxRuns /\ faults \in 0 .. MaxFaults
          /\ replicas \in [Stores -> -1 .. 1] /\ want \in [Apps -> Nat] /\ pool \in Nat
      BY BoundsAssumption
    <2> QED
      BY <2>1, <2>2 DEF TypeOK, Stores
  <1>2. ModeFollowsTheLine /\ SizesFollowTheRow /\ PodsFollowTheRow
    BY DEF ModeFollowsTheLine, SizesFollowTheRow, PodsFollowTheRow, Scaled, RunLines, SizedLines,
       DeployLines, StoreLines, LoadLines
  <1>3. FreshFollowsTheLine /\ TeardownSeesAll /\ NothingKeepsRunning
    BY DEF FreshFollowsTheLine, TeardownSeesAll, NothingKeepsRunning, SizedLines, DeployLines,
       StoreLines, LoadLines
  <1> QED
    BY <1>1, <1>2, <1>3 DEF IInv

LEMMA NextInv == IInv /\ [Next]_vars => IInv'
  <1> SUFFICES ASSUME IInv, [Next]_vars PROVE IInv'
    OBVIOUS
  <1>1. CASE Next
    BY <1>1, TypeKept, ModeKept, SizesKept, PodsKept, FreshKept, TeardownKept DEF IInv
  <1>2. CASE UNCHANGED vars
    <2> USE <1>2 DEF vars, script, stores, pods, access
    <2>1. TypeOK' /\ ModeFollowsTheLine'
      BY DEF IInv, TypeOK, ModeFollowsTheLine
    <2>2. SizesFollowTheRow' /\ FreshFollowsTheLine'
      BY DEF IInv, SizesFollowTheRow, Scaled, Replicas, FreshFollowsTheLine
    <2>3. PodsFollowTheRow' /\ TeardownSeesAll' /\ NothingKeepsRunning'
      BY DEF IInv, PodsFollowTheRow, Scaled, RolledOut, TeardownSeesAll, NothingKeepsRunning
    <2> QED
      BY <2>1, <2>2, <2>3 DEF IInv
  <1> QED
    BY <1>1, <1>2

-----------------------------------------------------------------------------
(* The theorems. *)

(* IInv is an invariant of the script and its cluster. *)
THEOREM Invariance == Spec => []IInv
  BY InitInv, NextInv, PTL DEF Spec

(* Every variable always holds a value of its type. *)
THEOREM TypeCorrect == Spec => []TypeOK
  <1>1. IInv => TypeOK
    BY DEF IInv
  <1> QED
    BY <1>1, Invariance, PTL

(* The pods a load test counts are all there are (scale_replicas,           *)
(* run_benchmark): new, of the row's scale, and with a database; whatever   *)
(* failed before and however often the script was run.                      *)
THEOREM LoadsAreOnNewPods == Spec => []LoadIsOnNewPods
  <1>1. IInv => LoadIsOnNewPods
    BY DEF IInv, LoadIsOnNewPods, SizesFollowTheRow, PodsFollowTheRow, Scaled, SizedLines, LoadLines
  <1> QED
    BY <1>1, Invariance, PTL

(* A row marked fresh was measured on a database without earlier tickets    *)
(* (force_reset_postgres before every row).                                 *)
THEOREM FreshRowsAreFresh == Spec => []FreshIsEmpty
  <1>1. IInv => FreshIsEmpty
    BY DEF IInv, FreshIsEmpty, FreshFollowsTheLine, SizedLines, LoadLines
  <1> QED
    BY <1>1, Invariance, PTL

(* A script that is over left nothing running (execute, its finally         *)
(* clauses), at whatever step it failed.                                    *)
THEOREM NothingIsLeftRunning == Spec => []NothingKeepsRunning
  <1>1. IInv => NothingKeepsRunning
    BY DEF IInv
  <1> QED
    BY <1>1, Invariance, PTL

-----------------------------------------------------------------------------
(* Resets that are always completed.                                        *)

LEMMA SeedInit == Init => SeedInv
  BY DEF Init, SeedInv, Resetting, LoadLines, StoreLines

LEMMA SeedCluster ==
    ASSUME TypeOK, SeedInv, ClusterStep
    PROVE  SeedInv'
  <1>1. /\ UNCHANGED <<pc, mode, store, reset_postgres, advised, replicas, want>>
        /\ (Resetting' <=> Resetting)
    BY ClusterFrame DEF script, Resetting
  <1>2. /\ data' = data \/ data' = "seeded" \/ (data # "seeded" /\ data' = "schema")
        /\ job' = job \/ data' = "seeded"
        /\ \A s \in Stores : claim'[s] # "none" => claim[s] # "none" \/ replicas[s] >= 0
    <2>1. ASSUME NEW s \in Stores, StoreUp(s)
          PROVE  /\ data' = data /\ job' = job
                 /\ \A x \in Stores : claim'[x] # "none" => claim[x] # "none" \/ replicas[x] >= 0
      BY <2>1 DEF StoreUp, TypeOK
    <2>2. ASSUME NEW s \in Stores, StoreDown(s) PROVE UNCHANGED <<data, job, claim>>
      BY <2>2 DEF StoreDown
    <2>3. CASE JobCompletes
      BY <2>3 DEF JobCompletes
    <2>4. ASSUME NEW a \in Apps, PodsReady(a) \/ PodsRetire(a) \/ PodsEnd(a)
          PROVE  /\ job' = job /\ claim' = claim
                 /\ data' = data \/ (data # "seeded" /\ data' = "schema")
      BY <2>4 DEF PodsReady, PodsRetire, PodsEnd, stores
    <2> QED
      BY <2>1, <2>2, <2>3, <2>4 DEF ClusterStep
  <1> QED
    BY <1>1, <1>2 DEF SeedInv

LEMMA SeedDeploy ==
    ASSUME TypeOK, ModeFollowsTheLine, SeedInv, Deploy
    PROVE  SeedInv'
  <1> USE DEF SeedInv, Resetting, StoreLines, LoadLines
  <1>1. CASE EnsureDeploy
    BY <1>1 DEF EnsureDeploy, KeepRun, stores, pods
  <1>2. CASE ApplyStores
    BY <1>2 DEF ApplyStores, Goto, KeepRun, pods
  <1>3. CASE CheckStore
    <2>1. /\ pc = "stores" /\ UNCHANGED <<mode, reset_postgres, advised, want, job, data, claim, replicas>>
          /\ \/ NeedsReset(store) /\ pc' = "scale0" /\ store' = store
             \/ pc' = "stores" /\ store' = "redis"
             \/ pc' = "pgready" /\ reset_postgres /\ store' = "redis"
             \/ pc' \in {"data", "ready"} /\ ~reset_postgres /\ store' = "redis"
      BY <1>3 DEF CheckStore, AfterStore, AfterStores, KeepRun, stores, pods
    <2> QED
      BY <2>1 DEF NeedsReset, TypeOK
  <1>4. CASE ScaleToZero
    <2>1. /\ pc = "scale0" /\ pc' = "gone"
          /\ UNCHANGED <<store, mode, reset_postgres, advised, want, job, data, claim>>
          /\ replicas' = [replicas EXCEPT ![store] = 0]
      BY <1>4 DEF ScaleToZero, Goto, KeepRun, KeepPlan, pods
    <2>2. \A s \in Stores : replicas[s] >= 0 => replicas'[s] >= 0
      BY <2>1 DEF TypeOK
    <2> QED
      BY <2>1, <2>2
  <1>5. CASE PodGone
    BY <1>5 DEF PodGone, Goto, KeepRun, KeepPlan, stores, pods
  <1>6. CASE DeleteClaim
    <2>1. /\ pc = "claim" /\ pc' = "apply"
          /\ UNCHANGED <<store, mode, reset_postgres, advised, want, job, replicas>>
          /\ claim' = [claim EXCEPT ![store] = "none"]
          /\ store # "postgres" => data' = data
      BY <1>6 DEF DeleteClaim, DropVolume, Goto, KeepRun, KeepPlan, pods
    <2>2. \A s \in Stores : claim'[s] # "none" => claim[s] # "none"
      BY <2>1 DEF TypeOK
    <2> QED
      BY <2>1, <2>2
  <1>7. CASE ReapplyStore
    <2>1. /\ pc = "apply" /\ UNCHANGED <<mode, advised, want, job, data, claim>>
          /\ replicas' = [replicas EXCEPT ![store] = 1]
          /\ \/ mode = "force" /\ pc' = "pgready" /\ UNCHANGED <<store, reset_postgres>>
             \/ /\ reset_postgres' = (reset_postgres \/ store = "postgres")
                /\ pc' \in {"stores", "pgready", "data", "ready"}
                /\ reset_postgres' => pc' \in {"stores", "pgready"}
      BY <1>7 DEF ReapplyStore, AfterStore, AfterStores, KeepRun, pods
    <2>2. \A s \in Stores : replicas[s] >= 0 => replicas'[s] >= 0
      BY <2>1 DEF TypeOK
    <2> QED
      BY <2>1, <2>2
  <1>8. CASE PostgresReady \/ EnsureMigration
    BY <1>8 DEF PostgresReady, EnsureMigration, Goto, KeepRun, KeepPlan, stores, pods
  <1>9. CASE MigrationDone \/ StoresReady
    BY <1>9 DEF MigrationDone, StoresReady, Goto, KeepRun, KeepPlan, Awaited, Migrated, stores, pods
  <1>10. CASE ApplyApps
    BY <1>10 DEF ApplyApps, Goto, KeepRun, KeepPlan, stores
  <1> QED
    BY <1>1, <1>2, <1>3, <1>4, <1>5, <1>6, <1>7, <1>8, <1>9, <1>10 DEF Deploy

LEMMA SeedMeasure ==
    ASSUME TypeOK, SeedInv, Measure
    PROVE  SeedInv'
  <1> USE DEF SeedInv, Resetting, StoreLines, LoadLines
  <1>1. /\ UNCHANGED <<advised, data, job, claim, replicas>>
    BY DEF Measure, DataReady, ScaleReplicas, Restart, Rollout, OldPodsGone, Connect, BeginLoad,
       EndLoad, KeepRun, stores
  <1>2. CASE DataReady
    BY <1>1, <1>2 DEF DataReady, Goto, pods
  <1>3. CASE ScaleReplicas
    <2>1. pc = "scale" /\ pc' = "restart" /\ want["api"] > 0 /\ "api" \in Apps
      BY <1>3 DEF ScaleReplicas, Goto, Awaited, Deployed, Apps
    <2> QED
      BY <1>1, <2>1
  <1>4. CASE Restart \/ Rollout \/ OldPodsGone \/ Connect \/ BeginLoad \/ EndLoad
    <2>1. /\ pc \in {"restart", "rollout", "oldgone"} \union LoadLines
          /\ pc' \notin {"scale0"}
      BY <1>4 DEF Restart, Rollout, OldPodsGone, Connect, BeginLoad, EndLoad, Goto, AfterStores
    <2> QED
      BY <1>1, <2>1
  <1> QED
    BY <1>2, <1>3, <1>4 DEF Measure

LEMMA SeedRest ==
    ASSUME TypeOK, SeedInv,
           Start \/ Verify \/ EmptyPool \/ SizePool \/ DeleteIngress \/ StopNodes \/ Exit
    PROVE  SeedInv'
  <1>1. /\ UNCHANGED <<data, job, want, replicas>> /\ ~advised'
        /\ pc \in {"idle", "verify", "pool", "grow", "teardown", "resize", "over"}
        /\ pc' \in {"idle", "verify", "pool", "grow", "deploy", "teardown", "resize", "over"}
    BY DEF SeedInv, Start, Verify, EmptyPool, SizePool, DeleteIngress, StopNodes, Exit, Goto,
       KeepRun, Resize, stores, pods
  <1>2. \A s \in Stores : claim'[s] # "none" => claim[s] # "none"
    BY DEF Start, Verify, EmptyPool, SizePool, DeleteIngress, StopNodes, Exit, Resize, stores
  <1> QED
    BY <1>1, <1>2 DEF SeedInv, Resetting, StoreLines, LoadLines

LEMMA SeedFailure ==
    ASSUME ResetsComplete, TypeOK, ModeFollowsTheLine, SeedInv, Failure
    PROVE  SeedInv'
  <1> USE DEF SeedInv, Resetting, StoreLines, LoadLines
  <1>1. CASE StepFails
    <2>1. /\ pc' \in {"teardown", "over"} /\ KeepCluster /\ advised' = advised
          /\ pc \notin StoreLines \union {"stores", "pgready", "migrate", "migrated"}
      BY <1>1, FailureFrame DEF StepFails, ResetsComplete
    <2> QED
      BY <2>1 DEF KeepCluster, pods
  <1>2. CASE NothingThere
    <2>1. /\ pc' \in {"teardown", "over"} /\ KeepCluster /\ advised' = advised
          /\ pc \in {"scale0", "restart", "scale"} /\ ~Awaited
      BY <1>2, FailureFrame DEF NothingThere
    <2>2. pc = "scale0" => mode = "force" /\ ~reset_postgres
      BY <2>1 DEF Awaited, ModeFollowsTheLine
    <2> QED
      BY <2>1, <2>2 DEF KeepCluster, pods
  <1>3. CASE AuthFails
    BY <1>3 DEF AuthFails, ResetsComplete
  <1>4. CASE TeardownFails
    BY <1>4 DEF TeardownFails, stores, pods
  <1>5. CASE ManualReset
    BY <1>5 DEF ManualReset
  <1> QED
    BY <1>1, <1>2, <1>3, <1>4, <1>5 DEF Failure

(* If no step between the loss of a volume and its migration fails, and     *)
(* nobody resets Postgres by hand, then every load test of every run has    *)
(* the tenants it names (ensure_stateful_stores, ensure_migration), though  *)
(* the migration job of an earlier volume still counts as done.             *)
THEOREM CompletedResetsAreSeeded == ResetsComplete => (Spec => []LoadIsSeeded)
  <1> SUFFICES ASSUME ResetsComplete PROVE Spec => []LoadIsSeeded
    OBVIOUS
  <1>1. ASSUME IInv, SeedInv, [Next]_vars PROVE SeedInv'
    <2>1. CASE Next
      BY <1>1, <2>1, SeedCluster, SeedDeploy, SeedMeasure, SeedRest, SeedFailure
         DEF Next, ScriptStep, IInv
    <2>2. CASE UNCHANGED vars
      BY <1>1, <2>2 DEF SeedInv, Resetting, vars, script, stores, pods
    <2> QED
      BY <1>1, <2>1, <2>2
  <1>2. SeedInv => LoadIsSeeded
    BY DEF SeedInv, LoadIsSeeded, LoadLines
  <1> QED
    BY <1>1, <1>2, SeedInit, Invariance, PTL DEF Spec
=============================================================================
