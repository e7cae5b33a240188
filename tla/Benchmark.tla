----------------------------- MODULE Benchmark ------------------------------
(***************************************************************************)
(* scripts/run_gke_benchmark.py: a script that sizes the node pool,        *)
(* deploys or repairs the stores, migrates, restarts the workloads, loads  *)
(* them with k6 and tears everything down; against a cluster that starts   *)
(* and ends pods, and completes jobs, in its own time.  A step may fail or *)
(* be interrupted, a wait may time out, and the script may be run again on *)
(* what an earlier run left.                                               *)
(*                                                                         *)
(* The pods of a deployment are told apart only by generation: those of    *)
(* its current template, all ready; older ones that still serve; and those *)
(* being terminated.                                                       *)
(***************************************************************************)
EXTENDS Integers, Sequences

CONSTANTS
    Options,    \* the argument records a run may be given (parse_args)
    Fallible,   \* the steps that may fail or time out
    DropsJob,   \* the operator who resets Postgres deletes pms-migrate too
    MaxRuns,    \* bound: runs of the script
    MaxFaults   \* bound: steps that fail though their condition holds

Apps == {"api", "worker", "callback-dispatcher"}
Stores == {"postgres", "redis"}

Steps == {"verify", "pool", "grow", "deploy", "manifests", "stores", "scale0",
          "gone", "claim", "apply", "pgready", "migrate", "migrated", "ready",
          "apps", "data", "scale", "restart", "rollout", "oldgone", "address",
          "health", "load", "teardown", "resize"}

ASSUME OptionsAssumption ==
    Options \subseteq [counts: Seq(Nat \ {0}) \ {<<>>}, reset: BOOLEAN, skip_deploy: BOOLEAN,
                       access: {"ingress", "forward"},
                       skip_teardown: BOOLEAN, preflight: BOOLEAN]
ASSUME BoundsAssumption ==
    /\ MaxRuns \in Nat /\ MaxFaults \in Nat /\ DropsJob \in BOOLEAN
    /\ Fallible \subseteq Steps \union {"auth"}

VARIABLES
    \* the script
    pc,         \* the step it is about to take; "idle" between runs
    args,       \* its arguments
    counts,     \* the node counts it has not finished
    store,      \* the store it checks or resets
    mode,       \* for whom it resets, migrates and restarts
    reset_postgres,  \* ensure_stateful_stores has reset Postgres
    runs, faults,
    advised,    \* the operator was told to reset Postgres and to run again
    torn,       \* the teardown failed
    \* the cluster
    pool,       \* nodes of the pool
    replicas,   \* replicas of each StatefulSet, -1 before it exists
    up,         \* stores whose pod is ready
    claim,      \* volume claim: none, at home, or placed on a node now gone
    data,       \* what is in Postgres: nothing, the tables, the tenants as well
    used,       \* Postgres holds tickets of an earlier load
    job,        \* pms-migrate
    want,       \* replicas of each Deployment, 0 before it exists
    ready, old, leaving,  \* deployments with ready, older, terminating pods
    cold,       \* an API pod came up without Postgres: it has no pool
    ingress, forward      \* the load balancer and a port-forward process exist

script == <<pc, args, counts, store, mode, reset_postgres, runs, faults, advised, torn>>
stores == <<replicas, up, claim, data, used, job>>
pods == <<want, ready, old, leaving, cold>>
access == <<ingress, forward>>
vars == <<script, pool, stores, pods, access>>

-----------------------------------------------------------------------------
Init ==
    /\ pc = "idle" /\ args \in Options /\ counts = <<>>
    /\ store = "postgres" /\ mode = "deploy" /\ reset_postgres = FALSE
    /\ runs = 0 /\ faults = 0 /\ advised = FALSE /\ torn = FALSE
    /\ pool = 0
    /\ replicas = [s \in Stores |-> -1] /\ up = {}
    /\ claim = [s \in Stores |-> "none"]
    /\ data = "empty" /\ used = FALSE /\ job = "none"
    /\ want = [a \in Apps |-> 0]
    /\ ready = {} /\ old = {} /\ leaving = {} /\ cold = FALSE
    /\ ingress = FALSE /\ forward = FALSE

(* The step from one label to another; Keep what it leaves alone.          *)
Goto(from, to) == pc = from /\ pc' = to

KeepRun == UNCHANGED <<args, runs, faults, advised, torn>>
KeepPlan == UNCHANGED <<counts, store, mode, reset_postgres>>

-----------------------------------------------------------------------------
(* The cluster. *)

(* A StatefulSet brings its pod up, and claims a volume if there is none. *)
StoreUp(s) ==
    /\ replicas[s] = 1 /\ s \notin up /\ pool > 0
    /\ up' = up \union {s}
    /\ claim' = [claim EXCEPT ![s] = IF @ = "none" THEN "home" ELSE @]
    /\ UNCHANGED <<script, pool, replicas, data, used, job, pods, access>>

StoreDown(s) ==
    /\ replicas[s] = 0 /\ s \in up
    /\ up' = up \ {s}
    /\ UNCHANGED <<script, pool, replicas, claim, data, used, job, pods, access>>

(* pms-migrate: the schema and every tenant of the load test. *)
JobCompletes ==
    /\ job = "running" /\ "postgres" \in up
    /\ job' = "done" /\ data' = "seeded"
    /\ UNCHANGED <<script, pool, replicas, up, claim, used, pods, access>>

(* The new pods of a deployment are ready.  An API pod opens its pool and  *)
(* migrates as it starts, or goes on without: migrate creates the tables   *)
(* and some tenants, those of the load test not among them.                *)
PodsReady(a) ==
    /\ want[a] > 0 /\ a \notin ready /\ pool > 0
    /\ ready' = ready \union {a}
    /\ IF a = "api"
       THEN /\ cold' = ("postgres" \notin up)
            /\ data' = IF "postgres" \in up /\ data = "empty" THEN "schema" ELSE data
       ELSE UNCHANGED <<cold, data>>
    /\ UNCHANGED <<script, pool, replicas, up, claim, used, job, want, old, leaving, access>>

PodsRetire(a) ==
    /\ a \in old
    /\ old' = old \ {a} /\ leaving' = leaving \union {a}
    /\ UNCHANGED <<script, pool, stores, want, ready, cold, access>>

PodsEnd(a) ==
    /\ a \in leaving
    /\ leaving' = leaving \ {a}
    /\ UNCHANGED <<script, pool, stores, want, ready, old, cold, access>>

(* gcloud container clusters resize: nodes that go take their pods along,  *)
(* and the volumes of their stores have lost the node they were placed on. *)
Resize(n) ==
    /\ pool' = n
    /\ \E gone \in SUBSET Stores :
          /\ n = 0 => gone = Stores
          /\ n >= pool => gone = {}
          /\ up' = up \ gone
          /\ claim' = [s \in Stores |->
                IF s \in gone /\ claim[s] # "none" THEN "lost" ELSE claim[s]]
    /\ IF n < pool
       THEN ready' = {} /\ old' = {} /\ leaving' = leaving \union ready \union old
       ELSE UNCHANGED <<ready, old, leaving>>
    /\ UNCHANGED <<replicas, data, used, job, want, cold>>

-----------------------------------------------------------------------------
(* What the script reads from the cluster. *)

NeedsReset(s) == claim[s] = "lost"

RolledOut == Apps \subseteq ready /\ old = {}

Migrated == job = "done"

Deployed == \A a \in Apps : want[a] > 0

(* /health through the service: some API pod has its pool and reaches both *)
(* stores; and the count of the waiting tickets has a table to read.       *)
Healthy ==
    /\ "api" \in ready /\ Stores \subseteq up /\ data # "empty"
    /\ cold => want["api"] > 1

(* What the step at hand waits for, or what its command needs to exist. *)
Awaited ==
    CASE pc = "gone" -> store \notin up
      [] pc \in {"pgready", "ready"} -> "postgres" \in up
      [] pc = "migrated" -> Migrated
      [] pc = "rollout" -> RolledOut
      [] pc = "data" -> Stores \subseteq up
      [] pc = "oldgone" -> leaving = {} /\ RolledOut
      [] pc = "health" -> Healthy
      [] pc = "scale0" -> replicas[store] >= 0
      [] pc \in {"scale", "restart"} -> Deployed
      [] OTHER -> TRUE

-----------------------------------------------------------------------------
(* execute *)

Start ==
    /\ Goto("idle", "verify") /\ runs < MaxRuns
    /\ \E a \in Options : args' = a /\ counts' = a.counts
    /\ runs' = runs + 1 /\ torn' = FALSE /\ advised' = FALSE
    /\ UNCHANGED <<store, mode, reset_postgres, faults, pool, stores, pods, access>>

Verify ==
    /\ Goto("verify", IF args.preflight THEN "over" ELSE "pool")
    /\ KeepRun /\ KeepPlan /\ UNCHANGED <<pool, stores, pods, access>>

(* A pool that grows is emptied first. *)
EmptyPool ==
    /\ Goto("pool", "grow") /\ pool > 0 /\ Head(counts) > pool
    /\ Resize(0)
    /\ KeepRun /\ KeepPlan /\ UNCHANGED access

SizePool ==
    /\ \/ Goto("grow", "deploy")
       \/ Goto("pool", "deploy") /\ (pool = 0 \/ Head(counts) <= pool)
    /\ Resize(Head(counts))
    /\ KeepRun /\ KeepPlan /\ UNCHANGED access

(* Mutant: Postgres is reset only where its volume cannot be used. *)
DeployResetsLost ==
    /\ pc = "deploy"
    /\ store' = "postgres" /\ reset_postgres' = FALSE
    /\ mode' = IF args.reset /\ NeedsReset("postgres") THEN "force" ELSE "ensure"
    /\ pc' = IF args.reset /\ NeedsReset("postgres") THEN "scale0"
             ELSE IF args.skip_deploy THEN "stores" ELSE "manifests"
    /\ KeepRun /\ UNCHANGED <<counts, pool, stores, pods, access>>

EnsureDeploy ==
    /\ pc = "deploy"
    /\ store' = "postgres" /\ reset_postgres' = FALSE
    /\ mode' = IF args.reset THEN "force" ELSE "ensure"
    /\ pc' = IF args.reset THEN "scale0"
             ELSE IF args.skip_deploy THEN "stores" ELSE "manifests"
    /\ KeepRun /\ UNCHANGED <<counts, pool, stores, pods, access>>

ApplyStores ==
    /\ Goto("manifests", "stores")
    /\ replicas' = [s \in Stores |-> 1]
    /\ store' = "postgres" /\ mode' = "ensure" /\ reset_postgres' = FALSE
    /\ KeepRun
    /\ UNCHANGED <<counts, up, claim, data, used, job, pool, pods, access>>

-----------------------------------------------------------------------------
(* ensure_stateful_stores, force_reset_postgres and ensure_migration *)

AfterStores == IF args.skip_deploy THEN "data" ELSE "ready"

(* Mutant: the stores are brought back, and what they held is not. *)
AfterStoreOnly(reset) == IF store = "postgres" THEN "stores" ELSE AfterStores

AfterStore(reset) ==
    IF store = "postgres" THEN "stores"
    ELSE IF reset THEN "pgready" ELSE AfterStores

CheckStore ==
    /\ pc = "stores"
    /\ IF NeedsReset(store)
       THEN pc' = "scale0" /\ UNCHANGED store
       ELSE pc' = AfterStore(reset_postgres) /\ store' = "redis"
    /\ KeepRun /\ UNCHANGED <<counts, mode, reset_postgres, pool, stores, pods, access>>

ScaleToZero ==
    /\ Goto("scale0", "gone") /\ Awaited
    /\ replicas' = [replicas EXCEPT ![store] = 0]
    /\ KeepRun /\ KeepPlan
    /\ UNCHANGED <<up, claim, data, used, job, pool, pods, access>>

PodGone ==
    /\ Goto("gone", "claim") /\ Awaited
    /\ KeepRun /\ KeepPlan /\ UNCHANGED <<pool, stores, pods, access>>

DropVolume(s) ==
    /\ claim' = [claim EXCEPT ![s] = "none"]
    /\ IF s = "postgres" THEN data' = "empty" /\ used' = FALSE
       ELSE UNCHANGED <<data, used>>

DeleteClaim ==
    /\ Goto("claim", "apply")
    /\ DropVolume(store)
    /\ KeepRun /\ KeepPlan /\ UNCHANGED <<replicas, up, job, pool, pods, access>>

(* Mutant: the store comes back with a second replica. *)
ReapplyTwo ==
    /\ pc = "apply"
    /\ replicas' = [replicas EXCEPT ![store] = 2]
    /\ IF mode = "force"
       THEN pc' = "pgready" /\ UNCHANGED <<store, reset_postgres>>
       ELSE /\ reset_postgres' = (reset_postgres \/ store = "postgres")
            /\ store' = "redis"
            /\ pc' = AfterStore(reset_postgres')
    /\ KeepRun
    /\ UNCHANGED <<counts, mode, up, claim, data, used, job, pool, pods, access>>

ReapplyStore ==
    /\ pc = "apply"
    /\ replicas' = [replicas EXCEPT ![store] = 1]
    /\ IF mode = "force"
       THEN pc' = "pgready" /\ UNCHANGED <<store, reset_postgres>>
       ELSE /\ reset_postgres' = (reset_postgres \/ store = "postgres")
            /\ store' = "redis"
            /\ pc' = AfterStore(reset_postgres')
    /\ KeepRun
    /\ UNCHANGED <<counts, mode, up, claim, data, used, job, pool, pods, access>>

PostgresReady ==
    /\ Goto("pgready", "migrate") /\ Awaited
    /\ KeepRun /\ KeepPlan /\ UNCHANGED <<pool, stores, pods, access>>

EnsureMigration ==
    /\ Goto("migrate", "migrated")
    /\ job' = "running"
    /\ KeepRun /\ KeepPlan
    /\ UNCHANGED <<replicas, up, claim, data, used, pool, pods, access>>

MigrationDone ==
    /\ Goto("migrated", IF mode = "deploy" THEN "apps" ELSE "restart") /\ Awaited
    /\ KeepRun /\ KeepPlan /\ UNCHANGED <<pool, stores, pods, access>>

(* In ensure_deploy the migration runs only if no job has succeeded. *)
StoresReady ==
    /\ Goto("ready", IF Migrated THEN "apps" ELSE "migrate") /\ Awaited
    /\ mode' = "deploy"
    /\ KeepRun
    /\ UNCHANGED <<counts, store, reset_postgres, pool, stores, pods, access>>

ManifestReplicas == [a \in Apps |-> IF a = "callback-dispatcher" THEN 2 ELSE 1]

(* The pods of deployments whose replicas change: new ones are not ready   *)
(* yet, surplus ones terminate.                                            *)
SetReplicas(new) ==
    /\ want' = new
    /\ ready' = {a \in ready : new[a] <= want[a]}
    /\ leaving' = leaving \union {a \in ready : new[a] < want[a]}

ApplyApps ==
    /\ Goto("apps", "data")
    /\ SetReplicas(ManifestReplicas)
    /\ KeepRun /\ KeepPlan /\ UNCHANGED <<old, cold, pool, stores, access>>

-----------------------------------------------------------------------------
(* scale_replicas *)

DataReady ==
    /\ Goto("data", "scale") /\ Awaited
    /\ KeepRun /\ KeepPlan /\ UNCHANGED <<pool, stores, pods, access>>

dispatcher_replicas(n) == IF n > 1 THEN n - 1 ELSE 1

Replicas(n) ==
    [a \in Apps |-> IF a = "callback-dispatcher" THEN dispatcher_replicas(n) ELSE n]

ScaleReplicas ==
    /\ Goto("scale", "restart") /\ Awaited
    /\ mode' = "scale"
    /\ SetReplicas(Replicas(Head(counts)))
    /\ KeepRun
    /\ UNCHANGED <<counts, store, reset_postgres, old, cold, pool, stores, access>>

Restart ==
    /\ Goto("restart", "rollout") /\ Awaited
    /\ old' = old \union ready
    /\ ready' = {}
    /\ KeepRun /\ KeepPlan /\ UNCHANGED <<want, leaving, cold, pool, stores, access>>

(* Mutant: the load begins as soon as the new pods are ready. *)
RolloutOnly ==
    /\ Goto("rollout",
            CASE mode = "scale" -> "address"
              [] mode = "force" -> IF args.skip_deploy THEN "data" ELSE "manifests"
              [] OTHER -> AfterStores)
    /\ Awaited
    /\ KeepRun /\ KeepPlan /\ UNCHANGED <<pool, stores, pods, access>>

Rollout ==
    /\ Goto("rollout",
            CASE mode = "scale" -> "oldgone"
              [] mode = "force" -> IF args.skip_deploy THEN "data" ELSE "manifests"
              [] OTHER -> AfterStores)
    /\ Awaited
    /\ KeepRun /\ KeepPlan /\ UNCHANGED <<pool, stores, pods, access>>

OldPodsGone ==
    /\ Goto("oldgone", "address") /\ Awaited
    /\ KeepRun /\ KeepPlan /\ UNCHANGED <<pool, stores, pods, access>>

-----------------------------------------------------------------------------
(* run_benchmark and teardown *)

Connect ==
    /\ Goto("address", "health")
    /\ IF args.access = "forward"
       THEN forward' = TRUE /\ UNCHANGED ingress
       ELSE ingress' = TRUE /\ UNCHANGED forward
    /\ KeepRun /\ KeepPlan /\ UNCHANGED <<pool, stores, pods>>

BeginLoad ==
    /\ Goto("health", "load") /\ Awaited
    /\ KeepRun /\ KeepPlan /\ UNCHANGED <<pool, stores, pods, access>>

EndLoad ==
    /\ Goto("load", IF Len(counts) > 1 THEN "pool" ELSE "teardown")
    /\ used' = TRUE /\ forward' = FALSE
    /\ counts' = Tail(counts)
    /\ KeepRun
    /\ UNCHANGED <<store, mode, reset_postgres, replicas, up, claim, data, job,
                   pool, pods, ingress>>

DeleteIngress ==
    /\ Goto("teardown", IF args.skip_teardown THEN "over" ELSE "resize")
    /\ ingress' = (args.skip_teardown /\ ingress)
    /\ KeepRun /\ KeepPlan /\ UNCHANGED <<pool, stores, pods, forward>>

StopNodes ==
    /\ Goto("resize", "over")
    /\ Resize(0)
    /\ KeepRun /\ KeepPlan /\ UNCHANGED access

Exit ==
    /\ Goto("over", "idle")
    /\ counts' = <<>>
    /\ KeepRun /\ UNCHANGED <<store, mode, reset_postgres, pool, stores, pods, access>>

(* Mutant: an interrupt is not an Exception, and leaves at once. *)
EscapeUnhandled ==
    /\ pc' = "over"
    /\ forward' = FALSE
    /\ used' = (used \/ pc = "load")

(* Whatever a step raises, the finally clauses stop the port-forward and   *)
(* tear the cluster down, but for a preflight.                             *)
Escape ==
    /\ pc' = IF args.preflight THEN "over" ELSE "teardown"
    /\ forward' = FALSE
    /\ used' = (used \/ pc = "load")

KeepCluster ==
    /\ UNCHANGED <<args, runs, counts, store, mode, reset_postgres, pool, replicas,
                   up, claim, data, job, pods>>

(* A step that fails has changed nothing, but for an ingress that was      *)
(* applied and never had an address.  (One that fails after its effect is  *)
(* the next one failing.)                                                  *)
StepFails ==
    /\ pc \in Fallible \ {"teardown", "resize"}
    /\ Awaited => faults < MaxFaults /\ faults' = faults + 1
    /\ ~Awaited => UNCHANGED faults
    /\ Escape
    /\ \/ UNCHANGED ingress
       \/ pc = "address" /\ args.access = "ingress" /\ ingress' = TRUE
    /\ KeepCluster /\ UNCHANGED <<advised, torn>>

(* A command on an object that was never deployed. *)
NothingThere ==
    /\ pc \in {"scale0", "restart", "scale"} \ Fallible /\ ~Awaited
    /\ Escape
    /\ KeepCluster /\ UNCHANGED <<faults, advised, torn, ingress>>

(* verify_postgres_auth: the password is not the volume's.  (After a reset *)
(* a failed check is a failed step like any other.)                        *)
AuthFails ==
    /\ "auth" \in Fallible /\ faults < MaxFaults
    /\ pc = "ready" /\ Awaited /\ ~reset_postgres
    /\ faults' = faults + 1 /\ advised' = TRUE
    /\ Escape
    /\ KeepCluster /\ UNCHANGED <<torn, ingress>>

TeardownFails ==
    /\ pc \in Fallible \intersect {"teardown", "resize"}
    /\ ~args.skip_teardown /\ faults < MaxFaults
    /\ pc' = "over" /\ torn' = TRUE /\ faults' = faults + 1
    /\ UNCHANGED <<args, runs, advised, counts, store, mode, reset_postgres,
                   pool, stores, pods, access>>

(* The operator does what verify_postgres_auth says: scale Postgres to 0,  *)
(* wait for its pod to go, delete the claim.                               *)
ManualReset ==
    /\ pc = "idle" /\ advised
    /\ replicas' = [replicas EXCEPT !["postgres"] = 0]
    /\ up' = up \ {"postgres"}
    /\ DropVolume("postgres")
    /\ job' = IF DropsJob THEN "none" ELSE job
    /\ advised' = FALSE
    /\ UNCHANGED <<pc, args, counts, store, mode, reset_postgres, runs, faults, torn,
                   pool, pods, access>>

-----------------------------------------------------------------------------
ClusterStep ==
    \/ \E s \in Stores : StoreUp(s) \/ StoreDown(s)
    \/ JobCompletes
    \/ \E a \in Apps : PodsReady(a) \/ PodsRetire(a) \/ PodsEnd(a)

Deploy ==
    \/ EnsureDeploy \/ ApplyStores \/ CheckStore
    \/ ScaleToZero \/ PodGone \/ DeleteClaim \/ ReapplyStore
    \/ PostgresReady \/ EnsureMigration \/ MigrationDone \/ StoresReady \/ ApplyApps

Measure ==
    \/ DataReady \/ ScaleReplicas \/ Restart \/ Rollout \/ OldPodsGone
    \/ Connect \/ BeginLoad \/ EndLoad

ScriptStep ==
    \/ Start \/ Verify \/ EmptyPool \/ SizePool
    \/ Deploy \/ Measure
    \/ DeleteIngress \/ StopNodes \/ Exit

Failure == StepFails \/ NothingThere \/ AuthFails \/ TeardownFails \/ ManualReset

Next == ClusterStep \/ ScriptStep \/ Failure

Spec == Init /\ [][Next]_vars

-----------------------------------------------------------------------------
TypeOK ==
    /\ pc \in Steps \union {"idle", "over"}
    /\ args \in Options /\ counts \in Seq(Nat \ {0})
    /\ store \in Stores /\ mode \in {"force", "ensure", "deploy", "scale"}
    /\ reset_postgres \in BOOLEAN /\ runs \in 0 .. MaxRuns /\ faults \in 0 .. MaxFaults
    /\ advised \in BOOLEAN /\ torn \in BOOLEAN
    /\ pool \in Nat /\ replicas \in [Stores -> -1 .. 1] /\ up \subseteq Stores
    /\ claim \in [Stores -> {"none", "home", "lost"}]
    /\ data \in {"empty", "schema", "seeded"} /\ used \in BOOLEAN
    /\ job \in {"none", "running", "done"}
    /\ want \in [Apps -> Nat] /\ ready \subseteq Apps /\ old \subseteq Apps
    /\ leaving \subseteq Apps /\ cold \in BOOLEAN
    /\ ingress \in BOOLEAN /\ forward \in BOOLEAN

(* A load test runs against a database that has the tenants it names:      *)
(* every volume that was reset has been migrated again, although an older  *)
(* migration job still counts as done.                                     *)
LoadIsSeeded == pc = "load" => data = "seeded"

(* The pods a load test counts, before and after, are all there are: the   *)
(* pods of this run at the scale the row names, with no older worker left  *)
(* to match tickets uncounted, and no API pod without a database.          *)
LoadIsOnNewPods ==
    pc = "load" =>
        /\ want = Replicas(Head(counts)) /\ pool = Head(counts)
        /\ RolledOut /\ leaving = {} /\ ~cold

(* A row marked fresh was measured on a database without earlier tickets.  *)
FreshIsEmpty == pc = "load" /\ args.reset => ~used

(* A script that is over has left no process behind and, unless asked to   *)
(* or failing in the teardown itself, neither a node nor the ingress.      *)
NothingKeepsRunning ==
    pc = "over" =>
        /\ ~forward
        /\ ~(args.skip_teardown \/ args.preflight \/ torn) => pool = 0 /\ ~ingress
=============================================================================
