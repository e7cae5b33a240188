---------------------------- MODULE BenchmarkInv ----------------------------
(***************************************************************************)
(* The inductive invariants behind the safety properties of Benchmark.     *)
(* TLC checks them on small instances; BenchmarkProofs proves them for all.*)
(***************************************************************************)
EXTENDS Benchmark

(* Where the script is. *)
StoreLines == {"scale0", "gone", "claim", "apply"}
DeployLines == StoreLines \union
                 {"manifests", "stores", "pgready", "migrate", "migrated", "ready", "apps"}
LoadLines == {"address", "health", "load"}
SizedLines == DeployLines \union LoadLines \union
                {"deploy", "data", "scale", "restart", "rollout", "oldgone"}
RunLines == SizedLines \union {"verify", "pool", "grow"}

(* The rollout that the load waits for, not one that ends a migration.      *)
Scaled == pc \in LoadLines \union {"oldgone"} \/ (pc \in {"restart", "rollout"} /\ mode = "scale")

(* For whom the script acts is told by where it is.                         *)
ModeFollowsTheLine ==
    /\ pc \in DeployLines \union {"data"} => mode # "scale"
    /\ pc = "stores" => mode = "ensure"
    /\ pc \in StoreLines => mode \in {"force", "ensure"}
    /\ pc \in StoreLines /\ mode = "force" => store = "postgres" /\ ~reset_postgres

(* The pool, and later the deployments, have the size of the row.           *)
SizesFollowTheRow ==
    /\ pc \in RunLines => counts # <<>>
    /\ pc \in SizedLines => pool = Head(counts)
    /\ Scaled => want = Replicas(Head(counts))

(* While the pods of the load come up, Postgres does not come up: an API    *)
(* pod that is ready without a pool has no Postgres to pass /health with.   *)
PodsFollowTheRow ==
    /\ pc \in LoadLines => RolledOut /\ leaving = {}
    /\ (Scaled \/ pc = "scale") /\ pc # "load" /\ "postgres" \notin up
          => replicas["postgres"] # 1
    /\ Scaled /\ pc \notin {"restart", "load"} /\ "api" \in ready /\ cold => "postgres" \notin up
    /\ pc = "load" => ~cold

(* A run that is asked for a fresh Postgres resets it first of all.         *)
FreshFollowsTheLine ==
    args.reset /\ pc \in SizedLines \ {"deploy"}
       /\ ~(pc \in {"scale0", "gone", "claim"} /\ mode = "force") => ~used

(* What the finally clauses have to end is there when they can see it.      *)
TeardownSeesAll ==
    /\ forward => pc \in {"health", "load"}
    /\ pc = "resize" => ~ingress

IInv ==
    /\ TypeOK
    /\ ModeFollowsTheLine
    /\ SizesFollowTheRow
    /\ PodsFollowTheRow
    /\ FreshFollowsTheLine
    /\ TeardownSeesAll
    /\ NothingKeepsRunning

-----------------------------------------------------------------------------
(* No step between the loss of a volume and its migration fails, and the    *)
(* operator is never told to reset Postgres.                                *)
ResetsComplete ==
    Fallible \intersect (StoreLines \union {"stores", "pgready", "migrate", "migrated", "auth"}) = {}

(* Postgres was reset in this run, and its migration is still to come.      *)
Resetting ==
    \/ pc = "apply" /\ store = "postgres"
    \/ reset_postgres /\ pc \in StoreLines \union {"stores", "pgready", "migrate"}
    \/ mode = "force" /\ pc \in {"pgready", "migrate"}

(* What is deployed has a migrated database, unless it is being reset; and  *)
(* a job that is done may be believed then.                                 *)
SeedInv ==
    /\ ~advised
    /\ job = "done" /\ data # "seeded" => Resetting
    /\ (\E a \in Apps : want[a] > 0) /\ data # "seeded" => Resetting \/ pc = "migrated"
    /\ pc \in {"restart", "rollout", "oldgone"} \union LoadLines => data = "seeded"
    /\ pc = "apps" => data = "seeded"
    /\ \A s \in Stores : claim[s] # "none" => replicas[s] >= 0
    /\ pc = "scale0" /\ mode # "force" => replicas[store] >= 0
=============================================================================
