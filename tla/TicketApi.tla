------------------------------ MODULE TicketApi ------------------------------
(***************************************************************************)
(* The HTTP API of one process: concurrent POST /v1/tickets requests pass  *)
(* the idempotency lookup and admission control, each with its own short   *)
(* use of the connection pool, and then reserve the key, insert the ticket *)
(* and store the answer in one transaction.  DELETE /v1/tickets and the    *)
(* matching of tickets by workers run next to them.                        *)
(***************************************************************************)
EXTENDS Integers, FiniteSets

CONSTANTS
    Handlers,      \* requests that may be in progress at the same time
    Bodies,        \* request bodies
    Tenants,       \* tenant ids
    TenantOf,      \* the tenant a body is sent for
    SlotOf,        \* its (tenant, player, region, queue)
    PartitionOf,   \* compute_partition_id of a body
    Keys,          \* idempotency keys
    Tickets,       \* ticket ids
    OldTickets,    \* those that wait already when the process starts
    RateLimit,     \* tenants.max_tickets_per_second: requests per minute
    MaxInFlight,   \* tenants.max_tickets_in_flight
    MaxDepth,      \* tenants.max_partition_depth
    PoolSize,      \* connections in the pool
    MaxRequests,   \* bound: requests ever sent
    MaxFaults,     \* bound: statements that raise, lost commits, crashes
    Nil            \* no key, no row, no ticket

ASSUME HandlerAssumption == IsFiniteSet(Handlers) /\ Handlers # {}
ASSUME BodyAssumption == TenantOf \in [Bodies -> Tenants]
ASSUME NumberAssumption ==
    /\ RateLimit \in Nat /\ MaxInFlight \in Nat /\ MaxDepth \in Nat
    /\ PoolSize \in Nat \ {0} /\ MaxRequests \in Nat /\ MaxFaults \in Nat
ASSUME OldAssumption ==
    /\ OldTickets \subseteq Tickets /\ IsFiniteSet(OldTickets)
    /\ Cardinality(OldTickets) < MaxInFlight + Cardinality(Handlers)

VARIABLES
    ticket,     \* committed rows of tickets
    stored,     \* committed rows of idempotency_keys
    pc,         \* where each request is in create_ticket
    req,        \* its key and body
    new_key,    \* the key row its transaction has written
    new_ticket, \* the ticket its transaction has inserted
    hits,       \* Redis: requests counted for the tenant this minute
    replies,    \* history: what requests with a key were told
    sent, faults

tables == <<ticket, stored>>
draft == <<new_key, new_ticket>>
bounds == <<sent, faults>>
vars == <<tables, pc, req, draft, hits, replies, bounds>>

-----------------------------------------------------------------------------
(* Rows.  A ticket remembers, as history, the key it was created under.    *)
TicketRow == [status: {"waiting", "matched", "cancelled"},
              body: Bodies, key: Keys \union {Nil}]

(* response_body is the ticket it names, Nil while it is the placeholder.  *)
KeyRow == [hash: Bodies, response: Tickets \union {Nil}]

RequestRow == [key: Keys \union {Nil}, body: Bodies]

(* (tenant, key) is the primary key of idempotency_keys. *)
KeyIds == Tenants \X Keys
KeyOf(h) == <<TenantOf[req[h].body], req[h].key>>
HasKey(h) == req[h].key # Nil

ReplyRow == [id: KeyIds, body: Bodies,
             kind: {"created", "replay", "conflict", "rejected", "duplicate", "error"},
             ticket: Tickets \union {Nil}]

ASSUME NilAssumption == Nil \notin Keys \union Tickets \union TicketRow \union KeyRow

InTransaction == {"reserve", "replay", "insert", "finalize", "commit"}

(* A connection of the pool is free; a transaction keeps one. *)
Connection == Cardinality({h \in Handlers : pc[h] \in InTransaction}) < PoolSize

Waiting(t) == {i \in Tickets : /\ ticket[i] # Nil
                               /\ ticket[i].status = "waiting"
                               /\ TenantOf[ticket[i].body] = t}

Depth(p) == {i \in Tickets : /\ ticket[i] # Nil
                             /\ ticket[i].status = "waiting"
                             /\ PartitionOf[ticket[i].body] = p}

Goto(h, l) == pc' = [pc EXCEPT ![h] = l]

Fault == faults < MaxFaults /\ faults' = faults + 1 /\ UNCHANGED sent

(* The request ends; what a request with a key is told is remembered. *)
Reply(h, kind, i) ==
    /\ replies' = IF HasKey(h)
                  THEN replies \union {[id |-> KeyOf(h), body |-> req[h].body,
                                        kind |-> kind, ticket |-> i]}
                  ELSE replies
    /\ req' = [req EXCEPT ![h] = Nil]

-----------------------------------------------------------------------------
(* The process starts on the database that an earlier one has left; no key  *)
(* of these tickets comes in again.                                         *)
Init ==
    /\ \E body \in [OldTickets -> Bodies] :
          /\ \A i, j \in OldTickets : i # j => SlotOf[body[i]] # SlotOf[body[j]]
          /\ ticket = [i \in Tickets |->
                         IF i \in OldTickets
                         THEN [status |-> "waiting", body |-> body[i], key |-> Nil]
                         ELSE Nil]
    /\ stored = [k \in KeyIds |-> Nil]
    /\ pc = [h \in Handlers |-> "idle"]
    /\ req = [h \in Handlers |-> Nil]
    /\ new_key = [h \in Handlers |-> Nil]
    /\ new_ticket = [h \in Handlers |-> Nil]
    /\ hits = [t \in Tenants |-> 0]
    /\ replies = {}
    /\ sent = 0 /\ faults = 0

(* A client sends a request, or sends one again. *)
Request(h, k, b) ==
    /\ pc[h] = "idle" /\ sent < MaxRequests
    /\ req' = [req EXCEPT ![h] = [key |-> k, body |-> b]]
    /\ Goto(h, "tenant")
    /\ sent' = sent + 1
    /\ UNCHANGED <<tables, draft, hits, replies, faults>>

(* The tenant's row is read with a connection of its own (the limits are   *)
(* not changed while the service runs; every body is of a known tenant).   *)
require_tenant(h) ==
    /\ pc[h] = "tenant" /\ Connection
    /\ Goto(h, IF HasKey(h) THEN "lookup" ELSE "rate")
    /\ UNCHANGED <<tables, req, draft, hits, replies, bounds>>

(* What a stored row answers: the first request's response, or a conflict. *)
Answer(h, r) ==
    IF r.hash = req[h].body THEN Reply(h, "replay", r.response)
                            ELSE Reply(h, "conflict", Nil)

check_idempotency_key(h) ==
    LET r == stored[KeyOf(h)]
    IN /\ pc[h] = "lookup" /\ Connection
       /\ IF r = Nil
          THEN Goto(h, "rate") /\ UNCHANGED <<req, replies>>
          ELSE Goto(h, "idle") /\ Answer(h, r)
       /\ UNCHANGED <<tables, draft, hits, bounds>>

(* INCR and EXPIRE in one Redis transaction. *)
check_rate_limit(h) ==
    LET t == TenantOf[req[h].body]
    IN /\ pc[h] = "rate"
       /\ hits' = [hits EXCEPT ![t] = @ + 1]
       /\ IF hits[t] + 1 > RateLimit
          THEN Goto(h, "idle") /\ Reply(h, "rejected", Nil)
          ELSE Goto(h, "quota") /\ UNCHANGED <<req, replies>>
       /\ UNCHANGED <<tables, draft, bounds>>

(* Mutant: the limit itself is still let in. *)
QuotaOffByOne(h) ==
    /\ pc[h] = "quota" /\ Connection
    /\ IF Cardinality(Waiting(TenantOf[req[h].body])) > MaxInFlight
       THEN Goto(h, "idle") /\ Reply(h, "rejected", Nil)
       ELSE Goto(h, "depth") /\ UNCHANGED <<req, replies>>
    /\ UNCHANGED <<tables, draft, hits, bounds>>

check_tenant_quota(h) ==
    /\ pc[h] = "quota" /\ Connection
    /\ IF Cardinality(Waiting(TenantOf[req[h].body])) >= MaxInFlight
       THEN Goto(h, "idle") /\ Reply(h, "rejected", Nil)
       ELSE Goto(h, "depth") /\ UNCHANGED <<req, replies>>
    /\ UNCHANGED <<tables, draft, hits, bounds>>

check_partition_depth(h) ==
    /\ pc[h] = "depth" /\ Connection
    /\ IF Cardinality(Depth(PartitionOf[req[h].body])) >= MaxDepth
       THEN Goto(h, "idle") /\ Reply(h, "rejected", Nil)
       ELSE Goto(h, "shed") /\ UNCHANGED <<req, replies>>
    /\ UNCHANGED <<tables, draft, hits, bounds>>

(* SELECT 1 may be slow. *)
check_db_load_shedding(h) ==
    /\ pc[h] = "shed" /\ Connection
    /\ \/ Goto(h, "idle") /\ Reply(h, "rejected", Nil)
       \/ Goto(h, "acquire") /\ UNCHANGED <<req, replies>>
    /\ UNCHANGED <<tables, draft, hits, bounds>>

(* pool.acquire() and BEGIN. *)
Acquire(h) ==
    /\ pc[h] = "acquire" /\ Connection
    /\ Goto(h, IF HasKey(h) THEN "reserve" ELSE "insert")
    /\ UNCHANGED <<tables, req, draft, hits, replies, bounds>>

-----------------------------------------------------------------------------
(* The transaction. *)

(* Mutant: the ticket is still there after the rollback. *)
DiscardKeyOnly(h) ==
    /\ new_key' = [new_key EXCEPT ![h] = Nil]
    /\ UNCHANGED new_ticket

Discard(h) ==
    /\ new_key' = [new_key EXCEPT ![h] = Nil]
    /\ new_ticket' = [new_ticket EXCEPT ![h] = Nil]

(* Mutant: the INSERT does not wait for another open transaction's key. *)
ReserveAtOnce(h) ==
    /\ pc[h] = "reserve"
    /\ IF stored[KeyOf(h)] # Nil
       THEN Goto(h, "replay") /\ UNCHANGED new_key
       ELSE /\ new_key' = [new_key EXCEPT ![h] = [hash |-> req[h].body, response |-> Nil]]
            /\ Goto(h, "insert")
    /\ UNCHANGED <<tables, req, new_ticket, hits, replies, bounds>>

(* INSERT ... ON CONFLICT DO NOTHING waits for another open transaction    *)
(* that has inserted the same key, then goes by what that one left.        *)
reserve_idempotency_key(h) ==
    /\ pc[h] = "reserve"
    /\ \A o \in Handlers \ {h} : new_key[o] # Nil => KeyOf(o) # KeyOf(h)
    /\ IF stored[KeyOf(h)] # Nil
       THEN Goto(h, "replay") /\ UNCHANGED new_key
       ELSE /\ new_key' = [new_key EXCEPT ![h] = [hash |-> req[h].body, response |-> Nil]]
            /\ Goto(h, "insert")
    /\ UNCHANGED <<tables, req, new_ticket, hits, replies, bounds>>

(* Mutant: check_idempotency_key is called, which takes a connection of its *)
(* own.                                                                     *)
ReplayOverPool(h) ==
    /\ pc[h] = "replay" /\ Connection
    /\ Answer(h, stored[KeyOf(h)])
    /\ Goto(h, "idle")
    /\ UNCHANGED <<tables, draft, hits, bounds>>

fetch_stored_response(h) ==
    /\ pc[h] = "replay"
    /\ Answer(h, stored[KeyOf(h)])
    /\ Goto(h, "idle")
    /\ UNCHANGED <<tables, draft, hits, bounds>>

Slot(h) == SlotOf[req[h].body]

(* The unique index makes the INSERT wait for another open transaction     *)
(* with the same slot, and refuses it while the slot has an active ticket. *)
InsertTicket(h) ==
    /\ pc[h] = "insert"
    /\ \A o \in Handlers \ {h} : new_ticket[o] # Nil => Slot(o) # Slot(h)
    /\ \A i \in Tickets :
          ticket[i] # Nil /\ ticket[i].status = "waiting" => SlotOf[ticket[i].body] # Slot(h)
    /\ \E i \in Tickets :
          /\ ticket[i] = Nil /\ \A o \in Handlers : new_ticket[o] # i
          /\ \A j \in Tickets : (ticket[j] = Nil /\ \A o \in Handlers : new_ticket[o] # j) => i <= j
          /\ new_ticket' = [new_ticket EXCEPT ![h] = i]
    /\ Goto(h, IF HasKey(h) THEN "finalize" ELSE "commit")
    /\ UNCHANGED <<tables, req, new_key, hits, replies, bounds>>

(* UniqueViolationError leaves the transaction: the key is rolled back too. *)
RefuseTicket(h) ==
    /\ pc[h] = "insert"
    /\ \E i \in Tickets :
          ticket[i] # Nil /\ ticket[i].status = "waiting" /\ SlotOf[ticket[i].body] = Slot(h)
    /\ Discard(h)
    /\ Reply(h, "duplicate", Nil)
    /\ Goto(h, "idle")
    /\ UNCHANGED <<tables, hits, bounds>>

(* Mutant: the placeholder stays. *)
FinalizeNothing(h) ==
    /\ pc[h] = "finalize"
    /\ Goto(h, "commit")
    /\ UNCHANGED <<tables, req, draft, hits, replies, bounds>>

finalize_idempotency_key(h) ==
    /\ pc[h] = "finalize"
    /\ new_key' = [new_key EXCEPT ![h].response = new_ticket[h]]
    /\ Goto(h, "commit")
    /\ UNCHANGED <<tables, req, new_ticket, hits, replies, bounds>>

Apply(h) ==
    /\ ticket' = [ticket EXCEPT ![new_ticket[h]] =
                    [status |-> "waiting", body |-> req[h].body, key |-> req[h].key]]
    /\ stored' = [k \in KeyIds |-> IF HasKey(h) /\ k = KeyOf(h) THEN new_key[h] ELSE stored[k]]

Commit(h) ==
    /\ pc[h] = "commit"
    /\ Apply(h)
    /\ Discard(h)
    /\ Reply(h, "created", new_ticket[h])
    /\ Goto(h, "idle")
    /\ UNCHANGED <<hits, bounds>>

(* Mutant: the key is not part of the transaction that is rolled back. *)
KeySurvives(h) ==
    /\ pc[h] # "idle"
    /\ Fault
    /\ stored' = [k \in KeyIds |-> IF new_key[h] # Nil /\ k = KeyOf(h)
                                   THEN new_key[h] ELSE stored[k]]
    /\ Discard(h)
    /\ Reply(h, "error", Nil)
    /\ Goto(h, "idle")
    /\ UNCHANGED <<ticket, hits>>

(* A statement raises (PostgreSQL or Redis is away), or the connection is  *)
(* lost at the commit, applied or not: the client is told 500, or nothing. *)
RequestFails(h) ==
    /\ pc[h] # "idle"
    /\ Fault
    /\ \/ UNCHANGED tables
       \/ pc[h] = "commit" /\ Apply(h)
    /\ Discard(h)
    /\ Reply(h, "error", Nil)
    /\ Goto(h, "idle")
    /\ UNCHANGED hits

-----------------------------------------------------------------------------
(* Next to the requests. *)

(* DELETE, when the client names a ticket that is still active. *)
cancel_ticket(i) ==
    /\ ticket[i] # Nil /\ ticket[i].status = "waiting"
    /\ ticket' = [ticket EXCEPT ![i].status = "cancelled"]
    /\ UNCHANGED <<stored, pc, req, draft, hits, replies, bounds>>

(* A worker's commit (module Matching) takes two tickets. *)
MatchTickets(i, j) ==
    /\ i # j
    /\ \A k \in {i, j} : ticket[k] # Nil /\ ticket[k].status = "waiting"
    /\ ticket' = [ticket EXCEPT ![i].status = "matched", ![j].status = "matched"]
    /\ UNCHANGED <<stored, pc, req, draft, hits, replies, bounds>>

(* A new rate bucket. *)
MinutePasses ==
    /\ \E t \in Tenants : hits[t] > 0
    /\ hits' = [t \in Tenants |-> 0]
    /\ UNCHANGED <<tables, pc, req, draft, replies, bounds>>

(* The process dies with its requests and their open transactions. *)
Crash ==
    /\ \E h \in Handlers : pc[h] # "idle"
    /\ Fault
    /\ pc' = [h \in Handlers |-> "idle"]
    /\ req' = [h \in Handlers |-> Nil]
    /\ new_key' = [h \in Handlers |-> Nil]
    /\ new_ticket' = [h \in Handlers |-> Nil]
    /\ UNCHANGED <<tables, hits, replies>>

-----------------------------------------------------------------------------
Step(h) ==
    \/ require_tenant(h)
    \/ check_idempotency_key(h) \/ check_rate_limit(h) \/ check_tenant_quota(h)
    \/ check_partition_depth(h) \/ check_db_load_shedding(h) \/ Acquire(h)
    \/ reserve_idempotency_key(h) \/ fetch_stored_response(h)
    \/ InsertTicket(h) \/ RefuseTicket(h) \/ finalize_idempotency_key(h) \/ Commit(h)

Next ==
    \/ \E h \in Handlers :
          \/ \E k \in Keys \union {Nil}, b \in Bodies : Request(h, k, b)
          \/ Step(h)
          \/ RequestFails(h)
    \/ \E i \in Tickets : cancel_ticket(i) \/ \E j \in Tickets : MatchTickets(i, j)
    \/ MinutePasses
    \/ Crash

Spec == Init /\ [][Next]_vars

-----------------------------------------------------------------------------
(* Properties. *)

(* Every variable holds a value of its type. *)
TypeOK ==
    /\ ticket \in [Tickets -> TicketRow \union {Nil}]
    /\ stored \in [KeyIds -> KeyRow \union {Nil}]
    /\ pc \in [Handlers -> InTransaction \union
                 {"idle", "tenant", "lookup", "rate", "quota", "depth", "shed",
                  "acquire"}]
    /\ req \in [Handlers -> RequestRow \union {Nil}]
    /\ \A h \in Handlers : IF pc[h] = "idle" THEN req[h] = Nil ELSE req[h] \in RequestRow
    /\ new_key \in [Handlers -> KeyRow \union {Nil}]
    /\ new_ticket \in [Handlers -> Tickets \union {Nil}]
    /\ \A h \in Handlers :
          pc[h] \notin InTransaction => new_key[h] = Nil /\ new_ticket[h] = Nil
    /\ hits \in [Tenants -> Nat]
    /\ replies \subseteq ReplyRow
    /\ sent \in 0 .. MaxRequests /\ faults \in 0 .. MaxFaults

(* README.md:65, "idempotent ticket creation to make retries safe": however *)
(* requests with one key overlap, fail or are sent again, at most one       *)
(* ticket is ever created under it.                                         *)
OneTicketPerKey ==
    \A i, j \in Tickets :
       (/\ ticket[i] # Nil /\ ticket[j] # Nil /\ ticket[i].key # Nil
        /\ ticket[i].key = ticket[j].key
        /\ TenantOf[ticket[i].body] = TenantOf[ticket[j].body]) => i = j

(* A key is stored together with its ticket or not at all: a request that   *)
(* is refused, fails or dies does not use up the key of its retry.          *)
KeysHaveTickets ==
    \A k \in KeyIds : stored[k] # Nil =>
       \E i \in Tickets : /\ ticket[i] # Nil
                          /\ stored[k] = [hash |-> ticket[i].body, response |-> i]
                          /\ k = <<TenantOf[ticket[i].body], ticket[i].key>>

(* A replay names the one ticket made under the key, with the body that is  *)
(* asked for, and never the placeholder a request in progress has written   *)
(* (idempotency.py:54-60); a conflict is told only to another body.         *)
RepliesAgree ==
    \A r \in replies :
       /\ r.kind \in {"created", "replay"} =>
             /\ r.ticket \in Tickets /\ ticket[r.ticket] # Nil
             /\ ticket[r.ticket].body = r.body
             /\ <<TenantOf[r.body], ticket[r.ticket].key>> = r.id
       /\ r.kind = "conflict" =>
             \E i \in Tickets : /\ ticket[i] # Nil /\ ticket[i].body # r.body
                                /\ <<TenantOf[ticket[i].body], ticket[i].key>> = r.id

(* Admission counts the waiting tickets before the INSERT and apart from it *)
(* (admission.py:58-82): together the requests in progress overshoot a      *)
(* tenant's quota by fewer tickets than there are requests.                 *)
OvershootIsBounded ==
    \A t \in Tenants : Cardinality(Waiting(t)) < MaxInFlight + Cardinality(Handlers)

(* Nobody waits on everybody: as long as requests are under way, one of     *)
(* them can go on, whoever holds the connections of the pool, the keys and  *)
(* the slots of the unique index.  A request that took a second connection  *)
(* inside its transaction would break it (idempotency.py:42-45).  A request *)
(* never goes back, so this is also why all of them come to an end.         *)
RequestsGoOn ==
    (\E h \in Handlers : pc[h] # "idle") => \E h \in Handlers : ENABLED Step(h)
=============================================================================
