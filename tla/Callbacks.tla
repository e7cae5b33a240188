------------------------------ MODULE Callbacks ------------------------------
(***************************************************************************)
(* The callback outbox: dispatcher processes claim rows of callback_events *)
(* in one statement, POST each claimed event to its tenant, and write the  *)
(* outcome to matches and callback_events in a transaction of its own.     *)
(*                                                                         *)
(* Time is kept as two facts about a row: live (locked_until > now()) and  *)
(* due (next_attempt_at <= now()).  The claim is one SQL statement, but    *)
(* under READ COMMITTED its snapshot, its row locks and its commit are     *)
(* three moments: Snapshot, LockRows and CommitClaim.                      *)
(***************************************************************************)
EXTENDS Naturals, FiniteSets

CONSTANTS
    Dispatchers,    \* dispatcher ids
    Events,         \* event ids; each event belongs to a match of its own
    Tenants,        \* tenant ids
    TenantOf,       \* the tenant of an event
    MaxAttempts,    \* callback_max_attempts
    TenantLimit,    \* callback_tenant_concurrency_limit
    BatchSize,      \* callback_batch_size
    Unparsable,     \* events whose callback_url httpx cannot parse
    MaxPosts,       \* bound: POSTs of an event before claims end
    MaxFaults,      \* bound: crashes, database failures and overrun locks
    Nil             \* SQL NULL, and "no event"

ASSUME FiniteAssumption == IsFiniteSet(Dispatchers) /\ IsFiniteSet(Events)
ASSUME TenantAssumption == TenantOf \in [Events -> Tenants]
ASSUME UnparsableAssumption == Unparsable \subseteq Events
ASSUME LimitAssumption ==
    /\ MaxAttempts \in Nat \ {0}
    /\ TenantLimit \in Nat
    /\ BatchSize \in Nat
    /\ MaxPosts \in Nat
    /\ MaxFaults \in Nat
ASSUME NilAssumption == Nil \notin Dispatchers \union Events

VARIABLES
    event,         \* the mutable columns of callback_events
    match_status,  \* matches.status of the event's match
    posts,         \* history: POSTs of the event that ended
    received,      \* history: the tenant answered one of them with 2xx
    faults,        \* faults so far
    pc,            \* where each dispatcher is in run_once
    picked,        \* the claim's rows, then the claimed events still to do
    known,         \* CallbackEvent.attempts of the claimed events
    current,       \* the event of the loop's current turn
    error          \* the delivery error of the current event is not None

rows == <<event, match_status>>
history == <<posts, received>>
local == <<pc, picked, known, current, error>>
vars == <<rows, history, faults, local>>

-----------------------------------------------------------------------------
Row == [status: {"none", "pending", "in_progress", "delivered", "failed"},
        attempts: Nat,
        locked_by: Dispatchers \union {Nil},
        live: BOOLEAN,
        due: BOOLEAN]

NoRow == [status |-> "none", attempts |-> 0, locked_by |-> Nil,
          live |-> FALSE, due |-> FALSE]

Settled(e) == event[e].status \in {"delivered", "failed"}

(* Event e is among those dispatcher d is working on. *)
Holds(d, e) == /\ pc[d] \in {"work", "post", "persist", "release"}
               /\ e \in picked[d] \union {current[d]}

(* An uncommitted claim has locked the row of e. *)
RowLocked(e) == \E d \in Dispatchers : pc[d] = "commit" /\ e \in picked[d]

(* RETURNING ce.attempts: what CallbackEvent.attempts holds from now on. *)
Claims(S) == [e \in Events |-> IF e \in S THEN event[e].attempts ELSE 0]

Fault == faults < MaxFaults /\ faults' = faults + 1

Goto(d, l) == pc' = [pc EXCEPT ![d] = l]

-----------------------------------------------------------------------------
Init ==
    /\ event = [e \in Events |-> NoRow]
    /\ match_status = [e \in Events |-> "created"]
    /\ posts = [e \in Events |-> 0]
    /\ received = [e \in Events |-> FALSE]
    /\ faults = 0
    /\ pc = [d \in Dispatchers |-> "idle"]
    /\ picked = [d \in Dispatchers |-> {}]
    /\ known = [d \in Dispatchers |-> [e \in Events |-> 0]]
    /\ current = [d \in Dispatchers |-> Nil]
    /\ error = [d \in Dispatchers |-> FALSE]

(* A worker commits a match together with its event. *)
InsertEvent(e) ==
    /\ event[e].status = "none"
    /\ event' = [event EXCEPT ![e].status = "pending", ![e].due = TRUE]
    /\ UNCHANGED <<match_status, history, faults, local>>

(* Time: next_attempt_at is reached. *)
BackoffPasses(e) ==
    /\ event[e].status # "none" /\ ~event[e].due
    /\ event' = [event EXCEPT ![e].due = TRUE]
    /\ UNCHANGED <<match_status, history, faults, local>>

(* Time: locked_until is reached.  It is a fault when the claimant is      *)
(* still at work on the event: a batch of slow tenants outlasts the lock.  *)
LockExpires(e) ==
    /\ event[e].live
    /\ event' = [event EXCEPT ![e].live = FALSE]
    /\ IF \E d \in Dispatchers : event[e].locked_by = d /\ Holds(d, e)
       THEN Fault
       ELSE UNCHANGED faults
    /\ UNCHANGED <<match_status, history, local>>

-----------------------------------------------------------------------------
(* The claim. *)

InFlight(t) ==
    {e \in Events : /\ TenantOf[e] = t
                    /\ event[e].status = "in_progress" /\ event[e].live}

(* Mutant: a claim that was never settled is not taken up again. *)
ReadyPendingOnly(t) ==
    {e \in Events : /\ TenantOf[e] = t
                    /\ event[e].status = "pending" /\ event[e].due}

Ready(t) ==
    {e \in Events : /\ TenantOf[e] = t
                    /\ \/ event[e].status = "pending"
                       \/ event[e].status = "in_progress" /\ ~event[e].live
                    /\ event[e].due}

(* Mutant: what is in flight does not count. *)
ShareOfReady(t) ==
    IF Cardinality(Ready(t)) <= TenantLimit THEN Cardinality(Ready(t)) ELSE TenantLimit

(* How many of a tenant's ready events have a rank within its limit. *)
Share(t) ==
    LET room == IF Cardinality(InFlight(t)) >= TenantLimit
                THEN 0 ELSE TenantLimit - Cardinality(InFlight(t))
    IN IF Cardinality(Ready(t)) <= room THEN Cardinality(Ready(t)) ELSE room

(* eligible: ORDER BY rank LIMIT BatchSize, so a tenant gets its next event *)
(* only when every other one that has as many left got it too.  Which       *)
(* events of a tenant come first (next_attempt_at, with jitter) is open.    *)
Eligible(S) ==
    /\ S \subseteq UNION {Ready(t) : t \in Tenants}
    /\ Cardinality(S) <= BatchSize
    /\ \A t \in Tenants :
          LET n == Cardinality(S \intersect Ready(t))
          IN /\ n <= Share(t)
             /\ n < Share(t) =>
                   /\ Cardinality(S) = BatchSize
                   /\ \A u \in Tenants :
                         Cardinality(S \intersect Ready(u)) <= n + 1

Snapshot(d) ==
    /\ pc[d] = "idle"
    /\ \A e \in Events : posts[e] < MaxPosts
    /\ \E S \in SUBSET Events :
          /\ Eligible(S)
          /\ picked' = [picked EXCEPT ![d] = S]
    /\ Goto(d, "lock")
    /\ UNCHANGED <<rows, history, faults, known, current, error>>

(* FOR UPDATE SKIP LOCKED: only event_id is compared again, so a row that   *)
(* was claimed or settled since the snapshot is taken all the same.  A row  *)
(* another dispatcher is writing an outcome to may be locked at that moment. *)
LockRows(d) ==
    /\ pc[d] = "lock"
    /\ \E skipped \in SUBSET {e \in picked[d] :
             \E o \in Dispatchers \ {d} :
                pc[o] \in {"persist", "release"} /\ current[o] = e} :
          picked' = [picked EXCEPT
                       ![d] = {e \in @ \ skipped : ~RowLocked(e)}]
    /\ Goto(d, "commit")
    /\ UNCHANGED <<rows, history, faults, known, current, error>>

(* Mutant: the claim already counts as an attempt. *)
ClaimCounts(d) ==
    event' = [e \in Events |->
                IF e \in picked[d]
                THEN [event[e] EXCEPT !.status = "in_progress", !.attempts = @ + 1,
                                      !.locked_by = d, !.live = TRUE]
                ELSE event[e]]

ClaimRows(d) ==
    event' = [e \in Events |->
                IF e \in picked[d]
                THEN [event[e] EXCEPT !.status = "in_progress",
                                      !.locked_by = d, !.live = TRUE]
                ELSE event[e]]

CommitClaim(d) ==
    /\ pc[d] = "commit"
    /\ ClaimRows(d)
    /\ known' = [known EXCEPT ![d] = Claims(picked[d])]
    /\ Goto(d, "work")
    /\ UNCHANGED <<match_status, history, faults, picked, current, error>>

(* Back at the top of main's loop, nothing claimed. *)
Reset(d, l) ==
    /\ Goto(d, l)
    /\ picked' = [picked EXCEPT ![d] = {}]
    /\ known' = [known EXCEPT ![d] = [e \in Events |-> 0]]
    /\ current' = [current EXCEPT ![d] = Nil]
    /\ error' = [error EXCEPT ![d] = FALSE]

(* The claim raises: rolled back, or committed with the answer lost. *)
ClaimFails(d) ==
    /\ pc[d] \in {"lock", "commit"}
    /\ Fault
    /\ \/ UNCHANGED event
       \/ pc[d] = "commit" /\ ClaimRows(d)
    /\ Reset(d, "idle")
    /\ UNCHANGED <<match_status, history>>

EndLoop(d) ==
    /\ pc[d] = "work" /\ picked[d] = {}
    /\ Reset(d, "idle")
    /\ UNCHANGED <<rows, history, faults>>

-----------------------------------------------------------------------------
(* One turn of run_once's loop: deliver_event, persist_delivery_outcome. *)

StartPost(d) ==
    /\ pc[d] = "work"
    /\ \E e \in picked[d] :
          /\ current' = [current EXCEPT ![d] = e]
          /\ picked' = [picked EXCEPT ![d] = @ \ {e}]
    /\ Goto(d, "post")
    /\ UNCHANGED <<rows, history, faults, known, error>>

(* Mutant: any answer at all counts as delivered. *)
AnswerAnyStatus(d) ==
    /\ pc[d] = "post" /\ current[d] \notin Unparsable
    /\ \E took, lost \in BOOLEAN :
          /\ received' = [received EXCEPT ![current[d]] = @ \/ took]
          /\ error' = [error EXCEPT ![d] = lost]
    /\ posts' = [posts EXCEPT ![current[d]] = @ + 1]
    /\ Goto(d, "persist")
    /\ UNCHANGED <<rows, faults, picked, known, current>>

(* The tenant takes the event (a 2xx) or not, and a 2xx may be lost on the  *)
(* way back, which the dispatcher sees as an httpx.HTTPError.               *)
Answer(d) ==
    /\ pc[d] = "post" /\ current[d] \notin Unparsable
    /\ \E took, lost \in BOOLEAN :
          /\ received' = [received EXCEPT ![current[d]] = @ \/ took]
          /\ error' = [error EXCEPT ![d] = ~took \/ lost]
    /\ posts' = [posts EXCEPT ![current[d]] = @ + 1]
    /\ Goto(d, "persist")
    /\ UNCHANGED <<rows, faults, picked, known, current>>

(* httpx.InvalidURL is no httpx.HTTPError: run_once does not catch it, and   *)
(* the rest of the batch is abandoned.                                       *)
PostRaises(d) ==
    /\ pc[d] = "post" /\ current[d] \in Unparsable
    /\ Reset(d, "idle")
    /\ UNCHANGED <<rows, history, faults>>

Unlocked(r) == [r EXCEPT !.attempts = @ + 1, !.locked_by = Nil, !.live = FALSE]

mark_delivered(e) ==
    /\ match_status' = [match_status EXCEPT ![e] = "callback_delivered"]
    /\ event' = [event EXCEPT ![e] =
                   [Unlocked(event[e]) EXCEPT !.status = "delivered"]]

(* Mutants: one attempt too few; the event is given up and its match is    *)
(* not; a retry takes the verdict of the match back.                       *)
FailsEarly(d, e) ==
    IF known[d][e] + 2 >= MaxAttempts
    THEN /\ match_status' = [match_status EXCEPT ![e] = "callback_failed"]
         /\ event' = [event EXCEPT ![e] =
                        [Unlocked(event[e]) EXCEPT !.status = "failed"]]
    ELSE /\ event' = [event EXCEPT ![e] =
                        [Unlocked(event[e]) EXCEPT !.status = "pending",
                                                   !.due = FALSE]]
         /\ UNCHANGED match_status

FailsEventOnly(d, e) ==
    /\ event' = [event EXCEPT ![e] =
                   [Unlocked(event[e]) EXCEPT
                      !.status = IF known[d][e] + 1 >= MaxAttempts
                                 THEN "failed" ELSE "pending",
                      !.due = known[d][e] + 1 >= MaxAttempts]]
    /\ UNCHANGED match_status

RetryReopensMatch(d, e) ==
    /\ match_status' = [match_status EXCEPT ![e] =
                          IF known[d][e] + 1 >= MaxAttempts
                          THEN "callback_failed" ELSE "created"]
    /\ event' = [event EXCEPT ![e] =
                    [Unlocked(event[e]) EXCEPT
                       !.status = IF known[d][e] + 1 >= MaxAttempts
                                  THEN "failed" ELSE "pending",
                       !.due = @ /\ known[d][e] + 1 >= MaxAttempts]]

mark_failed_attempt(d, e) ==
    IF known[d][e] + 1 >= MaxAttempts
    THEN /\ match_status' = [match_status EXCEPT ![e] = "callback_failed"]
         /\ event' = [event EXCEPT ![e] =
                        [Unlocked(event[e]) EXCEPT !.status = "failed"]]
    ELSE /\ event' = [event EXCEPT ![e] =
                        [Unlocked(event[e]) EXCEPT !.status = "pending",
                                                   !.due = FALSE]]
         /\ UNCHANGED match_status

(* The outcome's transaction; it waits for a claim that holds the row.  It  *)
(* asks neither for the row's status nor for locked_by.                     *)
WriteOutcome(d) ==
    LET e == current[d]
    IN /\ ~RowLocked(e)
       /\ IF error[d] THEN mark_failed_attempt(d, e) ELSE mark_delivered(e)

NextTurn(d) ==
    /\ Goto(d, "work")
    /\ known' = [known EXCEPT ![d][current[d]] = 0]
    /\ current' = [current EXCEPT ![d] = Nil]
    /\ error' = [error EXCEPT ![d] = FALSE]
    /\ UNCHANGED picked

Persist(d) ==
    /\ pc[d] = "persist"
    /\ WriteOutcome(d)
    /\ NextTurn(d)
    /\ UNCHANGED <<history, faults>>

(* Mutant: the event is forgotten before its claim is released. *)
PersistFailsForgets(d) ==
    /\ pc[d] = "persist"
    /\ Fault
    /\ WriteOutcome(d) \/ UNCHANGED rows
    /\ Goto(d, "release")
    /\ current' = [current EXCEPT ![d] = Nil]
    /\ UNCHANGED <<history, picked, known, error>>

(* Not a deadlock, or the third one: rolled back, or committed with the     *)
(* answer lost.  (The first two deadlocks only repeat the transaction.)     *)
PersistFails(d) ==
    /\ pc[d] = "persist"
    /\ Fault
    /\ WriteOutcome(d) \/ UNCHANGED rows
    /\ Goto(d, "release")
    /\ UNCHANGED <<history, picked, known, current, error>>

release_claim(e) ==
    event' = [event EXCEPT ![e].status = "pending", ![e].locked_by = Nil,
                           ![e].live = FALSE]

Release(d) ==
    /\ pc[d] = "release"
    /\ ~RowLocked(current[d])
    /\ release_claim(current[d])
    /\ NextTurn(d)
    /\ UNCHANGED <<match_status, history, faults>>

(* run_once catches what persist_delivery_outcome raises and goes on. *)
ReleaseFails(d) ==
    /\ pc[d] = "release"
    /\ Fault
    /\ NextTurn(d)
    /\ UNCHANGED <<rows, history>>

Crash(d) ==
    /\ pc[d] # "down"
    /\ Fault
    /\ Reset(d, "down")
    /\ UNCHANGED <<rows, history>>

Restart(d) ==
    /\ pc[d] = "down"
    /\ Goto(d, "idle")
    /\ UNCHANGED <<rows, history, faults, picked, known, current, error>>

-----------------------------------------------------------------------------
DispatcherStep(d) ==
    \/ Snapshot(d) \/ LockRows(d) \/ CommitClaim(d) \/ EndLoop(d)
    \/ StartPost(d) \/ Answer(d) \/ PostRaises(d)
    \/ Persist(d) \/ Release(d) \/ Restart(d)

FaultStep(d) ==
    ClaimFails(d) \/ PersistFails(d) \/ ReleaseFails(d) \/ Crash(d)

TimeStep(e) == BackoffPasses(e) \/ LockExpires(e)

Next ==
    \/ \E e \in Events : InsertEvent(e) \/ TimeStep(e)
    \/ \E d \in Dispatchers : DispatcherStep(d) \/ FaultStep(d)

(* A dispatcher keeps looping (a POST ends by its timeout, a dead pod is    *)
(* restarted) and clocks keep running.  Nothing obliges a fault.            *)
Fairness ==
    /\ \A d \in Dispatchers : WF_vars(DispatcherStep(d))
    /\ \A e \in Events : WF_vars(TimeStep(e))

Spec == Init /\ [][Next]_vars
FairSpec == Spec /\ Fairness

-----------------------------------------------------------------------------
(* Properties. *)

(* Every variable holds a value of its type. *)
TypeOK ==
    /\ event \in [Events -> Row]
    /\ match_status \in [Events ->
          {"created", "callback_delivered", "callback_failed"}]
    /\ posts \in [Events -> Nat]
    /\ received \in [Events -> BOOLEAN]
    /\ faults \in 0 .. MaxFaults
    /\ pc \in [Dispatchers -> {"idle", "lock", "commit", "work", "post",
                               "persist", "release", "down"}]
    /\ picked \in [Dispatchers -> SUBSET Events]
    /\ known \in [Dispatchers -> [Events -> Nat]]
    /\ current \in [Dispatchers -> Events \union {Nil}]
    /\ error \in [Dispatchers -> BOOLEAN]
    /\ \A d \in Dispatchers :
          pc[d] \in {"post", "persist", "release"} => current[d] \in Events

(* Neither the event nor its match is marked delivered before the tenant    *)
(* has answered a POST of it with 2xx (run_once, mark_delivered), whichever *)
(* dispatchers hold the event at the same time.                             *)
DeliveredWasReceived ==
    \A e \in Events :
       event[e].status = "delivered" \/ match_status[e] = "callback_delivered"
          => received[e]

(* Nobody gives an event up before callback_max_attempts POSTs of it were   *)
(* really made: crashes, released claims and writes with a stale           *)
(* event.attempts never use attempts up (mark_failed_attempt).              *)
GivesUpLate ==
    \A e \in Events :
       /\ event[e].attempts <= posts[e]
       /\ event[e].status = "failed" \/ match_status[e] = "callback_failed"
             => posts[e] >= MaxAttempts

(* What the outbox and GET /v1/matches say of a settled event agrees, at    *)
(* every commit and after every fault.                                      *)
OutcomesAgree ==
    \A e \in Events :
       /\ event[e].status = "delivered" => match_status[e] = "callback_delivered"
       /\ event[e].status = "failed" => match_status[e] = "callback_failed"

(* Contracts.md:344, "at-least-once delivery": every event that can be       *)
(* delivered at all is settled in the end, for good.  A claim lost to a      *)
(* crash is taken up again, retries end, and dispatchers that overlap on an  *)
(* event do not keep reviving it once faults cease.                          *)
EventsAreSettled ==
    \A e \in Events \ Unparsable : event[e].status # "none" ~> [] Settled(e)

(* A tenant's endpoint is POSTed by each dispatcher at most TenantLimit     *)
(* events at a time: what a dispatcher has claimed and not settled counts   *)
(* against its next claims, also when it crashed, its claim committed with  *)
(* the answer lost, or another dispatcher settled part of it.  The limit    *)
(* is counted per claim, so the fleet's bound is one limit per dispatcher.  *)
InFlightIsBounded ==
    \A t \in Tenants :
       /\ \A d \in Dispatchers :
             Cardinality({e \in InFlight(t) : event[e].locked_by = d}) <= TenantLimit
       /\ Cardinality(InFlight(t)) <= TenantLimit * Cardinality(Dispatchers)

Promise == INSTANCE Outbox WITH
    told <- [e \in Events |-> event[e].status # "none"],
    attempts <- posts,
    taken <- received,
    verdict <- [e \in Events |-> CASE match_status[e] = "created" -> "open"
                                   [] match_status[e] = "callback_delivered" -> "delivered"
                                   [] match_status[e] = "callback_failed" -> "failed"]

(* The dispatchers implement the outbox: every POST, every verdict and the   *)
(* change from one verdict to the other rest on what the tenant answered, a  *)
(* verdict is never taken back, and in the end there is one.                 *)
ImplementsOutbox == Promise!Spec

(* main.py:175: an event that "has exhausted retries" is "final failed".    *)
FailedIsFinal ==
    [][\A e \in Events :
          event[e].status = "failed" => event'[e].status = "failed"]_vars
=============================================================================
