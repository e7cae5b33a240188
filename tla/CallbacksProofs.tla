--------------------------- MODULE CallbacksProofs ---------------------------
(* Proofs of the safety properties of Callbacks, and that each of its steps *)
(* is a step of Outbox or none, for all constants.                          *)
EXTENDS CallbacksInv, FiniteSetTheorems, FunctionTheorems, TLAPS

(* The two halves of TypeOK: tables and history, dispatchers. *)
RowsOK ==
    /\ event \in [Events -> Row]
    /\ match_status \in [Events -> {"created", "callback_delivered", "callback_failed"}]
    /\ posts \in [Events -> Nat]
    /\ received \in [Events -> BOOLEAN]
    /\ faults \in 0 .. MaxFaults

LocalOK ==
    /\ pc \in [Dispatchers -> {"idle", "lock", "commit", "work", "post",
                               "persist", "release", "down"}]
    /\ picked \in [Dispatchers -> SUBSET Events]
    /\ known \in [Dispatchers -> [Events -> Nat]]
    /\ current \in [Dispatchers -> Events \union {Nil}]
    /\ error \in [Dispatchers -> BOOLEAN]
    /\ \A d \in Dispatchers : pc[d] \in InTurn => current[d] \in Events

(* The type invariant is these two. *)
LEMMA TypeSplit == TypeOK <=> RowsOK /\ LocalOK
  BY DEF TypeOK, RowsOK, LocalOK, InTurn

-----------------------------------------------------------------------------
(* Sets that are counted are finite. *)

(* The dispatchers that owe an outcome of e are finitely many. *)
LEMMA OutstandingFinite ==
    \A e : IsFiniteSet(Outstanding(e)) /\ Cardinality(Outstanding(e)) \in Nat
  BY FS_Subset, FS_CardinalityType, FiniteAssumption DEF Outstanding

(* A set of events can be counted, and a part of it counts no more. *)
LEMMA EventsCount ==
    ASSUME NEW S \in SUBSET Events, NEW T \in SUBSET S
    PROVE  /\ IsFiniteSet(S) /\ IsFiniteSet(T)
           /\ Cardinality(S) \in Nat /\ Cardinality(T) \in Nat
           /\ Cardinality(T) <= Cardinality(S)
  <1>1. IsFiniteSet(S)
    BY FS_Subset, FiniteAssumption
  <1>2. IsFiniteSet(T) /\ Cardinality(T) <= Cardinality(S)
    BY <1>1, FS_Subset
  <1> QED
    BY <1>1, <1>2, FS_CardinalityType

(* A dispatcher that begins to owe an outcome is one more, and one that    *)
(* wrote it is one less.                                                   *)
LEMMA OutstandingCount ==
    ASSUME NEW d \in Dispatchers, NEW e
    PROVE  /\ Outstanding(e)' = Outstanding(e) \union {d} /\ d \notin Outstanding(e)
              => Cardinality(Outstanding(e)') = Cardinality(Outstanding(e)) + 1
           /\ Outstanding(e)' = Outstanding(e) \ {d} /\ d \in Outstanding(e)
              => Cardinality(Outstanding(e)') = Cardinality(Outstanding(e)) - 1
           /\ Outstanding(e)' \subseteq Outstanding(e)
              => Cardinality(Outstanding(e)') <= Cardinality(Outstanding(e))
  BY OutstandingFinite, FS_AddElement, FS_RemoveElement, FS_Subset

-----------------------------------------------------------------------------
(* What the writes do to the rows. *)

(* The claim of d gives it the rows it has picked, and changes no other. *)
LEMMA ClaimRowsLemma ==
    ASSUME TypeOK, NEW d \in Dispatchers, ClaimRows(d)
    PROVE  /\ event' \in [Events -> Row]
           /\ \A e \in Events :
                 /\ event'[e].attempts = event[e].attempts
                 /\ e \notin picked[d] => event'[e] = event[e]
                 /\ e \in picked[d] =>
                       event'[e].status = "in_progress" /\ event'[e].locked_by = d
  <1>1. ASSUME NEW e \in Events
        PROVE  /\ [event[e] EXCEPT !.status = "in_progress", !.locked_by = d, !.live = TRUE] \in Row
               /\ event[e] \in Row
    <2> DEFINE q == [event[e] EXCEPT !.status = "in_progress"]
    <2>1. event[e] \in Row
      BY DEF TypeOK
    <2>2. q \in Row
      BY <2>1 DEF Row
    <2> HIDE DEF q
    <2>3. [q EXCEPT !.locked_by = d, !.live = TRUE] \in Row
      BY <2>2 DEF Row
    <2> QED
      BY <2>1, <2>3 DEF q
  <1>2. ASSUME NEW e \in Events
        PROVE  event'[e] = IF e \in picked[d]
                           THEN [event[e] EXCEPT !.status = "in_progress", !.locked_by = d, !.live = TRUE]
                           ELSE event[e]
    BY DEF ClaimRows
  <1>3. event' \in [Events -> Row]
    BY <1>1 DEF ClaimRows
  <1>4. ASSUME NEW e \in Events, e \in picked[d]
        PROVE  /\ event'[e].attempts = event[e].attempts
               /\ event'[e].status = "in_progress" /\ event'[e].locked_by = d
    BY <1>1, <1>2, <1>4 DEF Row
  <1> QED
    BY <1>2, <1>3, <1>4

(* The row of an event whose outcome is written. *)
LEMMA UnlockedLemma ==
    ASSUME NEW r \in Row
    PROVE  /\ Unlocked(r) \in Row
           /\ Unlocked(r).attempts = r.attempts + 1
           /\ Unlocked(r).locked_by = Nil /\ Unlocked(r).live = FALSE
  <1>1. Unlocked(r).attempts = r.attempts + 1
    BY DEF Unlocked, Row
  <1>2. Unlocked(r).locked_by = Nil /\ Unlocked(r).live = FALSE
    BY DEF Unlocked, Row
  <1>3. Unlocked(r) \in Row
    <2> DEFINE q == [r EXCEPT !.attempts = @ + 1]
    <2>1. q \in Row
      BY DEF Row
    <2>2. Unlocked(r) = [q EXCEPT !.locked_by = Nil, !.live = FALSE]
      BY DEF Unlocked
    <2> HIDE DEF q
    <2>3. [q EXCEPT !.locked_by = Nil, !.live = FALSE] \in Row
      BY <2>1 DEF Row
    <2> QED
      BY <2>2, <2>3
  <1> QED
    BY <1>1, <1>2, <1>3

(* An outcome touches its own event and match, and is one of three.        *)
LEMMA OutcomeLemma ==
    ASSUME TypeOK, NEW d \in Dispatchers, pc[d] = "persist", WriteOutcome(d)
    PROVE  /\ event' \in [Events -> Row]
           /\ match_status' \in [Events -> {"created", "callback_delivered", "callback_failed"}]
           /\ \A x \in Events \ {current[d]} :
                 event'[x] = event[x] /\ match_status'[x] = match_status[x]
           /\ event'[current[d]].attempts = event[current[d]].attempts + 1
           /\ event'[current[d]].status \in {"delivered", "failed", "pending"}
           /\ event'[current[d]].live = FALSE
           /\ \/ /\ ~error[d]
                 /\ event'[current[d]].status = "delivered"
                 /\ match_status'[current[d]] = "callback_delivered"
              \/ /\ error[d]
                 /\ known[d][current[d]] + 1 >= MaxAttempts
                 /\ event'[current[d]].status = "failed"
                 /\ match_status'[current[d]] = "callback_failed"
              \/ /\ error[d]
                 /\ event'[current[d]].status = "pending"
                 /\ match_status' = match_status
  <1> DEFINE e == current[d]
  <1>1. e \in Events /\ event[e] \in Row
    BY DEF TypeOK
  <1>2. /\ Unlocked(event[e]) \in Row
        /\ Unlocked(event[e]).attempts = event[e].attempts + 1
        /\ Unlocked(event[e]).live = FALSE
    BY <1>1, UnlockedLemma
  <1>3. ASSUME NEW r \in Row, event' = [event EXCEPT ![e] = r]
        PROVE  event' \in [Events -> Row] /\ event'[e] = r
               /\ \A x \in Events \ {e} : event'[x] = event[x]
    BY <1>1, <1>3 DEF TypeOK
  <1>4. \A s \in {"delivered", "failed", "pending"} :
           [Unlocked(event[e]) EXCEPT !.status = s] \in Row
    BY <1>2 DEF Row
  <1>5. [Unlocked(event[e]) EXCEPT !.status = "pending", !.due = FALSE] \in Row
    BY <1>2 DEF Row
  <1>6. CASE ~error[d]
    <2>1. mark_delivered(e)
      BY <1>6 DEF WriteOutcome
    <2>2. /\ event' \in [Events -> Row]
          /\ event'[e] = [Unlocked(event[e]) EXCEPT !.status = "delivered"]
          /\ \A x \in Events \ {e} : event'[x] = event[x]
      BY <1>3, <1>4, <2>1 DEF mark_delivered
    <2>3. /\ match_status'[e] = "callback_delivered"
          /\ match_status' \in [Events -> {"created", "callback_delivered", "callback_failed"}]
          /\ \A x \in Events \ {e} : match_status'[x] = match_status[x]
      BY <1>1, <2>1 DEF mark_delivered, TypeOK
    <2>4. event'[e].status = "delivered" /\ event'[e].live = FALSE
          /\ event'[e].attempts = event[e].attempts + 1
      BY <1>2, <2>2 DEF Row
    <2> QED
      BY <1>6, <2>2, <2>3, <2>4
  <1>7. CASE error[d] /\ known[d][e] + 1 >= MaxAttempts
    <2>1. /\ match_status' = [match_status EXCEPT ![e] = "callback_failed"]
          /\ event' = [event EXCEPT ![e] = [Unlocked(event[e]) EXCEPT !.status = "failed"]]
      BY <1>7 DEF WriteOutcome, mark_failed_attempt
    <2>2. /\ event' \in [Events -> Row]
          /\ event'[e] = [Unlocked(event[e]) EXCEPT !.status = "failed"]
          /\ \A x \in Events \ {e} : event'[x] = event[x]
      BY <1>3, <1>4, <2>1
    <2>3. /\ match_status'[e] = "callback_failed"
          /\ match_status' \in [Events -> {"created", "callback_delivered", "callback_failed"}]
          /\ \A x \in Events \ {e} : match_status'[x] = match_status[x]
      BY <1>1, <2>1 DEF TypeOK
    <2>4. event'[e].status = "failed" /\ event'[e].live = FALSE
          /\ event'[e].attempts = event[e].attempts + 1
      BY <1>2, <2>2 DEF Row
    <2> QED
      BY <1>7, <2>2, <2>3, <2>4
  <1>8. CASE error[d] /\ ~(known[d][e] + 1 >= MaxAttempts)
    <2>1. /\ match_status' = match_status
          /\ event' = [event EXCEPT ![e] =
                         [Unlocked(event[e]) EXCEPT !.status = "pending", !.due = FALSE]]
      BY <1>8 DEF WriteOutcome, mark_failed_attempt
    <2>2. /\ event' \in [Events -> Row]
          /\ event'[e] = [Unlocked(event[e]) EXCEPT !.status = "pending", !.due = FALSE]
          /\ \A x \in Events \ {e} : event'[x] = event[x]
      BY <1>3, <1>5, <2>1
    <2>3. event'[e].status = "pending" /\ event'[e].live = FALSE
          /\ event'[e].attempts = event[e].attempts + 1
      BY <1>2, <2>2 DEF Row
    <2> QED
      BY <1>8, <2>1, <2>2, <2>3 DEF TypeOK
  <1> QED
    BY <1>6, <1>7, <1>8 DEF TypeOK

-----------------------------------------------------------------------------
(* What each part of the invariant rests on. *)

(* Verdicts stand while matches do, and the outbox settles nothing more.   *)
LEMMA VerdictsKept ==
    ASSUME VerdictsRest, posts \in [Events -> Nat], posts' \in [Events -> Nat],
           UNCHANGED match_status,
           \A e \in Events : received[e] => received'[e],
           \A e \in Events : posts'[e] >= posts[e],
           \A e \in Events : event'[e].status \in {"delivered", "failed"}
                                => event'[e].status = event[e].status
    PROVE  VerdictsRest'
  BY LimitAssumption DEF VerdictsRest

(* Attempts are counted as before, and nobody owes an outcome who did not. *)
LEMMA AttemptsKept ==
    ASSUME TypeOK, AttemptsWereMade, UNCHANGED posts,
           \A e \in Events : event'[e].attempts = event[e].attempts,
           \A o \in Dispatchers : pc'[o] = "persist" => pc[o] = "persist" /\ current'[o] = current[o]
    PROVE  AttemptsWereMade'
  <1>1. \A e : Outstanding(e)' \subseteq Outstanding(e)
    BY DEF Outstanding
  <1>2. \A e : Cardinality(Outstanding(e)') <= Cardinality(Outstanding(e))
               /\ Cardinality(Outstanding(e)') \in Nat
    BY <1>1, OutstandingFinite, FS_Subset, FS_CardinalityType
  <1> SUFFICES ASSUME NEW e \in Events
               PROVE  event'[e].attempts + Cardinality(Outstanding(e)') <= posts'[e]
    BY DEF AttemptsWereMade
  <1>3. event[e].attempts \in Nat /\ posts[e] \in Nat /\ Cardinality(Outstanding(e)) \in Nat
    BY OutstandingFinite DEF TypeOK, Row
  <1>4. event[e].attempts + Cardinality(Outstanding(e)) <= posts[e]
    BY DEF AttemptsWereMade
  <1> QED
    BY <1>2, <1>3, <1>4

(* A dispatcher's share shrinks when it claims nothing and starts nothing. *)
LEMMA SharesKept ==
    ASSUME TypeOK, SharesAreKept,
           \A d \in Dispatchers : \A t \in Tenants :
              (OwnInFlight(d, t) \union BeingClaimed(d, t))'
                 \subseteq OwnInFlight(d, t) \union BeingClaimed(d, t)
    PROVE  SharesAreKept'
  <1> SUFFICES ASSUME NEW d \in Dispatchers, NEW t \in Tenants
               PROVE  Cardinality(OwnInFlight(d, t) \union BeingClaimed(d, t))' <= TenantLimit
    BY DEF SharesAreKept
  <1> DEFINE S == OwnInFlight(d, t) \union BeingClaimed(d, t)
  <1>1. S \in SUBSET Events
    BY DEF OwnInFlight, InFlight, BeingClaimed, TypeOK
  <1>2. S' \in SUBSET S
    OBVIOUS
  <1>3. Cardinality(S) <= TenantLimit
    BY DEF SharesAreKept
  <1> HIDE DEF S
  <1>4. Cardinality(S') <= Cardinality(S) /\ Cardinality(S') \in Nat /\ Cardinality(S) \in Nat
    BY <1>1, <1>2, EventsCount
  <1>5. Cardinality(S') <= TenantLimit
    BY <1>3, <1>4, LimitAssumption
  <1> QED
    BY <1>5 DEF S

-----------------------------------------------------------------------------
(* The initial state. *)

(* The invariant holds of an empty outbox and idle dispatchers. *)
LEMMA InitInv == Init => IInv
  <1> SUFFICES ASSUME Init PROVE IInv
    OBVIOUS
  <1>1. TypeOK
    <2>1. NoRow \in Row
      BY DEF NoRow, Row
    <2>2. RowsOK
      BY <2>1, LimitAssumption DEF Init, RowsOK
    <2>3. LocalOK
      BY DEF Init, LocalOK, InTurn
    <2> QED
      BY <2>2, <2>3, TypeSplit
  <1>2. EventsAreTold /\ VerdictsRest /\ NoErrorIsReceipt /\ KnownIsPast /\ ClaimsAreOwned
    BY DEF Init, EventsAreTold, InTurn, VerdictsRest, NoErrorIsReceipt, KnownIsPast,
           ClaimsAreOwned, NoRow
  <1>3. AttemptsWereMade
    <2>1. \A e \in Events : Outstanding(e) = {}
      BY DEF Init, Outstanding
    <2>2. \A e \in Events : event[e].attempts = 0 /\ posts[e] = 0
      BY DEF Init, NoRow
    <2> QED
      BY <2>1, <2>2, FS_EmptySet DEF AttemptsWereMade
  <1>4. SharesAreKept
    <2>1. \A d \in Dispatchers, t \in Tenants : OwnInFlight(d, t) \union BeingClaimed(d, t) = {}
      BY DEF Init, OwnInFlight, InFlight, BeingClaimed, NoRow
    <2> QED
      BY <2>1, FS_EmptySet, LimitAssumption DEF SharesAreKept
  <1> QED
    BY <1>1, <1>2, <1>3, <1>4 DEF IInv

-----------------------------------------------------------------------------
(* The worker and the clock. *)

(* What the worker and the clock do to a row touches no claim's count, and *)
(* settles nothing.                                                        *)
LEMMA RowStepKeeps ==
    ASSUME IInv, event' \in [Events -> Row], faults' \in 0 .. MaxFaults,
           UNCHANGED <<match_status, history, local>>,
           \A e \in Events :
              /\ event'[e].attempts = event[e].attempts
              /\ event'[e].locked_by = event[e].locked_by
              /\ event'[e].live => event[e].live
              /\ event'[e].status = event[e].status
                 \/ (event[e].status = "none" /\ event'[e].status = "pending")
    PROVE  IInv'
  <1>1. /\ match_status' = match_status /\ posts' = posts /\ received' = received
        /\ pc' = pc /\ picked' = picked /\ known' = known /\ current' = current /\ error' = error
    BY DEF history, local
  <1>2. TypeOK /\ EventsAreTold /\ VerdictsRest /\ NoErrorIsReceipt /\ AttemptsWereMade
        /\ KnownIsPast /\ ClaimsAreOwned /\ SharesAreKept
    BY DEF IInv
  <1>3. TypeOK'
    BY <1>1, <1>2 DEF TypeOK
  <1>4. EventsAreTold' /\ NoErrorIsReceipt' /\ KnownIsPast' /\ ClaimsAreOwned'
    <2>1. \A d \in Dispatchers : picked[d] \subseteq Events
                                 /\ (pc[d] \in InTurn => current[d] \in Events)
      BY <1>2, TypeSplit DEF LocalOK
    <2>2. EventsAreTold'
      BY <1>1, <1>2, <2>1 DEF EventsAreTold
    <2> QED
      BY <1>1, <1>2, <2>2 DEF NoErrorIsReceipt, KnownIsPast, ClaimsAreOwned
  <1>5. VerdictsRest'
    BY <1>1, <1>2 DEF VerdictsRest
  <1>6. AttemptsWereMade'
    BY <1>1, <1>2, AttemptsKept DEF TypeOK
  <1>7. SharesAreKept'
    <2>1. ASSUME NEW d \in Dispatchers, NEW t \in Tenants
          PROVE  (OwnInFlight(d, t) \union BeingClaimed(d, t))'
                    \subseteq OwnInFlight(d, t) \union BeingClaimed(d, t)
      BY <1>1 DEF OwnInFlight, InFlight, BeingClaimed
    <2> QED
      BY <1>2, <2>1, SharesKept
  <1> QED
    BY <1>3, <1>4, <1>5, <1>6, <1>7 DEF IInv

(* A new event is in nobody's hands. *)
LEMMA InsertKeeps ==
    ASSUME IInv, NEW e \in Events, InsertEvent(e) PROVE IInv'
  <1>1. event[e] \in Row /\ event \in [Events -> Row] /\ event[e].status = "none"
    BY DEF InsertEvent, IInv, TypeOK
  <1>2. event' = [event EXCEPT ![e] = [event[e] EXCEPT !.status = "pending", !.due = TRUE]]
    BY <1>1 DEF InsertEvent
  <1>3. [event[e] EXCEPT !.status = "pending", !.due = TRUE] \in Row
    BY <1>1 DEF Row
  <1>4. \A x \in Events :
           /\ event'[x].attempts = event[x].attempts /\ event'[x].locked_by = event[x].locked_by
           /\ event'[x].live = event[x].live
           /\ event'[x].status = IF x = e THEN "pending" ELSE event[x].status
    BY <1>1, <1>2 DEF Row
  <1>5. UNCHANGED <<match_status, history, faults, local>> /\ faults \in 0 .. MaxFaults
    BY DEF InsertEvent, IInv, TypeOK
  <1> QED
    BY <1>1, <1>2, <1>3, <1>4, <1>5, RowStepKeeps

(* An event that becomes due stays whose it is. *)
LEMMA BackoffKeeps ==
    ASSUME IInv, NEW e \in Events, BackoffPasses(e) PROVE IInv'
  <1>1. event[e] \in Row /\ event \in [Events -> Row]
    BY DEF IInv, TypeOK
  <1>2. event' = [event EXCEPT ![e] = [event[e] EXCEPT !.due = TRUE]]
    BY <1>1 DEF BackoffPasses
  <1>3. [event[e] EXCEPT !.due = TRUE] \in Row
    BY <1>1 DEF Row
  <1>4. \A x \in Events :
           /\ event'[x].attempts = event[x].attempts /\ event'[x].locked_by = event[x].locked_by
           /\ event'[x].live = event[x].live /\ event'[x].status = event[x].status
    BY <1>1, <1>2 DEF Row
  <1>5. UNCHANGED <<match_status, history, faults, local>> /\ faults \in 0 .. MaxFaults
    BY DEF BackoffPasses, IInv, TypeOK
  <1> QED
    BY <1>1, <1>2, <1>3, <1>4, <1>5, RowStepKeeps

(* A lock that runs out leaves locked_by and status as they are. *)
LEMMA ExpiryKeeps ==
    ASSUME IInv, NEW e \in Events, LockExpires(e) PROVE IInv'
  <1>1. event[e] \in Row /\ event \in [Events -> Row]
    BY DEF IInv, TypeOK
  <1>2. event' = [event EXCEPT ![e] = [event[e] EXCEPT !.live = FALSE]]
    BY <1>1 DEF LockExpires
  <1>3. [event[e] EXCEPT !.live = FALSE] \in Row
    BY <1>1 DEF Row
  <1>4. \A x \in Events :
           /\ event'[x].attempts = event[x].attempts /\ event'[x].locked_by = event[x].locked_by
           /\ event'[x].live => event[x].live
           /\ event'[x].status = event[x].status
    BY <1>1, <1>2 DEF Row
  <1>5. UNCHANGED <<match_status, history, local>> /\ faults' \in 0 .. MaxFaults
    BY LimitAssumption DEF LockExpires, Fault, IInv, TypeOK
  <1> QED
    BY <1>1, <1>2, <1>3, <1>4, <1>5, RowStepKeeps

-----------------------------------------------------------------------------
(* Steps of a dispatcher that write nothing to the tables. *)

(* Such a step keeps the invariant if it takes hold of announced events    *)
(* only, forgets attempts at most, and stays within the tenants' limits.   *)
LEMMA LocalStepKeeps ==
    ASSUME IInv, NEW d \in Dispatchers, UNCHANGED <<rows, history>>,
           faults' \in 0 .. MaxFaults, LocalOK',
           \A o \in Dispatchers \ {d} :
              /\ pc'[o] = pc[o] /\ picked'[o] = picked[o] /\ known'[o] = known[o]
              /\ current'[o] = current[o] /\ error'[o] = error[o],
           \A e \in picked'[d] : event[e].status # "none",
           pc'[d] \in InTurn => event[current'[d]].status # "none",
           pc'[d] # "persist",
           \A e \in Events : known'[d][e] = known[d][e] \/ known'[d][e] = 0,
           \A t \in Tenants : Cardinality(OwnInFlight(d, t) \union BeingClaimed(d, t))' <= TenantLimit
    PROVE  IInv'
  <1>1. event' = event /\ match_status' = match_status /\ posts' = posts /\ received' = received
    BY DEF rows, history
  <1>2. TypeOK /\ EventsAreTold /\ VerdictsRest /\ NoErrorIsReceipt /\ AttemptsWereMade
        /\ KnownIsPast /\ ClaimsAreOwned /\ SharesAreKept
    BY DEF IInv
  <1>3. TypeOK'
    <2>1. RowsOK'
      BY <1>1, <1>2, TypeSplit DEF RowsOK
    <2> QED
      BY <2>1, TypeSplit DEF TypeOK, RowsOK, LocalOK, InTurn
  <1>4. EventsAreTold'
    <2> SUFFICES ASSUME NEW o \in Dispatchers
                 PROVE  /\ \A e \in picked'[o] : event'[e].status # "none"
                        /\ pc'[o] \in InTurn => event'[current'[o]].status # "none"
      BY DEF EventsAreTold
    <2>1. CASE o = d
      BY <1>1, <2>1
    <2>2. CASE o # d
      BY <1>1, <1>2, <2>2 DEF EventsAreTold
    <2> QED
      BY <2>1, <2>2
  <1>5. VerdictsRest' /\ ClaimsAreOwned'
    BY <1>1, <1>2 DEF VerdictsRest, ClaimsAreOwned
  <1>6. NoErrorIsReceipt'
    BY <1>1, <1>2 DEF NoErrorIsReceipt
  <1>7. AttemptsWereMade'
    BY <1>1, <1>2, AttemptsKept
  <1>8. KnownIsPast'
    <2>1. \A e \in Events : event[e].attempts \in Nat
      BY <1>2 DEF TypeOK, Row
    <2>2. \A e \in Events : known'[d][e] <= event[e].attempts
      BY <1>2, <2>1 DEF KnownIsPast
    <2> QED
      BY <1>1, <1>2, <2>2 DEF KnownIsPast
  <1>9. SharesAreKept'
    <2> SUFFICES ASSUME NEW o \in Dispatchers, NEW t \in Tenants
                 PROVE  Cardinality(OwnInFlight(o, t) \union BeingClaimed(o, t))' <= TenantLimit
      BY DEF SharesAreKept
    <2>1. CASE o = d
      BY <2>1
    <2>2. CASE o # d
      <3>1. OwnInFlight(o, t)' = OwnInFlight(o, t) /\ BeingClaimed(o, t)' = BeingClaimed(o, t)
        BY <1>1, <2>2 DEF OwnInFlight, InFlight, BeingClaimed
      <3> QED
        BY <1>2, <3>1 DEF SharesAreKept
    <2> QED
      BY <2>1, <2>2
  <1> QED
    BY <1>3, <1>4, <1>5, <1>6, <1>7, <1>8, <1>9 DEF IInv

(* What a dispatcher has in flight alone is within the limit. *)
LEMMA OwnInFlightBound ==
    ASSUME TypeOK, SharesAreKept, NEW d \in Dispatchers, NEW t \in Tenants
    PROVE  Cardinality(OwnInFlight(d, t)) <= TenantLimit
  <1>1. OwnInFlight(d, t) \union BeingClaimed(d, t) \in SUBSET Events
    BY DEF OwnInFlight, InFlight, BeingClaimed, TypeOK
  <1> DEFINE S == OwnInFlight(d, t) \union BeingClaimed(d, t)
             T == OwnInFlight(d, t)
  <1>2. T \in SUBSET S /\ Cardinality(S) <= TenantLimit
    BY DEF SharesAreKept
  <1> HIDE DEF S, T
  <1>3. Cardinality(T) <= Cardinality(S) /\ Cardinality(T) \in Nat /\ Cardinality(S) \in Nat
    BY <1>1, <1>2, EventsCount DEF S
  <1>4. Cardinality(T) <= TenantLimit
    BY <1>2, <1>3, LimitAssumption
  <1> QED
    BY <1>4 DEF T

(* A step that claims nothing more, and leaves the rows, stays within the  *)
(* limits.                                                                 *)
LEMMA LocalShares ==
    ASSUME TypeOK, SharesAreKept, NEW d \in Dispatchers, UNCHANGED event,
           pc'[d] \in Claiming => pc[d] \in Claiming /\ picked'[d] \subseteq picked[d],
           NEW t \in Tenants
    PROVE  Cardinality(OwnInFlight(d, t) \union BeingClaimed(d, t))' <= TenantLimit
  <1> DEFINE S == OwnInFlight(d, t) \union BeingClaimed(d, t)
  <1>1. S \in SUBSET Events
    BY DEF OwnInFlight, InFlight, BeingClaimed, TypeOK
  <1>2. S' \in SUBSET S
    BY DEF OwnInFlight, InFlight, BeingClaimed
  <1>3. Cardinality(S) <= TenantLimit
    BY DEF SharesAreKept
  <1> HIDE DEF S
  <1>4. Cardinality(S') <= Cardinality(S) /\ Cardinality(S') \in Nat /\ Cardinality(S) \in Nat
    BY <1>1, <1>2, EventsCount
  <1>5. Cardinality(S') <= TenantLimit
    BY <1>3, <1>4, LimitAssumption
  <1> QED
    BY <1>5 DEF S

(* A dispatcher that starts over has nothing in hand. *)
LEMMA ResetLemma ==
    ASSUME LocalOK, NEW d \in Dispatchers, NEW l \in {"idle", "down"}, Reset(d, l)
    PROVE  /\ LocalOK'
           /\ pc'[d] = l /\ picked'[d] = {} /\ \A e \in Events : known'[d][e] = 0
           /\ \A o \in Dispatchers \ {d} :
                 /\ pc'[o] = pc[o] /\ picked'[o] = picked[o] /\ known'[o] = known[o]
                 /\ current'[o] = current[o] /\ error'[o] = error[o]
  <1>1. /\ pc' = [pc EXCEPT ![d] = l]
        /\ picked' = [picked EXCEPT ![d] = {}]
        /\ known' = [known EXCEPT ![d] = [e \in Events |-> 0]]
        /\ current' = [current EXCEPT ![d] = Nil]
        /\ error' = [error EXCEPT ![d] = FALSE]
    BY DEF Reset, Goto
  <1>2. [e \in Events |-> 0] \in [Events -> Nat]
    OBVIOUS
  <1>3. known' \in [Dispatchers -> [Events -> Nat]]
    BY <1>1, <1>2 DEF LocalOK
  <1> QED
    BY <1>1, <1>3 DEF LocalOK, InTurn

(* Starting over without a write keeps the invariant. *)
LEMMA ResetKeeps ==
    ASSUME IInv, NEW d \in Dispatchers, NEW l \in {"idle", "down"}, Reset(d, l),
           UNCHANGED <<rows, history>>, faults' \in 0 .. MaxFaults
    PROVE  IInv'
  <1>1. TypeOK /\ LocalOK /\ SharesAreKept
    BY TypeSplit DEF IInv
  <1>2. /\ LocalOK'
        /\ pc'[d] = l /\ picked'[d] = {} /\ \A e \in Events : known'[d][e] = 0
        /\ \A o \in Dispatchers \ {d} :
              /\ pc'[o] = pc[o] /\ picked'[o] = picked[o] /\ known'[o] = known[o]
              /\ current'[o] = current[o] /\ error'[o] = error[o]
    BY <1>1, ResetLemma
  <1>3. pc'[d] \notin InTurn /\ pc'[d] # "persist" /\ pc'[d] \notin Claiming
    BY <1>2 DEF InTurn, Claiming
  <1>4. \A t \in Tenants : Cardinality(OwnInFlight(d, t) \union BeingClaimed(d, t))' <= TenantLimit
    BY <1>1, <1>3, LocalShares DEF rows
  <1> QED
    BY <1>2, <1>3, <1>4, LocalStepKeeps

(* The end of a batch. *)
LEMMA EndKeeps ==
    ASSUME IInv, NEW d \in Dispatchers, EndLoop(d) PROVE IInv'
  <1>1. Reset(d, "idle") /\ UNCHANGED <<rows, history>> /\ faults' \in 0 .. MaxFaults
    BY DEF EndLoop, IInv, TypeOK
  <1> QED
    BY <1>1, ResetKeeps

(* A URL that cannot be parsed gives the batch up, and no row is written. *)
LEMMA RaiseKeeps ==
    ASSUME IInv, NEW d \in Dispatchers, PostRaises(d) PROVE IInv'
  <1>1. Reset(d, "idle") /\ UNCHANGED <<rows, history>> /\ faults' \in 0 .. MaxFaults
    BY DEF PostRaises, IInv, TypeOK
  <1> QED
    BY <1>1, ResetKeeps

(* A dispatcher that dies leaves its claims in the table. *)
LEMMA CrashKeeps ==
    ASSUME IInv, NEW d \in Dispatchers, Crash(d) PROVE IInv'
  <1>1. Reset(d, "down") /\ UNCHANGED <<rows, history>> /\ faults' \in 0 .. MaxFaults
    BY LimitAssumption DEF Crash, Fault, IInv, TypeOK
  <1> QED
    BY <1>1, ResetKeeps

(* A restarted dispatcher begins with nothing in hand. *)
LEMMA RestartKeeps ==
    ASSUME IInv, NEW d \in Dispatchers, Restart(d) PROVE IInv'
  <1>1. /\ pc' = [pc EXCEPT ![d] = "idle"] /\ pc[d] = "down"
        /\ event' = event /\ UNCHANGED <<rows, history, faults, picked, known, current, error>>
    BY DEF Restart, Goto, rows
  <1>2. TypeOK /\ LocalOK /\ SharesAreKept /\ EventsAreTold
    BY TypeSplit DEF IInv
  <1>3. LocalOK' /\ pc'[d] = "idle" /\ faults' \in 0 .. MaxFaults
    BY <1>1, <1>2 DEF LocalOK, InTurn, TypeOK
  <1>4. pc'[d] \notin InTurn /\ pc'[d] \notin Claiming /\ pc'[d] # "persist"
    BY <1>3 DEF InTurn, Claiming
  <1>5. \A t \in Tenants : Cardinality(OwnInFlight(d, t) \union BeingClaimed(d, t))' <= TenantLimit
    BY <1>1, <1>2, <1>4, LocalShares
  <1>6. \A e \in picked'[d] : event[e].status # "none"
    BY <1>1, <1>2 DEF EventsAreTold
  <1>7. \A o \in Dispatchers \ {d} : pc'[o] = pc[o]
    BY <1>1, <1>2 DEF LocalOK
  <1> QED
    BY <1>1, <1>3, <1>4, <1>5, <1>6, <1>7, LocalStepKeeps

(* A turn begins with an event of the batch. *)
LEMMA StartPostKeeps ==
    ASSUME IInv, NEW d \in Dispatchers, StartPost(d) PROVE IInv'
  <1>1. PICK e \in picked[d] : /\ current' = [current EXCEPT ![d] = e]
                               /\ picked' = [picked EXCEPT ![d] = @ \ {e}]
    BY DEF StartPost
  <1>2. /\ pc' = [pc EXCEPT ![d] = "post"]
        /\ event' = event /\ UNCHANGED <<rows, history, faults, known, error>>
    BY DEF StartPost, Goto, rows
  <1>3. TypeOK /\ LocalOK /\ SharesAreKept /\ EventsAreTold /\ e \in Events
    BY TypeSplit DEF IInv, TypeOK
  <1>4. LocalOK' /\ pc'[d] = "post" /\ current'[d] = e /\ picked'[d] \subseteq picked[d]
        /\ faults' \in 0 .. MaxFaults
    BY <1>1, <1>2, <1>3 DEF LocalOK, InTurn, TypeOK
  <1>5. pc'[d] \notin Claiming /\ pc'[d] # "persist"
    BY <1>4 DEF Claiming
  <1>6. \A t \in Tenants : Cardinality(OwnInFlight(d, t) \union BeingClaimed(d, t))' <= TenantLimit
    BY <1>2, <1>3, <1>5, LocalShares
  <1>7. \A x \in picked'[d] \union {current'[d]} : event[x].status # "none"
    BY <1>3, <1>4 DEF EventsAreTold
  <1>8. \A o \in Dispatchers \ {d} : /\ pc'[o] = pc[o] /\ picked'[o] = picked[o]
                                     /\ current'[o] = current[o]
    BY <1>1, <1>2, <1>3 DEF LocalOK
  <1> QED
    BY <1>2, <1>4, <1>5, <1>6, <1>7, <1>8, LocalStepKeeps

(* A turn ends with the event forgotten. *)
LEMMA NextTurnLemma ==
    ASSUME LocalOK, NEW d \in Dispatchers, pc[d] \in InTurn, NextTurn(d)
    PROVE  /\ LocalOK'
           /\ pc'[d] = "work" /\ picked' = picked
           /\ \A e \in Events : known'[d][e] = known[d][e] \/ known'[d][e] = 0
           /\ \A o \in Dispatchers \ {d} :
                 /\ pc'[o] = pc[o] /\ known'[o] = known[o]
                 /\ current'[o] = current[o] /\ error'[o] = error[o]
  <1>1. /\ pc' = [pc EXCEPT ![d] = "work"]
        /\ known' = [known EXCEPT ![d][current[d]] = 0]
        /\ current' = [current EXCEPT ![d] = Nil]
        /\ error' = [error EXCEPT ![d] = FALSE]
        /\ picked' = picked
    BY DEF NextTurn, Goto
  <1>2. /\ known' \in [Dispatchers -> [Events -> Nat]]
        /\ \A e \in Events : known'[d][e] = known[d][e] \/ known'[d][e] = 0
        /\ \A o \in Dispatchers \ {d} : known'[o] = known[o]
    BY <1>1 DEF LocalOK
  <1> QED
    BY <1>1, <1>2 DEF LocalOK, InTurn

(* A release that fails leaves the claim to its lock's end. *)
LEMMA ReleaseFailsKeeps ==
    ASSUME IInv, NEW d \in Dispatchers, ReleaseFails(d) PROVE IInv'
  <1>1. /\ pc[d] = "release" /\ NextTurn(d) /\ event' = event
        /\ UNCHANGED <<rows, history>> /\ faults' \in 0 .. MaxFaults
    BY LimitAssumption DEF ReleaseFails, Fault, rows, IInv, TypeOK
  <1>2. TypeOK /\ LocalOK /\ SharesAreKept /\ EventsAreTold /\ pc[d] \in InTurn
    BY <1>1, TypeSplit DEF IInv, InTurn
  <1>3. /\ LocalOK'
        /\ pc'[d] = "work" /\ picked' = picked
        /\ \A e \in Events : known'[d][e] = known[d][e] \/ known'[d][e] = 0
        /\ \A o \in Dispatchers \ {d} :
              /\ pc'[o] = pc[o] /\ known'[o] = known[o]
              /\ current'[o] = current[o] /\ error'[o] = error[o]
    BY <1>1, <1>2, NextTurnLemma
  <1>4. pc'[d] \notin InTurn /\ pc'[d] \notin Claiming /\ pc'[d] # "persist"
    BY <1>3 DEF InTurn, Claiming
  <1>5. \A t \in Tenants : Cardinality(OwnInFlight(d, t) \union BeingClaimed(d, t))' <= TenantLimit
    BY <1>1, <1>2, <1>4, LocalShares
  <1>6. \A e \in picked'[d] : event[e].status # "none"
    BY <1>2, <1>3 DEF EventsAreTold
  <1> QED
    BY <1>1, <1>3, <1>4, <1>5, <1>6, LocalStepKeeps

-----------------------------------------------------------------------------
(* The claim. *)

(* A tenant's share leaves room for what is in flight. *)
LEMMA ShareLemma ==
    ASSUME NEW t \in Tenants
    PROVE  /\ Share(t) \in Nat
           /\ Cardinality(InFlight(t)) \in Nat
           /\ Share(t) = 0 \/ Share(t) + Cardinality(InFlight(t)) <= TenantLimit
  <1>1. Cardinality(InFlight(t)) \in Nat /\ Cardinality(Ready(t)) \in Nat
    <2>1. InFlight(t) \in SUBSET Events /\ Ready(t) \in SUBSET Events
      BY DEF InFlight, Ready
    <2> QED
      BY <2>1, EventsCount
  <1>2. CASE Cardinality(InFlight(t)) >= TenantLimit
    <2>1. Share(t) = 0
      BY <1>1, <1>2 DEF Share
    <2> QED
      BY <1>1, <2>1
  <1>3. CASE ~(Cardinality(InFlight(t)) >= TenantLimit)
    <2> DEFINE room == TenantLimit - Cardinality(InFlight(t))
    <2>1. room \in Nat
      BY <1>1, <1>3, LimitAssumption
    <2>2. Share(t) = IF Cardinality(Ready(t)) <= room THEN Cardinality(Ready(t)) ELSE room
      BY <1>3 DEF Share
    <2>3. Share(t) \in Nat /\ Share(t) <= room
      BY <1>1, <2>1, <2>2
    <2> QED
      BY <1>1, <2>3, LimitAssumption
  <1> QED
    BY <1>2, <1>3

(* Two countable sets together are no more than their numbers' sum. *)
LEMMA UnionCount ==
    ASSUME NEW S \in SUBSET Events, NEW T \in SUBSET Events
    PROVE  Cardinality(S \union T) <= Cardinality(S) + Cardinality(T)
  <1>1. IsFiniteSet(S) /\ IsFiniteSet(T) /\ Cardinality(S) \in Nat /\ Cardinality(T) \in Nat
    BY EventsCount
  <1>2. S \intersect T \in SUBSET S
    OBVIOUS
  <1>3. Cardinality(S \intersect T) \in Nat
    BY <1>2, EventsCount
  <1>4. Cardinality(S \union T) = Cardinality(S) + Cardinality(T) - Cardinality(S \intersect T)
    BY <1>1, FS_Union
  <1> DEFINE a == Cardinality(S)
             b == Cardinality(T)
             c == Cardinality(S \intersect T)
  <1>5. a \in Nat /\ b \in Nat /\ c \in Nat
    BY <1>1, <1>3
  <1> HIDE DEF a, b, c
  <1>6. a + b - c <= a + b
    BY <1>5
  <1> QED
    BY <1>4, <1>6 DEF a, b, c

(* A snapshot picks no more than the limits leave, and only events that    *)
(* exist.                                                                  *)
LEMMA SnapshotKeeps ==
    ASSUME IInv, NEW d \in Dispatchers, Snapshot(d) PROVE IInv'
  <1>1. PICK S \in SUBSET Events : Eligible(S) /\ picked' = [picked EXCEPT ![d] = S]
    BY DEF Snapshot
  <1>2. /\ pc[d] = "idle" /\ pc' = [pc EXCEPT ![d] = "lock"]
        /\ event' = event /\ UNCHANGED <<rows, history, faults, known, current, error>>
    BY DEF Snapshot, Goto, rows
  <1>3. TypeOK /\ LocalOK /\ SharesAreKept
    BY TypeSplit DEF IInv
  <1>4. LocalOK' /\ pc'[d] = "lock" /\ picked'[d] = S /\ faults' \in 0 .. MaxFaults
    BY <1>1, <1>2, <1>3 DEF LocalOK, InTurn, TypeOK
  <1>5. pc'[d] \notin InTurn /\ pc'[d] # "persist"
    BY <1>4 DEF InTurn
  <1>6. \A e \in S : e \in Events /\ e \in Ready(TenantOf[e]) /\ event[e].status # "none"
    <2>1. \A e \in S : \E t \in Tenants : e \in Ready(t)
      BY <1>1 DEF Eligible
    <2> QED
      BY <2>1 DEF Ready
  <1>7. ASSUME NEW t \in Tenants
        PROVE  Cardinality(OwnInFlight(d, t) \union BeingClaimed(d, t))' <= TenantLimit
    <2> DEFINE A == OwnInFlight(d, t)
               B == S \intersect Ready(t)
    <2>1. (OwnInFlight(d, t) \union BeingClaimed(d, t))' = A \union B
      <3>1. OwnInFlight(d, t)' = A
        BY <1>2 DEF OwnInFlight, InFlight
      <3>2. BeingClaimed(d, t)' = B
        BY <1>4, <1>6 DEF BeingClaimed, Claiming, Ready
      <3> QED
        BY <3>1, <3>2
    <2>2. A \in SUBSET InFlight(t) /\ InFlight(t) \in SUBSET Events /\ B \in SUBSET Events
          /\ A \in SUBSET Events
      BY DEF OwnInFlight, InFlight
    <2>3. Cardinality(A) <= TenantLimit
      BY <1>3, OwnInFlightBound
    <2>4. Cardinality(B) <= Share(t)
      BY <1>1 DEF Eligible
    <2> HIDE DEF A, B
    <2>5. /\ Cardinality(A) \in Nat /\ Cardinality(B) \in Nat
          /\ Cardinality(A) <= Cardinality(InFlight(t))
      BY <2>2, EventsCount
    <2>6. Cardinality(A \union B) <= Cardinality(A) + Cardinality(B)
      BY <2>2, UnionCount
    <2>7. Cardinality(A \union B) \in Nat
      <3>1. A \union B \in SUBSET Events
        BY <2>2
      <3> QED
        BY <3>1, EventsCount
    <2>8. Cardinality(A \union B) <= TenantLimit
      BY <2>3, <2>4, <2>5, <2>6, <2>7, ShareLemma, LimitAssumption
    <2> QED
      BY <2>1, <2>8
  <1>8. \A o \in Dispatchers \ {d} : pc'[o] = pc[o] /\ picked'[o] = picked[o]
    BY <1>1, <1>2, <1>3 DEF LocalOK
  <1> QED
    BY <1>2, <1>4, <1>5, <1>6, <1>7, <1>8, LocalStepKeeps

(* Locking the rows loses some, and adds none. *)
LEMMA LockRowsKeeps ==
    ASSUME IInv, NEW d \in Dispatchers, LockRows(d) PROVE IInv'
  <1>1. PICK skipped \in SUBSET picked[d] :
           picked' = [picked EXCEPT ![d] = {e \in @ \ skipped : ~RowLocked(e)}]
    BY DEF LockRows
  <1>2. /\ pc[d] = "lock" /\ pc' = [pc EXCEPT ![d] = "commit"]
        /\ event' = event /\ UNCHANGED <<rows, history, faults, known, current, error>>
    BY DEF LockRows, Goto, rows
  <1>3. TypeOK /\ LocalOK /\ SharesAreKept /\ EventsAreTold
    BY TypeSplit DEF IInv
  <1>4. /\ picked' \in [Dispatchers -> SUBSET Events] /\ picked'[d] \subseteq picked[d]
        /\ \A o \in Dispatchers \ {d} : picked'[o] = picked[o]
    <2> DEFINE P == {e \in picked[d] \ skipped : ~RowLocked(e)}
    <2>1. picked' = [picked EXCEPT ![d] = P] /\ P \subseteq picked[d]
      BY <1>1
    <2> HIDE DEF P
    <2> QED
      BY <1>3, <2>1 DEF LocalOK
  <1>5. LocalOK' /\ pc'[d] = "commit" /\ faults' \in 0 .. MaxFaults
    BY <1>2, <1>3, <1>4 DEF LocalOK, InTurn, TypeOK
  <1>6. pc'[d] \notin InTurn /\ pc'[d] # "persist" /\ pc[d] \in Claiming
    BY <1>2, <1>5 DEF InTurn, Claiming
  <1>7. \A t \in Tenants : Cardinality(OwnInFlight(d, t) \union BeingClaimed(d, t))' <= TenantLimit
    BY <1>2, <1>3, <1>4, <1>6, LocalShares
  <1>8. \A e \in picked'[d] : event[e].status # "none"
    BY <1>3, <1>4 DEF EventsAreTold
  <1>9. \A o \in Dispatchers \ {d} : pc'[o] = pc[o]
    BY <1>2, <1>3 DEF LocalOK
  <1> QED
    BY <1>2, <1>4, <1>5, <1>6, <1>7, <1>8, <1>9, LocalStepKeeps

(* Rows change hands with the commit of a claim: the claimant has what it  *)
(* was claiming, and others have less.                                     *)
LEMMA ClaimKeeps ==
    ASSUME IInv, NEW d \in Dispatchers, pc[d] = "commit", ClaimRows(d),
           UNCHANGED <<match_status, history>>, faults' \in 0 .. MaxFaults, LocalOK',
           \A o \in Dispatchers \ {d} :
              /\ pc'[o] = pc[o] /\ picked'[o] = picked[o] /\ known'[o] = known[o]
              /\ current'[o] = current[o] /\ error'[o] = error[o],
           pc'[d] \in {"work", "idle"}, picked'[d] \subseteq picked[d],
           \A e \in Events : known'[d][e] <= event[e].attempts
    PROVE  IInv'
  <1>1. match_status' = match_status /\ posts' = posts /\ received' = received
    BY DEF history
  <1>2. TypeOK /\ EventsAreTold /\ VerdictsRest /\ NoErrorIsReceipt /\ AttemptsWereMade
        /\ KnownIsPast /\ ClaimsAreOwned /\ SharesAreKept /\ RowsOK /\ LocalOK
    BY TypeSplit DEF IInv
  <1>3. /\ event' \in [Events -> Row]
        /\ \A e \in Events :
              /\ event'[e].attempts = event[e].attempts
              /\ e \notin picked[d] => event'[e] = event[e]
              /\ e \in picked[d] =>
                    event'[e].status = "in_progress" /\ event'[e].locked_by = d
    BY <1>2, ClaimRowsLemma
  <1>4. TypeOK'
    <2>1. RowsOK'
      BY <1>1, <1>2, <1>3 DEF RowsOK
    <2> QED
      BY <2>1 DEF TypeOK, RowsOK, LocalOK, InTurn
  <1>5. EventsAreTold'
    <2>1. \A e \in Events : event[e].status # "none" => event'[e].status # "none"
      BY <1>3
    <2>2. \A o \in Dispatchers : picked'[o] \subseteq picked[o] /\ picked[o] \subseteq Events
      BY <1>2 DEF LocalOK
    <2>3. \A o \in Dispatchers : pc'[o] \in InTurn =>
             pc[o] \in InTurn /\ current'[o] = current[o] /\ current[o] \in Events
      BY <1>2 DEF InTurn, LocalOK
    <2> QED
      BY <1>2, <2>1, <2>2, <2>3 DEF EventsAreTold
  <1>6. VerdictsRest'
    <2>1. \A e \in Events : event'[e].status \in {"delivered", "failed"}
                               => event'[e].status = event[e].status
      BY <1>3
    <2>2. \A e \in Events : posts'[e] >= posts[e]
      BY <1>1, <1>2 DEF RowsOK
    <2> QED
      BY <1>1, <1>2, <2>1, <2>2, VerdictsKept DEF RowsOK
  <1>7. NoErrorIsReceipt'
    BY <1>1, <1>2 DEF NoErrorIsReceipt
  <1>8. AttemptsWereMade'
    <2>1. \A o \in Dispatchers : pc'[o] = "persist" => pc[o] = "persist" /\ current'[o] = current[o]
      OBVIOUS
    <2> QED
      BY <1>1, <1>2, <1>3, <2>1, AttemptsKept
  <1>9. KnownIsPast'
    BY <1>2, <1>3 DEF KnownIsPast
  <1>10. ClaimsAreOwned'
    BY <1>2, <1>3 DEF ClaimsAreOwned
  <1>11. SharesAreKept'
    <2>1. ASSUME NEW o \in Dispatchers, NEW t \in Tenants
          PROVE  (OwnInFlight(o, t) \union BeingClaimed(o, t))'
                    \subseteq OwnInFlight(o, t) \union BeingClaimed(o, t)
      <3>1. OwnInFlight(o, t)' \subseteq OwnInFlight(o, t) \union BeingClaimed(o, t)
        BY <1>3 DEF OwnInFlight, InFlight, BeingClaimed, Claiming
      <3>2. BeingClaimed(o, t)' \subseteq BeingClaimed(o, t)
        BY DEF BeingClaimed, Claiming
      <3> QED
        BY <3>1, <3>2
    <2> QED
      BY <1>2, <2>1, SharesKept
  <1> QED
    BY <1>4, <1>5, <1>6, <1>7, <1>8, <1>9, <1>10, <1>11 DEF IInv

(* What a claim returns of the attempts is what the row says. *)
LEMMA ClaimsLemma ==
    ASSUME TypeOK, NEW S
    PROVE  Claims(S) \in [Events -> Nat] /\ \A e \in Events : Claims(S)[e] <= event[e].attempts
  <1>1. \A e \in Events : event[e].attempts \in Nat
    BY DEF TypeOK, Row
  <1> QED
    BY <1>1 DEF Claims

(* The claim commits and the answer arrives. *)
LEMMA CommitKeeps ==
    ASSUME IInv, NEW d \in Dispatchers, CommitClaim(d) PROVE IInv'
  <1>1. /\ pc[d] = "commit" /\ ClaimRows(d) /\ pc' = [pc EXCEPT ![d] = "work"]
        /\ known' = [known EXCEPT ![d] = Claims(picked[d])]
        /\ UNCHANGED <<match_status, history, faults, picked, current, error>>
    BY DEF CommitClaim, Goto
  <1>2. TypeOK /\ LocalOK
    BY TypeSplit DEF IInv
  <1>3. Claims(picked[d]) \in [Events -> Nat]
        /\ \A e \in Events : Claims(picked[d])[e] <= event[e].attempts
    BY <1>2, ClaimsLemma
  <1>4. /\ LocalOK' /\ pc'[d] = "work" /\ known'[d] = Claims(picked[d])
        /\ \A o \in Dispatchers \ {d} : pc'[o] = pc[o] /\ known'[o] = known[o]
    BY <1>1, <1>2, <1>3 DEF LocalOK, InTurn
  <1>5. faults' \in 0 .. MaxFaults
    BY <1>1, <1>2 DEF TypeOK
  <1> QED
    BY <1>1, <1>3, <1>4, <1>5, ClaimKeeps

(* The claim fails: nothing happened, or everything but the answer.        *)
LEMMA ClaimFailsKeeps ==
    ASSUME IInv, NEW d \in Dispatchers, ClaimFails(d) PROVE IInv'
  <1>1. Reset(d, "idle") /\ faults' \in 0 .. MaxFaults /\ UNCHANGED <<match_status, history>>
    BY LimitAssumption DEF ClaimFails, Fault, IInv, TypeOK
  <1>2. CASE UNCHANGED event
    BY <1>1, <1>2, ResetKeeps DEF rows
  <1>3. CASE pc[d] = "commit" /\ ClaimRows(d)
    <2>1. TypeOK /\ LocalOK
      BY TypeSplit DEF IInv
    <2>2. /\ LocalOK'
          /\ pc'[d] = "idle" /\ picked'[d] = {} /\ \A e \in Events : known'[d][e] = 0
          /\ \A o \in Dispatchers \ {d} :
                /\ pc'[o] = pc[o] /\ picked'[o] = picked[o] /\ known'[o] = known[o]
                /\ current'[o] = current[o] /\ error'[o] = error[o]
      BY <1>1, <2>1, ResetLemma
    <2>3. \A e \in Events : known'[d][e] <= event[e].attempts
      BY <2>1, <2>2 DEF TypeOK, Row
    <2> QED
      BY <1>1, <1>3, <2>2, <2>3, ClaimKeeps
  <1> QED
    BY <1>2, <1>3 DEF ClaimFails

-----------------------------------------------------------------------------
(* The POST and its outcome. *)

(* An answer is one POST more, and the dispatcher owes its outcome: the    *)
(* two keep step.  Without an error the tenant took the event.             *)
LEMMA AnswerKeeps ==
    ASSUME IInv, NEW d \in Dispatchers, Answer(d) PROVE IInv'
  <1> DEFINE e == current[d]
  <1>1. PICK took \in BOOLEAN, lost \in BOOLEAN :
           /\ received' = [received EXCEPT ![e] = @ \/ took]
           /\ error' = [error EXCEPT ![d] = ~took \/ lost]
    BY DEF Answer
  <1>2. /\ pc[d] = "post" /\ pc' = [pc EXCEPT ![d] = "persist"]
        /\ posts' = [posts EXCEPT ![e] = @ + 1]
        /\ event' = event /\ match_status' = match_status
        /\ UNCHANGED <<faults, picked, known, current>>
    BY DEF Answer, Goto, rows
  <1>3. TypeOK /\ EventsAreTold /\ VerdictsRest /\ NoErrorIsReceipt /\ AttemptsWereMade
        /\ KnownIsPast /\ ClaimsAreOwned /\ SharesAreKept /\ RowsOK /\ LocalOK
    BY TypeSplit DEF IInv
  <1>4. e \in Events
    BY <1>2, <1>3 DEF LocalOK, InTurn
  <1>5. /\ pc'[d] = "persist" /\ error'[d] = (~took \/ lost)
        /\ \A o \in Dispatchers \ {d} : pc'[o] = pc[o] /\ error'[o] = error[o]
    BY <1>1, <1>2, <1>3 DEF LocalOK
  <1>6. /\ received' \in [Events -> BOOLEAN]
        /\ \A x \in Events : received[x] => received'[x]
        /\ took => received'[e]
    BY <1>1, <1>3, <1>4 DEF RowsOK
  <1>7. /\ posts' \in [Events -> Nat] /\ posts'[e] = posts[e] + 1
        /\ \A x \in Events \ {e} : posts'[x] = posts[x]
        /\ \A x \in Events : posts'[x] >= posts[x]
    BY <1>2, <1>3, <1>4 DEF RowsOK
  <1>8. TypeOK'
    <2>1. error' \in [Dispatchers -> BOOLEAN]
      BY <1>1, <1>3 DEF LocalOK
    <2>2. LocalOK'
      BY <1>2, <1>3, <2>1 DEF LocalOK, InTurn
    <2>3. RowsOK'
      BY <1>2, <1>3, <1>6, <1>7 DEF RowsOK
    <2> QED
      BY <2>2, <2>3 DEF TypeOK, RowsOK, LocalOK, InTurn
  <1>9. EventsAreTold'
    BY <1>2, <1>3, <1>5 DEF EventsAreTold, InTurn
  <1>10. VerdictsRest'
    BY <1>2, <1>3, <1>6, <1>7, VerdictsKept DEF RowsOK
  <1>11. NoErrorIsReceipt'
    <2> SUFFICES ASSUME NEW o \in Dispatchers, pc'[o] = "persist", ~error'[o]
                 PROVE  received'[current[o]]
      BY <1>2 DEF NoErrorIsReceipt
    <2>1. CASE o = d
      BY <1>5, <1>6, <2>1
    <2>2. CASE o # d
      BY <1>3, <1>5, <1>6, <2>2 DEF NoErrorIsReceipt, LocalOK, InTurn
    <2> QED
      BY <2>1, <2>2
  <1>12. AttemptsWereMade'
    <2> SUFFICES ASSUME NEW x \in Events
                 PROVE  event[x].attempts + Cardinality(Outstanding(x)') <= posts'[x]
      BY <1>2 DEF AttemptsWereMade
    <2>1. event[x].attempts \in Nat /\ posts[x] \in Nat /\ Cardinality(Outstanding(x)) \in Nat
          /\ event[x].attempts + Cardinality(Outstanding(x)) <= posts[x]
      BY <1>3, OutstandingFinite DEF RowsOK, Row, AttemptsWereMade
    <2>2. CASE x = e
      <3>1. Outstanding(x)' = Outstanding(x) \union {d} /\ d \notin Outstanding(x)
        BY <1>2, <1>5, <2>2 DEF Outstanding
      <3>2. Cardinality(Outstanding(x)') = Cardinality(Outstanding(x)) + 1
        BY <3>1, OutstandingCount
      <3> QED
        BY <1>7, <2>1, <2>2, <3>2
    <2>3. CASE x # e
      <3>1. Outstanding(x)' = Outstanding(x)
        BY <1>2, <1>5, <2>3 DEF Outstanding
      <3> QED
        BY <1>7, <2>1, <2>3, <3>1
    <2> QED
      BY <2>2, <2>3
  <1>13. KnownIsPast' /\ ClaimsAreOwned'
    BY <1>2, <1>3 DEF KnownIsPast, ClaimsAreOwned
  <1>14. SharesAreKept'
    <2>1. \A o \in Dispatchers : pc'[o] \in Claiming <=> pc[o] \in Claiming
      BY <1>2, <1>5 DEF Claiming
    <2>2. ASSUME NEW o \in Dispatchers, NEW t \in Tenants
          PROVE  (OwnInFlight(o, t) \union BeingClaimed(o, t))'
                    \subseteq OwnInFlight(o, t) \union BeingClaimed(o, t)
      BY <1>2, <2>1 DEF OwnInFlight, InFlight, BeingClaimed
    <2> QED
      BY <1>3, <2>2, SharesKept
  <1> QED
    BY <1>8, <1>9, <1>10, <1>11, <1>12, <1>13, <1>14 DEF IInv

(* An outcome uses the attempt of its own POST up, also when others have   *)
(* claimed, settled or released the event meanwhile; and a verdict has the *)
(* receipt, or the POSTs, that it needs.                                   *)
LEMMA OutcomeKeeps ==
    ASSUME IInv, NEW d \in Dispatchers, pc[d] = "persist", WriteOutcome(d),
           UNCHANGED history, faults' \in 0 .. MaxFaults, LocalOK', picked' = picked,
           \A o \in Dispatchers \ {d} :
              /\ pc'[o] = pc[o] /\ known'[o] = known[o]
              /\ current'[o] = current[o] /\ error'[o] = error[o],
           pc'[d] \in {"work", "release"},
           pc'[d] = "release" => current'[d] = current[d],
           \A x \in Events : known'[d][x] = known[d][x] \/ known'[d][x] = 0
    PROVE  IInv'
  <1> DEFINE e == current[d]
  <1>1. posts' = posts /\ received' = received
    BY DEF history
  <1>2. TypeOK /\ EventsAreTold /\ VerdictsRest /\ NoErrorIsReceipt /\ AttemptsWereMade
        /\ KnownIsPast /\ ClaimsAreOwned /\ SharesAreKept /\ RowsOK /\ LocalOK
    BY TypeSplit DEF IInv
  <1>3. e \in Events /\ event[e].status # "none"
    BY <1>2 DEF LocalOK, InTurn, EventsAreTold
  <1>4. /\ event' \in [Events -> Row]
        /\ match_status' \in [Events -> {"created", "callback_delivered", "callback_failed"}]
        /\ \A x \in Events \ {e} : event'[x] = event[x] /\ match_status'[x] = match_status[x]
        /\ event'[e].attempts = event[e].attempts + 1
        /\ event'[e].status \in {"delivered", "failed", "pending"}
        /\ event'[e].live = FALSE
        /\ \/ /\ ~error[d]
              /\ event'[e].status = "delivered"
              /\ match_status'[e] = "callback_delivered"
           \/ /\ error[d]
              /\ known[d][e] + 1 >= MaxAttempts
              /\ event'[e].status = "failed"
              /\ match_status'[e] = "callback_failed"
           \/ /\ error[d]
              /\ event'[e].status = "pending"
              /\ match_status' = match_status
    BY <1>2, OutcomeLemma
  <1>5. /\ \A x \in Events : event[x].attempts \in Nat /\ posts[x] \in Nat
        /\ known[d][e] \in Nat /\ known[d][e] <= event[e].attempts
    BY <1>2, <1>3 DEF RowsOK, Row, LocalOK, KnownIsPast
  <1>6. d \in Outstanding(e) /\ event[e].attempts + 1 <= posts[e]
    <2>1. d \in Outstanding(e)
      BY DEF Outstanding
    <2>2. Cardinality(Outstanding(e)) # 0
      BY <2>1, OutstandingFinite, FS_EmptySet
    <2>3. event[e].attempts + Cardinality(Outstanding(e)) <= posts[e]
      BY <1>2, <1>3 DEF AttemptsWereMade
    <2> QED
      BY <1>3, <1>5, <2>1, <2>2, <2>3, OutstandingFinite
  <1>7. TypeOK'
    <2>1. RowsOK'
      BY <1>1, <1>2, <1>4 DEF RowsOK
    <2> QED
      BY <2>1 DEF TypeOK, RowsOK, LocalOK, InTurn
  <1>8. EventsAreTold'
    <2>1. \A x \in Events : event[x].status # "none" => event'[x].status # "none"
      BY <1>4
    <2>2. \A o \in Dispatchers : picked[o] \subseteq Events
      BY <1>2 DEF LocalOK
    <2>3. \A o \in Dispatchers : pc'[o] \in InTurn =>
             pc[o] \in InTurn /\ current'[o] = current[o] /\ current[o] \in Events
      BY <1>2, <1>3 DEF InTurn, LocalOK
    <2> QED
      BY <1>2, <2>1, <2>2, <2>3 DEF EventsAreTold
  <1>9. VerdictsRest'
    <2> SUFFICES ASSUME NEW x \in Events
                 PROVE  /\ match_status'[x] = "callback_delivered" => received[x]
                        /\ match_status'[x] = "callback_failed" => posts[x] >= MaxAttempts
                        /\ event'[x].status = "delivered" => match_status'[x] = "callback_delivered"
                        /\ event'[x].status = "failed" => match_status'[x] = "callback_failed"
      BY <1>1 DEF VerdictsRest
    <2>1. CASE x # e
      BY <1>2, <1>4, <2>1 DEF VerdictsRest
    <2>2. CASE x = e /\ ~error[d]
      BY <1>2, <1>4, <2>2 DEF NoErrorIsReceipt
    <2>3. CASE x = e /\ error[d] /\ match_status' = match_status /\ event'[e].status = "pending"
      BY <1>2, <2>3 DEF VerdictsRest
    <2>4. CASE x = e /\ error[d] /\ known[d][e] + 1 >= MaxAttempts
               /\ event'[e].status = "failed" /\ match_status'[e] = "callback_failed"
      <3>1. posts[e] >= MaxAttempts
        BY <1>3, <1>5, <1>6, <2>4, LimitAssumption
      <3> QED
        BY <2>4, <3>1
    <2> QED
      BY <1>4, <2>1, <2>2, <2>3, <2>4
  <1>10. NoErrorIsReceipt'
    BY <1>1, <1>2 DEF NoErrorIsReceipt
  <1>11. AttemptsWereMade'
    <2> SUFFICES ASSUME NEW x \in Events
                 PROVE  event'[x].attempts + Cardinality(Outstanding(x)') <= posts[x]
      BY <1>1 DEF AttemptsWereMade
    <2>1. event[x].attempts + Cardinality(Outstanding(x)) <= posts[x]
          /\ Cardinality(Outstanding(x)) \in Nat
      BY <1>2, OutstandingFinite DEF AttemptsWereMade
    <2>2. CASE x = e
      <3>1. Outstanding(x)' = Outstanding(x) \ {d}
        BY <2>2 DEF Outstanding
      <3>2. Cardinality(Outstanding(x)') = Cardinality(Outstanding(x)) - 1
        BY <1>6, <2>2, <3>1, OutstandingCount
      <3> QED
        BY <1>4, <1>5, <2>1, <2>2, <3>2
    <2>3. CASE x # e
      <3>1. Outstanding(x)' = Outstanding(x)
        BY <2>3 DEF Outstanding
      <3> QED
        BY <1>4, <2>1, <2>3, <3>1
    <2> QED
      BY <2>2, <2>3
  <1>12. KnownIsPast'
    <2> SUFFICES ASSUME NEW o \in Dispatchers, NEW x \in Events
                 PROVE  known'[o][x] <= event'[x].attempts
      BY DEF KnownIsPast
    <2>1. event'[x].attempts \in Nat /\ event'[x].attempts >= event[x].attempts
      BY <1>4, <1>5
    <2>2. known[o][x] \in Nat /\ known[o][x] <= event[x].attempts
      BY <1>2 DEF LocalOK, KnownIsPast
    <2>3. known'[o][x] = known[o][x] \/ known'[o][x] = 0
      OBVIOUS
    <2> QED
      BY <1>5, <2>1, <2>2, <2>3
  <1>13. ClaimsAreOwned'
    BY <1>2, <1>4 DEF ClaimsAreOwned
  <1>14. SharesAreKept'
    <2>1. \A o \in Dispatchers : pc'[o] \in Claiming => pc[o] \in Claiming
      BY DEF Claiming
    <2>2. ASSUME NEW o \in Dispatchers, NEW t \in Tenants
          PROVE  (OwnInFlight(o, t) \union BeingClaimed(o, t))'
                    \subseteq OwnInFlight(o, t) \union BeingClaimed(o, t)
      <3>1. OwnInFlight(o, t)' \subseteq OwnInFlight(o, t)
        BY <1>4 DEF OwnInFlight, InFlight
      <3>2. BeingClaimed(o, t)' \subseteq BeingClaimed(o, t)
        BY <2>1 DEF BeingClaimed
      <3> QED
        BY <3>1, <3>2
    <2> QED
      BY <1>2, <2>2, SharesKept
  <1> QED
    BY <1>7, <1>8, <1>9, <1>10, <1>11, <1>12, <1>13, <1>14 DEF IInv

(* The outcome is written. *)
LEMMA PersistKeeps ==
    ASSUME IInv, NEW d \in Dispatchers, Persist(d) PROVE IInv'
  <1>1. /\ pc[d] = "persist" /\ WriteOutcome(d) /\ NextTurn(d)
        /\ UNCHANGED history /\ faults' \in 0 .. MaxFaults
    BY DEF Persist, IInv, TypeOK
  <1>2. LocalOK /\ pc[d] \in InTurn
    BY <1>1, TypeSplit DEF IInv, InTurn
  <1>3. /\ LocalOK'
        /\ pc'[d] = "work" /\ picked' = picked
        /\ \A e \in Events : known'[d][e] = known[d][e] \/ known'[d][e] = 0
        /\ \A o \in Dispatchers \ {d} :
              /\ pc'[o] = pc[o] /\ known'[o] = known[o]
              /\ current'[o] = current[o] /\ error'[o] = error[o]
    BY <1>1, <1>2, NextTurnLemma
  <1> QED
    BY <1>1, <1>3, OutcomeKeeps

(* Writing the outcome fails: nothing happened, or everything but the      *)
(* answer.  In both cases the claim is to be released next, and no second  *)
(* outcome is written for this POST.                                       *)
LEMMA PersistFailsKeeps ==
    ASSUME IInv, NEW d \in Dispatchers, PersistFails(d) PROVE IInv'
  <1>1. /\ pc[d] = "persist" /\ pc' = [pc EXCEPT ![d] = "release"]
        /\ UNCHANGED <<history, picked, known, current, error>> /\ faults' \in 0 .. MaxFaults
    BY LimitAssumption DEF PersistFails, Fault, Goto, IInv, TypeOK
  <1>2. TypeOK /\ LocalOK /\ SharesAreKept /\ EventsAreTold /\ pc[d] \in InTurn
    BY <1>1, TypeSplit DEF IInv, InTurn
  <1>3. /\ LocalOK' /\ pc'[d] = "release"
        /\ \A o \in Dispatchers \ {d} : pc'[o] = pc[o]
    BY <1>1, <1>2 DEF LocalOK, InTurn
  <1>4. CASE WriteOutcome(d)
    BY <1>1, <1>3, <1>4, OutcomeKeeps
  <1>5. CASE UNCHANGED rows
    <2>1. pc'[d] \notin Claiming /\ pc'[d] # "persist" /\ UNCHANGED event
      BY <1>3, <1>5 DEF Claiming, rows
    <2>2. \A t \in Tenants : Cardinality(OwnInFlight(d, t) \union BeingClaimed(d, t))' <= TenantLimit
      BY <1>2, <2>1, LocalShares
    <2>3. event[current'[d]].status # "none" /\ \A e \in picked'[d] : event[e].status # "none"
      BY <1>1, <1>2 DEF EventsAreTold
    <2> QED
      BY <1>1, <1>3, <1>5, <2>1, <2>2, <2>3, LocalStepKeeps
  <1> QED
    BY <1>4, <1>5 DEF PersistFails

(* A release makes the event pending again, whoever holds or settled it:   *)
(* the match keeps its verdict, and no attempt is counted.                 *)
LEMMA ReleaseKeeps ==
    ASSUME IInv, NEW d \in Dispatchers, Release(d) PROVE IInv'
  <1> DEFINE e == current[d]
  <1>1. /\ pc[d] = "release" /\ release_claim(e) /\ NextTurn(d)
        /\ match_status' = match_status /\ posts' = posts /\ received' = received
        /\ faults' = faults
    BY DEF Release, history
  <1>2. TypeOK /\ EventsAreTold /\ VerdictsRest /\ NoErrorIsReceipt /\ AttemptsWereMade
        /\ KnownIsPast /\ ClaimsAreOwned /\ SharesAreKept /\ RowsOK /\ LocalOK
        /\ pc[d] \in InTurn
    BY <1>1, TypeSplit DEF IInv, InTurn
  <1>3. /\ LocalOK'
        /\ pc'[d] = "work" /\ picked' = picked
        /\ \A x \in Events : known'[d][x] = known[d][x] \/ known'[d][x] = 0
        /\ \A o \in Dispatchers \ {d} :
              /\ pc'[o] = pc[o] /\ known'[o] = known[o]
              /\ current'[o] = current[o] /\ error'[o] = error[o]
    BY <1>1, <1>2, NextTurnLemma
  <1>4. e \in Events /\ event[e] \in Row
    BY <1>2 DEF LocalOK, RowsOK
  <1>5. /\ event' \in [Events -> Row]
        /\ \A x \in Events \ {e} : event'[x] = event[x]
        /\ event'[e].attempts = event[e].attempts
        /\ event'[e].status = "pending" /\ event'[e].live = FALSE
    <2> DEFINE r == [event[e] EXCEPT !.status = "pending", !.locked_by = Nil, !.live = FALSE]
               q == [event[e] EXCEPT !.status = "pending"]
    <2>1. event' = [event EXCEPT ![e] = r]
      BY <1>1 DEF release_claim
    <2>2. q \in Row /\ r = [q EXCEPT !.locked_by = Nil, !.live = FALSE]
      BY <1>4 DEF Row
    <2>3. r.attempts = event[e].attempts /\ r.status = "pending" /\ r.live = FALSE
      BY <1>4 DEF Row
    <2> HIDE DEF q
    <2>4. r \in Row
      BY <2>2 DEF Row
    <2> HIDE DEF r
    <2> QED
      BY <1>2, <1>4, <2>1, <2>3, <2>4 DEF RowsOK
  <1>6. TypeOK'
    <2>1. RowsOK'
      BY <1>1, <1>2, <1>5 DEF RowsOK
    <2> QED
      BY <1>3, <2>1 DEF TypeOK, RowsOK, LocalOK, InTurn
  <1>7. EventsAreTold'
    <2>1. \A x \in Events : event[x].status # "none" => event'[x].status # "none"
      BY <1>5
    <2>2. \A o \in Dispatchers : picked[o] \subseteq Events
      BY <1>2 DEF LocalOK
    <2>3. \A o \in Dispatchers : pc'[o] \in InTurn =>
             pc[o] \in InTurn /\ current'[o] = current[o] /\ current[o] \in Events
      BY <1>2, <1>3 DEF InTurn, LocalOK
    <2> QED
      BY <1>2, <1>3, <2>1, <2>2, <2>3 DEF EventsAreTold
  <1>8. VerdictsRest'
    <2>1. \A x \in Events : event'[x].status \in {"delivered", "failed"}
                               => event'[x].status = event[x].status
      BY <1>5
    <2>2. \A x \in Events : posts'[x] >= posts[x]
      BY <1>1, <1>2 DEF RowsOK
    <2> QED
      BY <1>1, <1>2, <2>1, <2>2, VerdictsKept DEF RowsOK
  <1>9. NoErrorIsReceipt'
    BY <1>1, <1>2, <1>3 DEF NoErrorIsReceipt
  <1>10. AttemptsWereMade'
    <2>1. \A x \in Events : event'[x].attempts = event[x].attempts
      BY <1>5
    <2>2. \A o \in Dispatchers : pc'[o] = "persist" => pc[o] = "persist" /\ current'[o] = current[o]
      BY <1>3
    <2> QED
      BY <1>1, <1>2, <2>1, <2>2, AttemptsKept
  <1>11. KnownIsPast'
    <2>1. \A x \in Events : event'[x].attempts = event[x].attempts /\ event[x].attempts \in Nat
      BY <1>2, <1>5 DEF RowsOK, Row
    <2> QED
      BY <1>2, <1>3, <2>1 DEF KnownIsPast
  <1>12. ClaimsAreOwned'
    BY <1>2, <1>5 DEF ClaimsAreOwned
  <1>13. SharesAreKept'
    <2>1. \A o \in Dispatchers : pc'[o] \in Claiming => pc[o] \in Claiming
      BY <1>3 DEF Claiming
    <2>2. ASSUME NEW o \in Dispatchers, NEW t \in Tenants
          PROVE  (OwnInFlight(o, t) \union BeingClaimed(o, t))'
                    \subseteq OwnInFlight(o, t) \union BeingClaimed(o, t)
      <3>1. OwnInFlight(o, t)' \subseteq OwnInFlight(o, t)
        BY <1>5 DEF OwnInFlight, InFlight
      <3>2. BeingClaimed(o, t)' \subseteq BeingClaimed(o, t)
        BY <1>3, <2>1 DEF BeingClaimed
      <3> QED
        BY <3>1, <3>2
    <2> QED
      BY <1>2, <2>2, SharesKept
  <1> QED
    BY <1>6, <1>7, <1>8, <1>9, <1>10, <1>11, <1>12, <1>13 DEF IInv

-----------------------------------------------------------------------------
(* The invariant in every reachable state. *)

(* Every step of a worker, a clock or a dispatcher keeps the invariant. *)
LEMMA NextKeeps == IInv /\ [Next]_vars => IInv'
  <1> SUFFICES ASSUME IInv, [Next]_vars PROVE IInv'
    OBVIOUS
  <1>1. ASSUME NEW e \in Events, InsertEvent(e) \/ TimeStep(e) PROVE IInv'
    BY <1>1, InsertKeeps, BackoffKeeps, ExpiryKeeps DEF TimeStep
  <1>2. ASSUME NEW d \in Dispatchers, DispatcherStep(d) PROVE IInv'
    BY <1>2, SnapshotKeeps, LockRowsKeeps, CommitKeeps, EndKeeps, StartPostKeeps, AnswerKeeps,
       RaiseKeeps, PersistKeeps, ReleaseKeeps, RestartKeeps DEF DispatcherStep
  <1>3. ASSUME NEW d \in Dispatchers, FaultStep(d) PROVE IInv'
    BY <1>3, ClaimFailsKeeps, PersistFailsKeeps, ReleaseFailsKeeps, CrashKeeps DEF FaultStep
  <1>4. CASE UNCHANGED vars
    <2>1. UNCHANGED <<event, match_status, posts, received, faults,
                      pc, picked, known, current, error>>
      BY <1>4 DEF vars, rows, history, local
    <2>2. TypeOK' /\ EventsAreTold' /\ VerdictsRest' /\ NoErrorIsReceipt' /\ KnownIsPast'
          /\ ClaimsAreOwned'
      BY <2>1 DEF IInv, TypeOK, EventsAreTold, VerdictsRest, NoErrorIsReceipt, KnownIsPast,
             ClaimsAreOwned
    <2>3. AttemptsWereMade' /\ SharesAreKept'
      BY <2>1 DEF IInv, AttemptsWereMade, Outstanding, SharesAreKept, OwnInFlight, InFlight,
             BeingClaimed
    <2> QED
      BY <2>2, <2>3 DEF IInv
  <1> QED
    BY <1>1, <1>2, <1>3, <1>4 DEF Next

(* The invariant holds in every reachable state of any number of           *)
(* dispatchers, events, tenants and faults.                                *)
THEOREM Invariance == Spec => []IInv
  BY InitInv, NextKeeps, PTL DEF Spec

(* Every variable of the outbox always holds a value of its type. *)
THEOREM TypeCorrect == Spec => []TypeOK
  <1>1. IInv => TypeOK
    BY DEF IInv
  <1> QED
    BY <1>1, Invariance, PTL

(* Neither an event nor its match is ever marked delivered before the      *)
(* tenant answered a POST of it with 2xx, however many dispatchers hold it.*)
THEOREM DeliveriesAreReceipts == Spec => []DeliveredWasReceived
  <1>1. IInv => DeliveredWasReceived
    BY DEF IInv, VerdictsRest, DeliveredWasReceived
  <1> QED
    BY <1>1, Invariance, PTL

(* Crashes, releases and stale attempts never use attempts up: an event is *)
(* given up after MaxAttempts POSTs that were made, at the earliest.       *)
THEOREM GivingUpIsLate == Spec => []GivesUpLate
  <1>1. IInv => GivesUpLate
    <2> SUFFICES ASSUME IInv, NEW e \in Events
                 PROVE  /\ event[e].attempts <= posts[e]
                        /\ event[e].status = "failed" \/ match_status[e] = "callback_failed"
                              => posts[e] >= MaxAttempts
      BY DEF GivesUpLate
    <2>1. event[e].attempts \in Nat /\ posts[e] \in Nat
      BY DEF IInv, TypeOK, Row
    <2>2. event[e].attempts + Cardinality(Outstanding(e)) <= posts[e]
      BY DEF IInv, AttemptsWereMade
    <2>3. event[e].attempts <= posts[e]
      BY <2>1, <2>2, OutstandingFinite
    <2> QED
      BY <2>3 DEF IInv, VerdictsRest
  <1> QED
    BY <1>1, Invariance, PTL

(* At every commit and after every fault, the match says of a settled      *)
(* event what the outbox says.                                             *)
THEOREM OutcomesAlwaysAgree == Spec => []OutcomesAgree
  <1>1. IInv => OutcomesAgree
    BY DEF IInv, VerdictsRest, OutcomesAgree
  <1> QED
    BY <1>1, Invariance, PTL

-----------------------------------------------------------------------------
(* The limit of a tenant. *)

(* A finite set of at most n elements can be numbered by 1 .. n. *)
LEMMA Numbering ==
    ASSUME NEW S, IsFiniteSet(S), NEW n \in Nat, Cardinality(S) <= n
    PROVE  \E f \in [S -> 1 .. n] : \A x, y \in S : f[x] = f[y] => x = y
  <1>1. ExistsBijection(1 .. Cardinality(S), S) /\ Cardinality(S) \in Nat
    BY FS_CardinalityType
  <1>2. ExistsBijection(S, 1 .. Cardinality(S))
    BY <1>1, Fun_ExistsBijSymmetric
  <1>3. PICK f : f \in Bijection(S, 1 .. Cardinality(S))
    BY <1>2, Fun_ExistsBij
  <1>4. f \in [S -> 1 .. Cardinality(S)] /\ \A x, y \in S : f[x] = f[y] => x = y
    BY <1>3 DEF Bijection, Injection, IsInjective
  <1>5. 1 .. Cardinality(S) \subseteq 1 .. n
    BY <1>1
  <1>6. f \in [S -> 1 .. n]
    BY <1>4, <1>5
  <1> QED
    BY <1>4, <1>6

(* Sets that cover S, one for each dispatcher and each within the limit,   *)
(* keep S within the limit times the dispatchers.                          *)
LEMMA InFlightCount ==
    ASSUME IInv, NEW t \in Tenants
    PROVE  Cardinality(InFlight(t)) <= TenantLimit * Cardinality(Dispatchers)
  <1> DEFINE A(d) == OwnInFlight(d, t)
             P(d, f) == /\ f \in [A(d) -> 1 .. TenantLimit]
                        /\ \A x, y \in A(d) : f[x] = f[y] => x = y
             num == [d \in Dispatchers |-> CHOOSE f : P(d, f)]
             owner(e) == event[e].locked_by
             F == [e \in InFlight(t) |-> <<owner(e), num[owner(e)][e]>>]
             T == Dispatchers \X (1 .. TenantLimit)
  <1>1. ASSUME NEW d \in Dispatchers PROVE P(d, num[d])
    <2>1. A(d) \in SUBSET Events
      BY DEF OwnInFlight, InFlight
    <2>2. IsFiniteSet(A(d))
      BY <2>1, EventsCount
    <2>3. Cardinality(A(d)) <= TenantLimit
      BY OwnInFlightBound DEF IInv
    <2>4. \E f : P(d, f)
      <3> HIDE DEF A
      <3>1. \E f \in [A(d) -> 1 .. TenantLimit] : \A x, y \in A(d) : f[x] = f[y] => x = y
        BY <2>2, <2>3, Numbering, LimitAssumption
      <3> QED
        BY <3>1
    <2> HIDE DEF P
    <2>5. P(d, CHOOSE f : P(d, f))
      BY <2>4
    <2> QED
      BY <2>5
  <1>2. ASSUME NEW e \in InFlight(t) PROVE owner(e) \in Dispatchers /\ e \in A(owner(e))
    BY DEF IInv, ClaimsAreOwned, OwnInFlight, InFlight
  <1>3. ASSUME NEW e \in InFlight(t) PROVE num[owner(e)][e] \in 1 .. TenantLimit
    <2>1. num[owner(e)] \in [A(owner(e)) -> 1 .. TenantLimit]
      BY <1>1, <1>2
    <2> QED
      BY <1>2, <2>1
  <1>4. F \in [InFlight(t) -> T]
    <2> HIDE DEF num
    <2> QED
      BY <1>2, <1>3
  <1>5. ASSUME NEW x \in InFlight(t), NEW y \in InFlight(t), F[x] = F[y] PROVE x = y
    <2>1. owner(x) = owner(y) /\ num[owner(x)][x] = num[owner(y)][y]
      <3> HIDE DEF num
      <3> QED
        BY <1>5
    <2>2. x \in A(owner(x)) /\ y \in A(owner(x)) /\ owner(x) \in Dispatchers
      BY <1>2, <2>1
    <2>3. num[owner(x)][x] = num[owner(x)][y] => x = y
      <3>1. P(owner(x), num[owner(x)])
        BY <1>1, <2>2
      <3> HIDE DEF num, A
      <3> QED
        BY <2>2, <3>1
    <2> QED
      BY <2>1, <2>3
  <1>6. F \in Injection(InFlight(t), T)
    <2> HIDE DEF F, T
    <2> QED
      BY <1>4, <1>5 DEF Injection, IsInjective
  <1>7. /\ IsFiniteSet(1 .. TenantLimit)
        /\ Cardinality(1 .. TenantLimit) = TenantLimit
    BY FS_Interval, LimitAssumption
  <1>8. /\ IsFiniteSet(T)
        /\ Cardinality(T) = Cardinality(Dispatchers) * TenantLimit
    BY <1>7, FS_Product, FiniteAssumption
  <1>9. Cardinality(InFlight(t)) <= Cardinality(T)
    <2> HIDE DEF F, T
    <2> QED
      BY <1>6, <1>8, FS_Injection
  <1>10. Cardinality(Dispatchers) \in Nat
    BY FS_CardinalityType, FiniteAssumption
  <1>11. Cardinality(Dispatchers) * TenantLimit = TenantLimit * Cardinality(Dispatchers)
    BY <1>10, LimitAssumption
  <1> QED
    BY <1>8, <1>9, <1>11

(* No dispatcher ever has more in flight with a tenant than the limit, and *)
(* the fleet no more than the limit times its dispatchers: also when a     *)
(* claim was lost to a crash, or committed with the answer lost.           *)
THEOREM TenantsAreSpared == Spec => []InFlightIsBounded
  <1>1. IInv => InFlightIsBounded
    <2> SUFFICES ASSUME IInv, NEW t \in Tenants
                 PROVE  /\ \A d \in Dispatchers : Cardinality(OwnInFlight(d, t)) <= TenantLimit
                        /\ Cardinality(InFlight(t)) <= TenantLimit * Cardinality(Dispatchers)
      BY DEF InFlightIsBounded, OwnInFlight
    <2>1. \A d \in Dispatchers : Cardinality(OwnInFlight(d, t)) <= TenantLimit
      BY OwnInFlightBound DEF IInv
    <2> QED
      BY <2>1, InFlightCount
  <1> QED
    BY <1>1, Invariance, PTL

-----------------------------------------------------------------------------
(* Every step is a step of Outbox, or none. *)

(* The two functions that Outbox sees of the tables. *)
Told == [e \in Events |-> event[e].status # "none"]
Verdict == [e \in Events |-> CASE match_status[e] = "created" -> "open"
                               [] match_status[e] = "callback_delivered" -> "delivered"
                               [] match_status[e] = "callback_failed" -> "failed"]

(* What is announced stays announced, and no step but InsertEvent does it. *)
LEMMA ToldKept ==
    ASSUME \A e \in Events : event'[e].status = "none" <=> event[e].status = "none"
    PROVE  Told' = Told
  BY DEF Told

(* A step that announces, posts and judges nothing is no step of Outbox. *)
LEMMA NothingSeen ==
    ASSUME \A e \in Events : event'[e].status = "none" <=> event[e].status = "none",
           UNCHANGED <<match_status, history>>
    PROVE  UNCHANGED Promise!ovars
  <1>1. Told' = Told
    BY ToldKept
  <1>2. Verdict' = Verdict
    BY DEF Verdict
  <1> QED
    BY <1>1, <1>2 DEF Promise!ovars, Told, Verdict, history

(* A claim takes announced events only. *)
LEMMA ClaimSeesTold ==
    ASSUME IInv, NEW d \in Dispatchers, ClaimRows(d)
    PROVE  \A e \in Events : event'[e].status = "none" <=> event[e].status = "none"
  <1>1. TypeOK /\ EventsAreTold
    BY DEF IInv
  <1>2. \A e \in Events :
           /\ e \notin picked[d] => event'[e] = event[e]
           /\ e \in picked[d] => event'[e].status = "in_progress"
    BY <1>1, ClaimRowsLemma
  <1> QED
    BY <1>1, <1>2 DEF EventsAreTold

(* InsertEvent announces. *)
LEMMA InsertIsAnnounce ==
    ASSUME IInv, NEW e \in Events, InsertEvent(e)
    PROVE  Promise!Announce(e)
  <1>1. event[e].status = "none" /\ event \in [Events -> Row] /\ event[e] \in Row
        /\ event' = [event EXCEPT ![e] = [event[e] EXCEPT !.status = "pending", !.due = TRUE]]
        /\ UNCHANGED <<match_status, posts, received>>
    BY DEF InsertEvent, history, IInv, TypeOK
  <1>2. event'[e].status = "pending" /\ \A x \in Events \ {e} : event'[x] = event[x]
    BY <1>1 DEF Row
  <1>3. ~Told[e] /\ Told' = [Told EXCEPT ![e] = TRUE]
    BY <1>1, <1>2 DEF Told
  <1>4. Verdict' = Verdict
    BY <1>1 DEF Verdict
  <1> QED
    BY <1>1, <1>3, <1>4 DEF Promise!Announce, Told, Verdict

(* An answer is an attempt. *)
LEMMA AnswerIsAttempt ==
    ASSUME IInv, NEW d \in Dispatchers, Answer(d)
    PROVE  \E e \in Events : \E took \in BOOLEAN : Promise!Attempt(e, took)
  <1>1. PICK took \in BOOLEAN : received' = [received EXCEPT ![current[d]] = @ \/ took]
    BY DEF Answer
  <1>2. /\ posts' = [posts EXCEPT ![current[d]] = @ + 1]
        /\ event' = event /\ match_status' = match_status
    BY DEF Answer, rows
  <1>3. current[d] \in Events /\ event[current[d]].status # "none"
    BY DEF Answer, IInv, TypeOK, EventsAreTold, InTurn
  <1>4. Told[current[d]] /\ Told' = Told /\ Verdict' = Verdict
    <2>1. Told[current[d]]
      BY <1>3 DEF Told
    <2>2. Told' = Told
      BY <1>2, ToldKept
    <2>3. Verdict' = Verdict
      BY <1>2 DEF Verdict
    <2> QED
      BY <2>1, <2>2, <2>3
  <1>5. Promise!Attempt(current[d], took)
    BY <1>1, <1>2, <1>4 DEF Promise!Attempt, Told, Verdict
  <1> QED
    BY <1>3, <1>5

(* An outcome is a verdict with its reason, or leaves the match open. *)
LEMMA OutcomeIsVerdict ==
    ASSUME IInv, NEW d \in Dispatchers, pc[d] = "persist", WriteOutcome(d), UNCHANGED history,
           NEW e \in Events, e = current[d]
    PROVE  Promise!Deliver(e) \/ Promise!GiveUp(e) \/ UNCHANGED Promise!ovars
  <1>1. TypeOK /\ AttemptsWereMade /\ KnownIsPast /\ NoErrorIsReceipt /\ EventsAreTold
    BY DEF IInv
  <1>2. e \in Events /\ event[e].status # "none" /\ match_status \in [Events ->
            {"created", "callback_delivered", "callback_failed"}]
    BY <1>1 DEF TypeOK, EventsAreTold, InTurn
  <1>3. /\ match_status' \in [Events -> {"created", "callback_delivered", "callback_failed"}]
        /\ \A x \in Events \ {e} : event'[x] = event[x] /\ match_status'[x] = match_status[x]
        /\ event'[e].status \in {"delivered", "failed", "pending"}
        /\ \/ ~error[d] /\ match_status'[e] = "callback_delivered"
           \/ /\ error[d] /\ known[d][e] + 1 >= MaxAttempts
              /\ match_status'[e] = "callback_failed"
           \/ match_status' = match_status
    BY <1>1, OutcomeLemma
  <1>4. Told' = Told
    <2>1. \A x \in Events : event'[x].status = "none" <=> event[x].status = "none"
      BY <1>2, <1>3
    <2> QED
      BY <2>1, ToldKept
  <1>5. posts' = posts /\ received' = received
    BY DEF history
  <1>6. CASE ~error[d] /\ match_status'[e] = "callback_delivered"
    <2>1. received[e]
      BY <1>1, <1>6 DEF NoErrorIsReceipt
    <2>2. Verdict' = [Verdict EXCEPT ![e] = "delivered"]
      BY <1>2, <1>3, <1>6 DEF Verdict
    <2>3. Promise!Deliver(e)
      BY <1>4, <1>5, <2>1, <2>2 DEF Promise!Deliver, Told, Verdict
    <2> QED
      BY <2>3
  <1>7. CASE error[d] /\ known[d][e] + 1 >= MaxAttempts /\ match_status'[e] = "callback_failed"
    <2>1. posts[e] >= MaxAttempts
      <3>1. event[e].attempts \in Nat /\ posts[e] \in Nat /\ known[d][e] \in Nat
        BY <1>1, <1>2 DEF TypeOK, Row
      <3>2. Cardinality(Outstanding(e)) # 0
        BY OutstandingFinite, FS_EmptySet DEF Outstanding
      <3>3. event[e].attempts + Cardinality(Outstanding(e)) <= posts[e]
            /\ known[d][e] <= event[e].attempts
        BY <1>1, <1>2 DEF AttemptsWereMade, KnownIsPast
      <3>4. known[d][e] + 1 <= posts[e]
        BY <3>1, <3>2, <3>3, OutstandingFinite
      <3> QED
        BY <1>7, <3>1, <3>4, LimitAssumption
    <2>2. Verdict' = [Verdict EXCEPT ![e] = "failed"]
      BY <1>2, <1>3, <1>7 DEF Verdict
    <2>3. Promise!GiveUp(e)
      BY <1>4, <1>5, <2>1, <2>2 DEF Promise!GiveUp, Told, Verdict
    <2> QED
      BY <2>3
  <1>8. CASE match_status' = match_status
    <2>1. Verdict' = Verdict
      BY <1>8 DEF Verdict
    <2> QED
      BY <1>4, <1>5, <2>1 DEF Promise!ovars, Told, Verdict
  <1> QED
    BY <1>3, <1>6, <1>7, <1>8

(* Every step of the dispatchers is a step of the promise, or none. *)
LEMMA NextRefines == IInv /\ [Next]_vars => [Promise!Next]_(Promise!ovars)
  <1> SUFFICES ASSUME IInv, [Next]_vars
               PROVE  Promise!Next \/ UNCHANGED Promise!ovars
    OBVIOUS
  <1>1. ASSUME NEW e \in Events, InsertEvent(e) PROVE Promise!Next
    BY <1>1, InsertIsAnnounce DEF Promise!Next
  <1>2. ASSUME NEW e \in Events, TimeStep(e) PROVE UNCHANGED Promise!ovars
    <2>1. \A x \in Events : event'[x].status = event[x].status
      <3>1. event \in [Events -> Row] /\ event[e] \in Row
        BY DEF IInv, TypeOK
      <3>2. CASE BackoffPasses(e)
        <4>1. event' = [event EXCEPT ![e] = [event[e] EXCEPT !.due = TRUE]]
          BY <3>2 DEF BackoffPasses
        <4> QED
          BY <3>1, <4>1 DEF Row
      <3>3. CASE LockExpires(e)
        <4>1. event' = [event EXCEPT ![e] = [event[e] EXCEPT !.live = FALSE]]
          BY <3>3 DEF LockExpires
        <4> QED
          BY <3>1, <4>1 DEF Row
      <3> QED
        BY <1>2, <3>2, <3>3 DEF TimeStep
    <2>2. UNCHANGED <<match_status, history>>
      BY <1>2 DEF TimeStep, BackoffPasses, LockExpires
    <2> QED
      BY <2>1, <2>2, NothingSeen
  <1>3. ASSUME NEW d \in Dispatchers, Answer(d) PROVE Promise!Next
    BY <1>3, AnswerIsAttempt DEF Promise!Next
  <1>4. ASSUME NEW d \in Dispatchers, Persist(d) \/ PersistFails(d)
        PROVE  Promise!Next \/ UNCHANGED Promise!ovars
    <2>1. pc[d] = "persist" /\ UNCHANGED history
      BY <1>4 DEF Persist, PersistFails
    <2>2. CASE WriteOutcome(d)
      <3>1. PICK e \in Events : e = current[d]
        BY <2>1 DEF IInv, TypeOK
      <3>2. Promise!Deliver(e) \/ Promise!GiveUp(e) \/ UNCHANGED Promise!ovars
        BY <2>1, <2>2, <3>1, OutcomeIsVerdict
      <3> QED
        BY <3>2 DEF Promise!Next
    <2>3. CASE UNCHANGED rows
      BY <2>1, <2>3, NothingSeen DEF rows
    <2> QED
      BY <1>4, <2>2, <2>3 DEF Persist, PersistFails
  <1>5. ASSUME NEW d \in Dispatchers, CommitClaim(d) \/ ClaimFails(d) PROVE UNCHANGED Promise!ovars
    <2>1. ClaimRows(d) \/ UNCHANGED event
      BY <1>5 DEF CommitClaim, ClaimFails
    <2>2. UNCHANGED <<match_status, history>>
      BY <1>5 DEF CommitClaim, ClaimFails
    <2> QED
      BY <2>1, <2>2, ClaimSeesTold, NothingSeen
  <1>6. ASSUME NEW d \in Dispatchers, Release(d) PROVE UNCHANGED Promise!ovars
    <2>1. event[current[d]].status # "none" /\ event' \in [Events -> Row]
          /\ \A x \in Events : x # current[d] => event'[x] = event[x]
      <3>1. IInv'
        BY <1>6, ReleaseKeeps
      <3> QED
        BY <1>6, <3>1 DEF Release, release_claim, IInv, TypeOK, EventsAreTold, InTurn
    <2>2. current[d] \in Events => event'[current[d]].status = "pending"
      BY <1>6 DEF Release, release_claim, IInv, TypeOK, Row
    <2>3. UNCHANGED <<match_status, history>>
      BY <1>6 DEF Release
    <2> QED
      BY <2>1, <2>2, <2>3, NothingSeen
  <1>7. ASSUME NEW d \in Dispatchers,
               Snapshot(d) \/ LockRows(d) \/ EndLoop(d) \/ StartPost(d) \/ PostRaises(d)
                  \/ Restart(d) \/ ReleaseFails(d) \/ Crash(d)
        PROVE  UNCHANGED Promise!ovars
    <2>1. UNCHANGED <<event, match_status, history>>
      BY <1>7 DEF Snapshot, LockRows, EndLoop, StartPost, PostRaises, Restart, ReleaseFails,
             Crash, rows
    <2> QED
      BY <2>1, NothingSeen
  <1>8. CASE UNCHANGED vars
    BY <1>8, NothingSeen DEF vars, rows
  <1> QED
    BY <1>1, <1>2, <1>3, <1>4, <1>5, <1>6, <1>7, <1>8 DEF Next, DispatcherStep, FaultStep

(* The outbox keeps the promise: what tenants are POSTed and what matches  *)
(* say of it changes only as Outbox allows, so every verdict, and every    *)
(* change of one, rests on POSTs that were made, and none is taken back.   *)
THEOREM KeepsThePromise == Spec => Promise!Safety
  <1>1. Init => Promise!Init
    <2> SUFFICES ASSUME Init PROVE Promise!Init
      OBVIOUS
    <2>1. Told = [e \in Events |-> FALSE]
      BY DEF Told, Init, NoRow
    <2>2. Verdict = [e \in Events |-> "open"]
      BY DEF Verdict, Init
    <2>3. /\ posts = [e \in Events |-> 0]
          /\ received = [e \in Events |-> FALSE]
      BY DEF Init
    <2> QED
      BY <2>1, <2>2, <2>3 DEF Promise!Init, Told, Verdict
  <1> QED
    BY <1>1, Invariance, NextRefines, PTL DEF Spec, Promise!Safety
=============================================================================
