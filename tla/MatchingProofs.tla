--------------------------- MODULE MatchingProofs ---------------------------
(* Proofs of the safety properties of Matching, for all constants. *)
EXTENDS MatchingInv, FiniteSetTheorems, TLAPS

-----------------------------------------------------------------------------
(* What the operations on a transaction's draft do. *)

(* The rows the code writes are rows, and none of them is NULL. *)
LEMMA RowsAreTyped ==
    ASSUME NEW w \in Workers, NEW m \in MatchIds
    PROVE  /\ ReservedRow(w) \in Row /\ MatchedRow(m) \in Row
           /\ WaitingRow \in Row /\ NoRow \in Row
           /\ ReservedRow(w) # Nil /\ MatchedRow(m) # Nil /\ WaitingRow # Nil
  BY NilAssumption DEF Row, ReservedRow, MatchedRow, WaitingRow, NoRow

(* A transaction that has written nothing is a draft. *)
LEMMA NoDraftType == NoDraft \in Draft
  BY DEF NoDraft, Draft

(* A write touches one row of one draft. *)
LEMMA WriteLemma ==
    ASSUME tx \in [Workers -> Draft],
           NEW w \in Workers, NEW t \in Tickets, NEW row \in Row, Write(w, t, row)
    PROVE  /\ tx' \in [Workers -> Draft]
           /\ \A v \in Workers \ {w} : tx'[v] = tx[v]
           /\ \A x \in Tickets : tx'[w].rows[x] = IF x = t THEN row ELSE tx[w].rows[x]
           /\ tx'[w].matches = tx[w].matches
           /\ tx'[w].match_players = tx[w].match_players
           /\ tx'[w].callback_events = tx[w].callback_events
  BY DEF Write, Draft

(* Giving a transaction up empties its draft and no other one. *)
LEMMA DiscardLemma ==
    ASSUME tx \in [Workers -> Draft], NEW w \in Workers, Discard(w)
    PROVE  /\ tx' \in [Workers -> Draft]
           /\ tx'[w] = NoDraft
           /\ \A v \in Workers \ {w} : tx'[v] = tx[v]
           /\ \A x \in Tickets : tx'[w].rows[x] = Nil
           /\ tx'[w].matches = {} /\ tx'[w].match_players = {}
           /\ tx'[w].callback_events = {}
  BY NoDraftType DEF Discard, NoDraft

(* LinkTicket seats a ticket that this worker has reserved. *)
LEMMA LinkLemma ==
    ASSUME tx \in [Workers -> Draft], NEW w \in Workers, NEW t \in Tickets,
           NEW m \in MatchIds, request[t] \in Request,
           tx[w].rows[t] = ReservedRow(w), LinkTicket(w, t, m)
    PROVE  /\ tx' \in [Workers -> Draft]
           /\ \A v \in Workers \ {w} : tx'[v] = tx[v]
           /\ \A x \in Tickets : tx'[w].rows[x] = IF x = t THEN MatchedRow(m) ELSE tx[w].rows[x]
           /\ tx'[w].matches = tx[w].matches
           /\ tx'[w].match_players = tx[w].match_players \union {Seat(m, t)}
           /\ tx'[w].callback_events = tx[w].callback_events
  <1>1. View(w, t) = ReservedRow(w)
    BY RowsAreTyped DEF View
  <1>2. View(w, t).status = "reserved" /\ View(w, t).reserved_by = w
    BY <1>1 DEF ReservedRow
  <1>3. tx' = [tx EXCEPT ![w].match_players = @ \union {Seat(m, t)},
                         ![w].rows[t] = MatchedRow(m)]
    BY <1>2 DEF LinkTicket, Seat, MatchedRow
  <1>4. MatchedRow(m) \in Row
    BY RowsAreTyped
  <1>5. Seat(m, t) \in PlayerRow
    BY DEF Seat, PlayerRow, Request
  <1> QED
    BY <1>3, <1>4, <1>5 DEF Draft

-----------------------------------------------------------------------------
(* What a step leaves alone. *)

(* A worker whose own state is untouched keeps its invariant. *)
LEMMA OthersKept ==
    ASSUME NEW v \in Workers, WorkerInv(v), request' = request,
           tx'[v] = tx[v], pc'[v] = pc[v],
           batch'[v] = batch[v], partner'[v] = partner[v], at'[v] = at[v]
    PROVE  WorkerInv(v)'
  <1>1. PairAtHand(v)' /\ PairsAreOfOneQueue(v)'
    BY DEF WorkerInv, PairAtHand, PairsAreOfOneQueue
  <1>2. First(v)' = First(v) /\ Second(v)' = Second(v)
    BY DEF First, Second
  <1>3. ASSUME NEW t, NEW u, NEW m PROVE DraftOf(v, t, u, m)' <=> DraftOf(v, t, u, m)
    <2>1. Match(m, t)' = Match(m, t) /\ Seat(m, t)' = Seat(m, t)
          /\ Seat(m, u)' = Seat(m, u) /\ Event(m, t, u)' = Event(m, t, u)
      BY DEF Match, Seat, Event
    <2>2. \A x \in Tickets : Written(v, t, u, m, x)' = Written(v, t, u, m, x)
      BY DEF Written
    <2> QED
      BY <2>1, <2>2 DEF DraftOf
  <1>4. DraftFollowsTheCode(v)'
    BY <1>2, <1>3 DEF WorkerInv, DraftFollowsTheCode
  <1> QED
    BY <1>1, <1>4 DEF WorkerInv

(* The invariant of the tables rests on the tables and the requests only. *)
LEMMA TablesKept ==
    ASSUME TablesInv, UNCHANGED <<request, tables>>
    PROVE  TablesInv'
  BY DEF TablesInv, tables, TicketsAreSound, OneActivePerPlayer, SeatsAreTaken,
         MatchesAreSound, MatchedAreSeated, Active, SamePlayer, Seat, Event, PlayersOf

(* The invariant of the locks rests on the drafts and the tables only. *)
LEMMA LocksKept ==
    ASSUME LocksInv, UNCHANGED <<tx, ticket, matches>>
    PROVE  LocksInv'
  BY DEF LocksInv, LocksAreExclusive, LockedIsWaiting, FreshMatchIds

(* A discarded draft holds no lock and no match id. *)
LEMMA LocksGivenUp ==
    ASSUME LocksInv, tx \in [Workers -> Draft], NEW w \in Workers, Discard(w),
           UNCHANGED <<ticket, matches>>
    PROVE  LocksInv'
  BY DiscardLemma DEF LocksInv, LocksAreExclusive, LockedIsWaiting, FreshMatchIds

(* A SELECT lists tickets of the set it was asked for. *)
LEMMA ListingTypes ==
    ASSUME NEW S \in SUBSET Tickets, NEW n \in Nat, NEW s,
           s \in Oldest(S, n) \/ s \in Newest(S, n)
    PROVE  s \in Seq(Tickets) /\ \A i \in DOMAIN s : s[i] \in S
  BY DEF Oldest, Newest, Listing, BoundedSeq, SeqOf

(* find_pairs pairs positions of its list, in one queue each. *)
LEMMA PairingType ==
    ASSUME NEW b \in Seq(Tickets), NEW p \in find_pairs(b)
    PROVE  /\ p \in [DOMAIN b -> 0 .. Len(b)]
           /\ p \in Seq(Nat)
           /\ \A i \in DOMAIN b : p[i] # 0 =>
                request[b[i]].queue = request[b[p[i]]].queue
  <1>1. p \in [1 .. Len(b) -> 0 .. Len(b)] /\ DOMAIN b = 1 .. Len(b)
    BY DEF find_pairs
  <1>2. ASSUME NEW i \in 1 .. Len(b), p[i] # 0
        PROVE  tickets_compatible(b[i], b[p[i]])
    BY <1>1, <1>2 DEF find_pairs
  <1> QED
    BY <1>1, <1>2 DEF tickets_compatible

-----------------------------------------------------------------------------
(* The initial state. *)

(* The invariant holds of empty tables and idle workers. *)
LEMMA InitInv == Init => IInv
  <1> SUFFICES ASSUME Init PROVE IInv
    OBVIOUS
  <1>1. TypeOK
    BY NoDraftType, RowsAreTyped, StageAssumption DEF Init, TypeOK, Label, NoRow, Row
  <1>2. ASSUME NEW w \in Workers PROVE WorkerInv(w)
    BY DEF Init, WorkerInv, PairAtHand, PairsAreOfOneQueue, DraftFollowsTheCode,
           Working, InPair, HoldsFirst, HoldsSecond, HasMatch, LinkedFirst, LinkedSecond, HasEvent
  <1>3. LocksInv
    BY DEF Init, LocksInv, LocksAreExclusive, LockedIsWaiting, FreshMatchIds, NoDraft
  <1>4. TablesInv
    BY DEF Init, TablesInv, TicketsAreSound, OneActivePerPlayer, SeatsAreTaken,
           MatchesAreSound, MatchedAreSeated, NoRow, Active
  <1> QED
    BY <1>1, <1>2, <1>3, <1>4 DEF IInv

-----------------------------------------------------------------------------
(* Steps of one worker outside its transaction: no table and no draft      *)
(* changes, and every other worker is as it was.                           *)

(* A step that writes nothing has to keep the worker's own invariant only. *)
LEMMA LocalStep ==
    ASSUME IInv, NEW w \in Workers, TypeOK', WorkerInv(w)',
           UNCHANGED <<request, tables, tx>>,
           \A v \in Workers \ {w} : /\ pc'[v] = pc[v] /\ batch'[v] = batch[v]
                                    /\ partner'[v] = partner[v] /\ at'[v] = at[v]
    PROVE  IInv'
  <1>1. ASSUME NEW v \in Workers \ {w} PROVE WorkerInv(v)'
    BY OthersKept DEF IInv
  <1>2. LocksInv' /\ TablesInv'
    BY LocksKept, TablesKept DEF IInv, tables
  <1> QED
    BY <1>1, <1>2 DEF IInv

(* cleanup_expired_reservations finds nothing to clean up. *)
LEMMA CleanupReservationsKeeps ==
    ASSUME IInv, NEW w \in Workers, CleanupReservations(w)
    PROVE  IInv'
  <1>1. ticket' = ticket
    <2>1. {t \in Tickets : ticket[t].status = "reserved"} = {}
      BY DEF IInv, TablesInv, TicketsAreSound
    <2>2. ticket' = [t \in Tickets |-> ticket[t]]
      BY <2>1 DEF CleanupReservations
    <2> QED
      BY <2>2 DEF IInv, TypeOK
  <1>2. TypeOK'
    BY <1>1 DEF IInv, TypeOK, CleanupReservations, Goto, Label, local
  <1>3. WorkerInv(w)'
    BY <1>1 DEF IInv, TypeOK, WorkerInv, PairAtHand, PairsAreOfOneQueue, DraftFollowsTheCode,
          CleanupReservations, Goto, local, Working, InPair,
          HoldsFirst, HoldsSecond, HasMatch, LinkedFirst, LinkedSecond, HasEvent
  <1> QED
    BY <1>1, <1>2, <1>3, LocalStep DEF CleanupReservations, Goto, local, tables, IInv, TypeOK

(* The first SELECT of fetch_waiting_tickets. *)
LEMMA FetchTicketsKeeps ==
    ASSUME IInv, NEW w \in Workers, NEW listed \in SUBSET Partitions, FetchTickets(w, listed)
    PROVE  IInv'
  <1>1. newest_limit \in Nat
    BY BatchAssumption DEF newest_limit
  <1>2. PICK s \in Seq(Tickets) : /\ batch' = [batch EXCEPT ![w] = s]
                                  /\ \A i \in DOMAIN s : s[i] \in WaitingIn(listed)
    <2>1. WaitingIn(listed) \subseteq Tickets
      BY DEF WaitingIn
    <2>2. PICK s : /\ batch' = [batch EXCEPT ![w] = s]
                   /\ \/ s \in Newest(WaitingIn(listed), newest_limit)
                      \/ s \in Oldest(WaitingIn(listed), BatchSize)
      BY DEF FetchTickets
    <2> QED
      BY <1>1, <2>1, <2>2, ListingTypes, BatchAssumption
  <1>3. \A i \in DOMAIN s : request[s[i]] # Nil
    BY <1>2 DEF WaitingIn, IInv, TablesInv, TicketsAreSound
  <1>4. pc'[w] \in {"fetch_oldest", "find"} /\ pc' = [pc EXCEPT ![w] = pc'[w]]
    BY DEF FetchTickets, Goto, IInv, TypeOK
  <1>5. partner[w] = <<>> /\ partner' = partner
    BY DEF FetchTickets, IInv, WorkerInv, PairAtHand, Working, InPair
  <1>6. TypeOK'
    BY <1>2, <1>4, <1>5 DEF FetchTickets, IInv, TypeOK, tables, Label
  <1>7. WorkerInv(w)'
    BY <1>2, <1>3, <1>4, <1>5 DEF FetchTickets, IInv, TypeOK, WorkerInv, PairAtHand,
          PairsAreOfOneQueue, DraftFollowsTheCode, Working, InPair,
          HoldsFirst, HoldsSecond, HasMatch, LinkedFirst, LinkedSecond, HasEvent
  <1> QED
    BY <1>2, <1>4, <1>6, <1>7, LocalStep DEF FetchTickets, IInv, TypeOK

(* The second SELECT adds waiting tickets of the partitions of the first.  *)
LEMMA SecondListing ==
    ASSUME NEW w \in Workers, FetchOldest(w)
    PROVE  \E s \in Seq(Tickets) : /\ batch' = [batch EXCEPT ![w] = @ \o s]
                                   /\ \A i \in DOMAIN s : s[i] \in WaitingIn(owned[w])
  <1>1. oldest_limit \in Nat
    BY BatchAssumption DEF oldest_limit, newest_limit
  <1>2. WaitingIn(owned[w]) \subseteq Tickets
    BY DEF WaitingIn
  <1>3. PICK s \in Oldest(WaitingIn(owned[w]), oldest_limit) :
           \E unseen \in Oldest(Range(s) \ Range(batch[w]), oldest_limit) :
              batch' = [batch EXCEPT ![w] = @ \o unseen]
    BY DEF FetchOldest
  <1>4. Range(s) \subseteq WaitingIn(owned[w])
    BY <1>1, <1>2, ListingTypes DEF Range
  <1>5. Range(s) \ Range(batch[w]) \subseteq Tickets
    BY <1>2, <1>4
  <1>6. PICK unseen \in Oldest(Range(s) \ Range(batch[w]), oldest_limit) :
           batch' = [batch EXCEPT ![w] = @ \o unseen]
    BY <1>3
  <1>7. /\ unseen \in Seq(Tickets)
        /\ \A i \in DOMAIN unseen : unseen[i] \in Range(s) \ Range(batch[w])
    BY <1>1, <1>5, ListingTypes
  <1> QED
    BY <1>4, <1>6, <1>7

(* The second SELECT of fetch_waiting_tickets. *)
LEMMA FetchOldestKeeps ==
    ASSUME IInv, NEW w \in Workers, FetchOldest(w)
    PROVE  IInv'
  <1>2. PICK s \in Seq(Tickets) : /\ batch' = [batch EXCEPT ![w] = @ \o s]
                                  /\ \A i \in DOMAIN s : s[i] \in WaitingIn(owned[w])
    BY SecondListing
  <1>3. \A i \in DOMAIN s : request[s[i]] # Nil
    BY <1>2 DEF WaitingIn, IInv, TablesInv, TicketsAreSound
  <1>4. batch[w] \in Seq(Tickets) /\ \A i \in DOMAIN batch[w] : request[batch[w][i]] # Nil
    BY DEF IInv, TypeOK, WorkerInv, PairsAreOfOneQueue
  <1>5. batch'[w] = batch[w] \o s
    BY <1>2 DEF IInv, TypeOK
  <1>6. batch'[w] \in Seq(Tickets) /\ \A i \in DOMAIN batch'[w] : request[batch'[w][i]] # Nil
    BY <1>3, <1>4, <1>5
  <1>7. partner[w] = <<>> /\ partner' = partner
    BY DEF FetchOldest, IInv, WorkerInv, PairAtHand, Working, InPair
  <1>8. TypeOK'
    BY <1>2, <1>6, <1>7 DEF FetchOldest, IInv, TypeOK, tables, Label, Goto
  <1>9. WorkerInv(w)'
    BY <1>6, <1>7 DEF FetchOldest, IInv, TypeOK, WorkerInv, PairAtHand, Goto,
          PairsAreOfOneQueue, DraftFollowsTheCode, Working, InPair,
          HoldsFirst, HoldsSecond, HasMatch, LinkedFirst, LinkedSecond, HasEvent
  <1> QED
    BY <1>2, <1>8, <1>9, LocalStep DEF FetchOldest, Goto, IInv, TypeOK

(* find_pairs leaves pairs of one queue. *)
LEMMA FindPairsKeeps ==
    ASSUME IInv, NEW w \in Workers, FindPairs(w)
    PROVE  IInv'
  <1>1. batch[w] \in Seq(Tickets)
    BY DEF IInv, TypeOK
  <1>2. PICK p \in find_pairs(batch[w]) : partner' = [partner EXCEPT ![w] = p]
    BY DEF FindPairs
  <1>3. /\ p \in [DOMAIN batch[w] -> 0 .. Len(batch[w])]
        /\ p \in Seq(Nat)
        /\ \A i \in DOMAIN batch[w] : p[i] # 0 =>
             request[batch[w][i]].queue = request[batch[w][p[i]]].queue
    BY <1>1, PairingType
  <1>4. partner'[w] = p
    BY <1>2 DEF IInv, TypeOK
  <1>5. TypeOK'
    BY <1>2, <1>3 DEF FindPairs, IInv, TypeOK, tables, Label, Goto
  <1>6. WorkerInv(w)'
    BY <1>3, <1>4 DEF FindPairs, IInv, TypeOK, WorkerInv, PairAtHand, Goto,
          PairsAreOfOneQueue, DraftFollowsTheCode, Working, InPair,
          HoldsFirst, HoldsSecond, HasMatch, LinkedFirst, LinkedSecond, HasEvent
  <1> QED
    BY <1>2, <1>5, <1>6, LocalStep DEF FindPairs, Goto, IInv, TypeOK

(* The loop turns to a pair of its batch. *)
LEMMA StartPairKeeps ==
    ASSUME IInv, NEW w \in Workers, StartPair(w)
    PROVE  IInv'
  <1>1. PICK i \in Pending(w) : at' = [at EXCEPT ![w] = i]
    BY DEF StartPair
  <1>2. batch[w] \in Seq(Tickets) /\ partner[w] \in [DOMAIN batch[w] -> 0 .. Len(batch[w])]
    BY DEF StartPair, IInv, TypeOK, WorkerInv, PairAtHand
  <1>3. i \in DOMAIN batch[w] /\ partner[w][i] \in DOMAIN batch[w] /\ i \in Nat \ {0}
    BY <1>1, <1>2 DEF Pending
  <1>4. at'[w] = i
    BY <1>1 DEF IInv, TypeOK
  <1>5. TypeOK'
    BY <1>1, <1>3 DEF StartPair, IInv, TypeOK, tables, Label, Goto, InPair
  <1>6. WorkerInv(w)'
    BY <1>2, <1>3, <1>4 DEF StartPair, IInv, TypeOK, WorkerInv, PairAtHand, Goto,
          PairsAreOfOneQueue, DraftFollowsTheCode, Working, InPair,
          HoldsFirst, HoldsSecond, HasMatch, LinkedFirst, LinkedSecond, HasEvent
  <1> QED
    BY <1>1, <1>5, <1>6, LocalStep DEF StartPair, Goto, IInv, TypeOK

(* Leaving the loop, whatever the way: the local state is forgotten.       *)
LEMMA ForgetKeeps ==
    ASSUME IInv, NEW w \in Workers, Forget(w), NEW label \in {"idle", "down"}, Goto(w, label),
           tx[w] = NoDraft, UNCHANGED <<request, waited, tables, tx>>
    PROVE  IInv'
  <1>1. TypeOK'
    BY DEF Forget, IInv, TypeOK, tables, Label, Goto
  <1>2. WorkerInv(w)'
    BY DEF Forget, IInv, TypeOK, WorkerInv, PairAtHand, Goto,
          PairsAreOfOneQueue, DraftFollowsTheCode, Working, InPair,
          HoldsFirst, HoldsSecond, HasMatch, LinkedFirst, LinkedSecond, HasEvent
  <1> QED
    BY <1>1, <1>2, LocalStep DEF Forget, Goto, IInv, TypeOK

(* Outside a pair there is no open transaction. *)
LEMMA NoDraftOutside ==
    ASSUME IInv, NEW w \in Workers, pc[w] \notin HoldsFirst
    PROVE  tx[w] = NoDraft
  BY DEF IInv, WorkerInv, DraftFollowsTheCode

(* The loop ends, or fails between two pairs. *)
LEMMA EndLoopKeeps ==
    ASSUME IInv, NEW w \in Workers, EndLoop(w) \/ LoopFails(w)
    PROVE  IInv'
  <1>1. tx[w] = NoDraft
    BY NoDraftOutside DEF EndLoop, LoopFails,
         HoldsFirst, HoldsSecond, HasMatch, LinkedFirst, LinkedSecond, HasEvent
  <1> QED
    BY <1>1, ForgetKeeps DEF EndLoop, LoopFails

(* A new process starts with nothing. *)
LEMMA RestartKeeps ==
    ASSUME IInv, NEW w \in Workers, Restart(w)
    PROVE  IInv'
  <1>1. TypeOK'
    BY DEF Restart, local, IInv, TypeOK, tables, Label, Goto
  <1>2. WorkerInv(w)'
    BY DEF Restart, local, IInv, TypeOK, WorkerInv, PairAtHand, Goto,
          PairsAreOfOneQueue, DraftFollowsTheCode, Working, InPair,
          HoldsFirst, HoldsSecond, HasMatch, LinkedFirst, LinkedSecond, HasEvent
  <1> QED
    BY <1>1, <1>2, LocalStep DEF Restart, local, Goto, IInv, TypeOK

(* Time passes. *)
LEMMA PassThresholdKeeps ==
    ASSUME IInv, NEW t \in Tickets, PassThreshold(t)
    PROVE  IInv'
  <1>1. TypeOK'
    BY StageAssumption DEF PassThreshold, local, IInv, TypeOK, tables
  <1>2. \A w \in Workers : WorkerInv(w)'
    BY OthersKept DEF PassThreshold, local, IInv
  <1>3. LocksInv' /\ TablesInv'
    BY LocksKept, TablesKept DEF PassThreshold, tables, IInv
  <1> QED
    BY <1>1, <1>2, <1>3 DEF IInv

-----------------------------------------------------------------------------
(* Steps that write to the draft: committed rows stay, the locks grow only *)
(* by a ticket that nobody holds.                                          *)

(* The two tickets of the pair at hand exist and share a queue. *)
LEMMA PairFacts ==
    ASSUME IInv, NEW w \in Workers, pc[w] \in Working
    PROVE  /\ First(w) \in Tickets /\ Second(w) \in Tickets
           /\ request[First(w)] \in Request /\ request[Second(w)] \in Request
           /\ request[First(w)].queue = request[Second(w)].queue
  <1>1. batch[w] \in Seq(Tickets) /\ request \in [Tickets -> Request \union {Nil}]
    BY DEF IInv, TypeOK
  <1>2. at[w] \in DOMAIN batch[w] /\ partner[w][at[w]] \in DOMAIN batch[w]
    BY DEF IInv, WorkerInv, PairAtHand
  <1>3. First(w) \in Tickets /\ Second(w) \in Tickets
    BY <1>1, <1>2 DEF First, Second
  <1>4. request[First(w)] # Nil /\ request[Second(w)] # Nil
    BY <1>2 DEF IInv, WorkerInv, PairsAreOfOneQueue, First, Second
  <1>5. partner[w][at[w]] # 0
    BY <1>1, <1>2
  <1>6. request[First(w)].queue = request[Second(w)].queue
    BY <1>2, <1>5 DEF IInv, WorkerInv, PairsAreOfOneQueue, First, Second, Working
  <1> QED
    BY <1>1, <1>3, <1>4, <1>6

(* A step that writes to the draft of a pair, and to nothing else. *)
LEMMA DraftStep ==
    ASSUME IInv, NEW w \in Workers, tx' \in [Workers -> Draft],
           pc[w] \in Working, NEW label \in Working, Goto(w, label),
           DraftFollowsTheCode(w)', LocksInv',
           UNCHANGED <<request, waited, tables, local>>,
           \A v \in Workers \ {w} : tx'[v] = tx[v]
    PROVE  IInv'
  <1>1. TypeOK'
    BY DEF IInv, TypeOK, Goto, tables, local, Label, Working
  <1>2. WorkerInv(w)'
    <2>1. pc'[w] = label
      BY DEF Goto, IInv, TypeOK
    <2>2. PairAtHand(w)' /\ PairsAreOfOneQueue(w)'
      BY <2>1 DEF IInv, WorkerInv, PairAtHand, PairsAreOfOneQueue, local
    <2> QED
      BY <2>2 DEF WorkerInv
  <1>3. ASSUME NEW v \in Workers \ {w} PROVE WorkerInv(v)'
    BY OthersKept DEF IInv, TypeOK, Goto, local
  <1>4. TablesInv'
    BY TablesKept DEF IInv
  <1> QED
    BY <1>1, <1>2, <1>3, <1>4 DEF IInv

(* A step that takes no new row and inserts no match keeps the locks.      *)
LEMMA LocksStay ==
    ASSUME LocksInv, NEW w \in Workers, UNCHANGED <<ticket, matches>>,
           \A v \in Workers \ {w} : tx'[v] = tx[v],
           \A x \in Tickets : tx'[w].rows[x] # Nil => tx[w].rows[x] # Nil,
           tx'[w].matches = tx[w].matches
    PROVE  LocksInv'
  <1>1. \A v \in Workers : /\ \A x \in Tickets : tx'[v].rows[x] # Nil => tx[v].rows[x] # Nil
                           /\ tx'[v].matches = tx[v].matches
    OBVIOUS
  <1> QED
    BY <1>1 DEF LocksInv, LocksAreExclusive, LockedIsWaiting, FreshMatchIds

(* _reserve_ticket: the row becomes reserved by w, and only w holds it.    *)
LEMMA ReserveLemma ==
    ASSUME IInv, NEW w \in Workers, NEW t \in Tickets, Reserve(w, t),
           UNCHANGED <<ticket, matches>>,
           tx[w].rows[t] = Nil \/ tx[w].rows[t].status # "waiting"
    PROVE  /\ tx' \in [Workers -> Draft]
           /\ \A v \in Workers \ {w} : tx'[v] = tx[v]
           /\ \A x \in Tickets : tx'[w].rows[x] = IF x = t THEN ReservedRow(w) ELSE tx[w].rows[x]
           /\ tx'[w].matches = tx[w].matches
           /\ tx'[w].match_players = tx[w].match_players
           /\ tx'[w].callback_events = tx[w].callback_events
           /\ tx[w].rows[t] = Nil
           /\ LocksInv'
  <1>1. tx[w].rows[t] = Nil /\ View(w, t) = ticket[t]
    BY DEF Reserve, View
  <1>2. ticket[t] = WaitingRow
    BY <1>1 DEF Reserve, IInv, TablesInv, TicketsAreSound
  <1>3. Write(w, t, ReservedRow(w))
    BY <1>1, <1>2 DEF Reserve, WaitingRow, ReservedRow
  <1>4. ReservedRow(w) \in Row
    BY DEF ReservedRow, Row
  <1>5. /\ tx' \in [Workers -> Draft]
        /\ \A v \in Workers \ {w} : tx'[v] = tx[v]
        /\ \A x \in Tickets : tx'[w].rows[x] = IF x = t THEN ReservedRow(w) ELSE tx[w].rows[x]
        /\ tx'[w].matches = tx[w].matches
        /\ tx'[w].match_players = tx[w].match_players
        /\ tx'[w].callback_events = tx[w].callback_events
    BY <1>3, <1>4, WriteLemma DEF Reserve, IInv, TypeOK
  <1>6. \A v \in Workers \ {w} : tx[v].rows[t] = Nil
    BY DEF Reserve, LockedByOther
  <1>7. LocksAreExclusive' /\ LockedIsWaiting'
    BY <1>2, <1>5, <1>6 DEF IInv, LocksInv, LocksAreExclusive, LockedIsWaiting, WaitingRow
  <1>8. \A v \in Workers : tx'[v].matches = tx[v].matches
    BY <1>5
  <1>9. FreshMatchIds'
    BY <1>8 DEF IInv, LocksInv, FreshMatchIds
  <1> QED
    BY <1>1, <1>5, <1>7, <1>9 DEF LocksInv

(* The first _reserve_ticket succeeds. *)
LEMMA ReserveFirstKeeps ==
    ASSUME IInv, NEW w \in Workers, ReserveFirst(w)
    PROVE  IInv'
  <1>1. pc[w] = "reserve_first" /\ pc[w] \in Working /\ pc'[w] = "reserve_second"
    BY DEF ReserveFirst, Working, InPair, Goto, IInv, TypeOK
  <1>2. tx[w] = NoDraft
    BY <1>1, NoDraftOutside DEF HoldsFirst, HoldsSecond, HasMatch, LinkedFirst, LinkedSecond, HasEvent
  <1>3. First(w)' = First(w) /\ Second(w)' = Second(w) /\ First(w) \in Tickets
    BY <1>1, PairFacts DEF ReserveFirst, local, First, Second
  <1>4. tx[w].rows[First(w)] = Nil
    BY <1>2, <1>3 DEF NoDraft
  <1>5. /\ tx' \in [Workers -> Draft]
        /\ \A v \in Workers \ {w} : tx'[v] = tx[v]
        /\ \A x \in Tickets : tx'[w].rows[x] = IF x = First(w) THEN ReservedRow(w) ELSE Nil
        /\ tx'[w].matches = {} /\ tx'[w].match_players = {} /\ tx'[w].callback_events = {}
        /\ LocksInv'
    BY <1>2, <1>3, <1>4, ReserveLemma DEF ReserveFirst, NoDraft, tables
  <1>6. DraftOf(w, First(w), Second(w), Nil)'
    BY <1>1, <1>3, <1>5 DEF DraftOf, Written, ReservedRow,
       HoldsFirst, HoldsSecond, HasMatch, LinkedFirst, LinkedSecond, HasEvent
  <1>7. DraftFollowsTheCode(w)'
    BY <1>1, <1>6 DEF DraftFollowsTheCode,
       HoldsFirst, HoldsSecond, HasMatch, LinkedFirst, LinkedSecond, HasEvent
  <1> QED
    BY <1>1, <1>5, <1>7, DraftStep DEF ReserveFirst, Working, InPair

(* The second _reserve_ticket succeeds; the tickets differ. *)
LEMMA ReserveSecondKeeps ==
    ASSUME IInv, NEW w \in Workers, ReserveSecond(w)
    PROVE  IInv'
  <1> DEFINE t == First(w)
             u == Second(w)
  <1>1. pc[w] = "reserve_second" /\ pc[w] \in Working /\ pc'[w] = "insert_match"
    BY DEF ReserveSecond, Working, InPair, Goto, IInv, TypeOK
  <1>2. First(w)' = t /\ Second(w)' = u /\ t \in Tickets /\ u \in Tickets
    BY <1>1, PairFacts DEF ReserveSecond, local, First, Second
  <1>3. /\ \A x \in Tickets : tx[w].rows[x] = IF x = t THEN ReservedRow(w) ELSE Nil
        /\ tx[w].matches = {} /\ tx[w].match_players = {} /\ tx[w].callback_events = {}
    BY <1>1 DEF IInv, WorkerInv, DraftFollowsTheCode, DraftOf, Written,
       HoldsFirst, HoldsSecond, HasMatch, LinkedFirst, LinkedSecond, HasEvent
  <1>4. tx[w].rows[u] = Nil \/ tx[w].rows[u].status # "waiting"
    BY <1>2, <1>3 DEF ReservedRow
  <1>5. /\ tx' \in [Workers -> Draft]
        /\ \A v \in Workers \ {w} : tx'[v] = tx[v]
        /\ \A x \in Tickets : tx'[w].rows[x] = IF x = u THEN ReservedRow(w) ELSE tx[w].rows[x]
        /\ tx'[w].matches = {} /\ tx'[w].match_players = {} /\ tx'[w].callback_events = {}
        /\ tx[w].rows[u] = Nil
        /\ LocksInv'
    BY <1>2, <1>3, <1>4, ReserveLemma DEF ReserveSecond, tables
  <1>6. t # u
    BY <1>2, <1>3, <1>5, RowsAreTyped, NilAssumption DEF ReservedRow, Row
  <1>7. DraftOf(w, First(w), Second(w), Nil)'
    BY <1>1, <1>2, <1>3, <1>5 DEF DraftOf, Written, ReservedRow,
       HoldsFirst, HoldsSecond, HasMatch, LinkedFirst, LinkedSecond, HasEvent
  <1>8. DraftFollowsTheCode(w)'
    BY <1>1, <1>2, <1>6, <1>7 DEF DraftFollowsTheCode,
       HoldsFirst, HoldsSecond, HasMatch, LinkedFirst, LinkedSecond, HasEvent
  <1> QED
    BY <1>1, <1>5, <1>8, DraftStep DEF ReserveSecond, Working, InPair

(* INSERT INTO matches with a fresh id. *)
LEMMA InsertMatchKeeps ==
    ASSUME IInv, NEW w \in Workers, InsertMatch(w)
    PROVE  IInv'
  <1> DEFINE t == First(w)
             u == Second(w)
  <1>1. pc[w] = "insert_match" /\ pc[w] \in Working /\ pc'[w] = "link_first"
    BY DEF InsertMatch, Working, InPair, Goto, IInv, TypeOK
  <1>2. /\ First(w)' = t /\ Second(w)' = u /\ t \in Tickets /\ u \in Tickets
        /\ request[t] \in Request /\ request' = request
    BY <1>1, PairFacts DEF InsertMatch, local, First, Second
  <1>3. /\ t # u
        /\ \A x \in Tickets : tx[w].rows[x] = IF x = t \/ x = u THEN ReservedRow(w) ELSE Nil
        /\ tx[w].matches = {} /\ tx[w].match_players = {} /\ tx[w].callback_events = {}
    <2>1. /\ pc[w] \in HoldsFirst /\ pc[w] \in HoldsSecond /\ pc[w] \notin HasMatch
          /\ pc[w] \notin LinkedFirst /\ pc[w] \notin LinkedSecond /\ pc[w] \notin HasEvent
      BY <1>1 DEF HoldsFirst, HoldsSecond, HasMatch, LinkedFirst, LinkedSecond, HasEvent
    <2>2. t # u /\ \E m \in MatchIds \union {Nil} : DraftOf(w, t, u, m)
      BY <2>1 DEF IInv, WorkerInv, DraftFollowsTheCode
    <2>3. PICK m \in MatchIds \union {Nil} : DraftOf(w, t, u, m)
      BY <2>2
    <2>4. \A x \in Tickets : tx[w].rows[x] = IF x = t \/ x = u THEN ReservedRow(w) ELSE Nil
      BY <2>1, <2>2, <2>3 DEF DraftOf, Written
    <2>5. tx[w].matches = {} /\ tx[w].match_players = {} /\ tx[w].callback_events = {}
      BY <2>1, <2>3 DEF DraftOf
    <2> QED
      BY <2>2, <2>4, <2>5
  <1>4. PICK m \in MatchIds :
          /\ \A r \in matches : r.match_id # m
          /\ \A v \in Workers : \A r \in tx[v].matches : r.match_id # m
          /\ tx' = [tx EXCEPT ![w].matches = {Match(m, t)}]
    BY DEF InsertMatch, Match
  <1>5. Match(m, t) \in MatchRow
    BY <1>2 DEF Match, MatchRow, Request
  <1>6. /\ tx' \in [Workers -> Draft]
        /\ \A v \in Workers \ {w} : tx'[v] = tx[v]
        /\ tx'[w].rows = tx[w].rows
        /\ tx'[w].matches = {Match(m, t)}
        /\ tx'[w].match_players = {} /\ tx'[w].callback_events = {}
    BY <1>3, <1>4, <1>5 DEF IInv, TypeOK, Draft
  <1>7. LocksAreExclusive' /\ LockedIsWaiting'
    BY <1>6 DEF IInv, LocksInv, LocksAreExclusive, LockedIsWaiting, InsertMatch, tables
  <1>8. FreshMatchIds'
    <2>1. Match(m, t).match_id = m /\ matches' = matches
      BY DEF Match, InsertMatch, tables
    <2> QED
      BY <1>4, <1>6, <2>1 DEF IInv, LocksInv, FreshMatchIds
  <1>9. DraftOf(w, First(w), Second(w), m)'
    <2>1. Match(m, t)' = Match(m, t)
      BY <1>2 DEF Match
    <2> QED
      BY <1>1, <1>2, <1>3, <1>6, <2>1 DEF DraftOf, Written, Match, ReservedRow,
         HoldsFirst, HoldsSecond, HasMatch, LinkedFirst, LinkedSecond, HasEvent
  <1>10. DraftFollowsTheCode(w)'
    BY <1>1, <1>2, <1>3, <1>9 DEF DraftFollowsTheCode,
       HoldsFirst, HoldsSecond, HasMatch, LinkedFirst, LinkedSecond, HasEvent
  <1> QED
    BY <1>1, <1>6, <1>7, <1>8, <1>10, DraftStep DEF InsertMatch, Working, InPair, LocksInv

(* The first ticket is seated and matched. *)
LEMMA LinkFirstKeeps ==
    ASSUME IInv, NEW w \in Workers, LinkFirst(w)
    PROVE  IInv'
  <1> DEFINE t == First(w)
             u == Second(w)
  <1>1. pc[w] = "link_first" /\ pc[w] \in Working /\ pc'[w] = "link_second"
    BY DEF LinkFirst, Working, InPair, Goto, IInv, TypeOK
  <1>2. /\ First(w)' = t /\ Second(w)' = u /\ t \in Tickets /\ u \in Tickets
        /\ request[t] \in Request /\ request' = request
    BY <1>1, PairFacts DEF LinkFirst, local, First, Second
  <1>3. PICK m \in MatchIds :
          /\ t # u
          /\ \A x \in Tickets : tx[w].rows[x] = IF x = t \/ x = u THEN ReservedRow(w) ELSE Nil
          /\ tx[w].matches = {Match(m, t)}
          /\ tx[w].match_players = {} /\ tx[w].callback_events = {}
    <2>1. /\ pc[w] \in HoldsFirst /\ pc[w] \in HoldsSecond /\ pc[w] \in HasMatch
          /\ pc[w] \notin LinkedFirst /\ pc[w] \notin LinkedSecond /\ pc[w] \notin HasEvent
      BY <1>1 DEF HoldsFirst, HoldsSecond, HasMatch, LinkedFirst, LinkedSecond, HasEvent
    <2>2. t # u /\ \E m \in MatchIds : DraftOf(w, t, u, m)
      BY <2>1 DEF IInv, WorkerInv, DraftFollowsTheCode
    <2>3. PICK m \in MatchIds : DraftOf(w, t, u, m)
      BY <2>2
    <2>4. \A x \in Tickets : tx[w].rows[x] = IF x = t \/ x = u THEN ReservedRow(w) ELSE Nil
      BY <2>1, <2>2, <2>3 DEF DraftOf, Written
    <2>5. /\ tx[w].matches = {Match(m, t)}
          /\ tx[w].match_players = {} /\ tx[w].callback_events = {}
      BY <2>1, <2>3 DEF DraftOf
    <2> QED
      BY <2>2, <2>4, <2>5
  <1>4. LinkTicket(w, t, m)
    BY <1>3 DEF LinkFirst, Match
  <1>5. /\ tx' \in [Workers -> Draft]
        /\ \A v \in Workers \ {w} : tx'[v] = tx[v]
        /\ \A x \in Tickets : tx'[w].rows[x] = IF x = t THEN MatchedRow(m)
                                               ELSE IF x = u THEN ReservedRow(w) ELSE Nil
        /\ tx'[w].matches = tx[w].matches
        /\ tx'[w].match_players = {Seat(m, t)} /\ tx'[w].callback_events = {}
    <2>1. tx \in [Workers -> Draft] /\ tx[w].rows[t] = ReservedRow(w)
      BY <1>2, <1>3 DEF IInv, TypeOK
    <2>2. /\ tx' \in [Workers -> Draft]
          /\ \A v \in Workers \ {w} : tx'[v] = tx[v]
          /\ \A x \in Tickets : tx'[w].rows[x] = IF x = t THEN MatchedRow(m) ELSE tx[w].rows[x]
          /\ tx'[w].matches = tx[w].matches
          /\ tx'[w].match_players = tx[w].match_players \union {Seat(m, t)}
          /\ tx'[w].callback_events = tx[w].callback_events
      BY <1>2, <1>4, <2>1, LinkLemma
    <2> QED
      BY <1>3, <2>2
  <1>6. LocksInv'
    BY <1>3, <1>5, LocksStay, RowsAreTyped DEF LinkFirst, tables, IInv
  <1>7. DraftOf(w, First(w), Second(w), m)'
    <2>1. Match(m, t)' = Match(m, t) /\ Seat(m, t)' = Seat(m, t)
      BY <1>2 DEF Match, Seat
    <2> QED
      BY <1>1, <1>2, <1>3, <1>5, <2>1 DEF DraftOf, Written, Match, Seat, ReservedRow, MatchedRow,
         HoldsFirst, HoldsSecond, HasMatch, LinkedFirst, LinkedSecond, HasEvent
  <1>8. DraftFollowsTheCode(w)'
    BY <1>1, <1>2, <1>3, <1>7 DEF DraftFollowsTheCode,
       HoldsFirst, HoldsSecond, HasMatch, LinkedFirst, LinkedSecond, HasEvent
  <1> QED
    BY <1>1, <1>5, <1>6, <1>8, DraftStep DEF LinkFirst, Working, InPair

(* The second ticket is seated and matched. *)
LEMMA LinkSecondKeeps ==
    ASSUME IInv, NEW w \in Workers, LinkSecond(w)
    PROVE  IInv'
  <1> DEFINE t == First(w)
             u == Second(w)
  <1>1. pc[w] = "link_second" /\ pc[w] \in Working /\ pc'[w] = "insert_event"
    BY DEF LinkSecond, Working, InPair, Goto, IInv, TypeOK
  <1>2. /\ First(w)' = t /\ Second(w)' = u /\ t \in Tickets /\ u \in Tickets
        /\ request[u] \in Request /\ request' = request
    BY <1>1, PairFacts DEF LinkSecond, local, First, Second
  <1>3. PICK m \in MatchIds :
          /\ t # u
          /\ \A x \in Tickets : tx[w].rows[x] = IF x = t THEN MatchedRow(m)
                                                ELSE IF x = u THEN ReservedRow(w) ELSE Nil
          /\ tx[w].matches = {Match(m, t)}
          /\ tx[w].match_players = {Seat(m, t)} /\ tx[w].callback_events = {}
    <2>1. /\ pc[w] \in HoldsFirst /\ pc[w] \in HoldsSecond /\ pc[w] \in HasMatch
          /\ pc[w] \in LinkedFirst /\ pc[w] \notin LinkedSecond /\ pc[w] \notin HasEvent
      BY <1>1 DEF HoldsFirst, HoldsSecond, HasMatch, LinkedFirst, LinkedSecond, HasEvent
    <2>2. t # u /\ \E m \in MatchIds : DraftOf(w, t, u, m)
      BY <2>1 DEF IInv, WorkerInv, DraftFollowsTheCode
    <2>3. PICK m \in MatchIds : DraftOf(w, t, u, m)
      BY <2>2
    <2>4. \A x \in Tickets : tx[w].rows[x] = IF x = t THEN MatchedRow(m)
                                             ELSE IF x = u THEN ReservedRow(w) ELSE Nil
      BY <2>1, <2>2, <2>3 DEF DraftOf, Written
    <2>5. /\ tx[w].matches = {Match(m, t)}
          /\ tx[w].match_players = {Seat(m, t)} /\ tx[w].callback_events = {}
      BY <2>1, <2>3 DEF DraftOf
    <2> QED
      BY <2>2, <2>4, <2>5
  <1>4. LinkTicket(w, u, m)
    BY <1>3 DEF LinkSecond, Match
  <1>5. /\ tx' \in [Workers -> Draft]
        /\ \A v \in Workers \ {w} : tx'[v] = tx[v]
        /\ \A x \in Tickets : tx'[w].rows[x] = IF x = t \/ x = u THEN MatchedRow(m) ELSE Nil
        /\ tx'[w].matches = tx[w].matches
        /\ tx'[w].match_players = {Seat(m, t)} \union {Seat(m, u)}
        /\ tx'[w].callback_events = {}
    <2>1. tx \in [Workers -> Draft] /\ tx[w].rows[u] = ReservedRow(w)
      BY <1>2, <1>3 DEF IInv, TypeOK
    <2>2. /\ tx' \in [Workers -> Draft]
          /\ \A v \in Workers \ {w} : tx'[v] = tx[v]
          /\ \A x \in Tickets : tx'[w].rows[x] = IF x = u THEN MatchedRow(m) ELSE tx[w].rows[x]
          /\ tx'[w].matches = tx[w].matches
          /\ tx'[w].match_players = tx[w].match_players \union {Seat(m, u)}
          /\ tx'[w].callback_events = tx[w].callback_events
      BY <1>2, <1>4, <2>1, LinkLemma
    <2> QED
      BY <1>3, <2>2
  <1>6. LocksInv'
    BY <1>3, <1>5, LocksStay, RowsAreTyped DEF LinkSecond, tables, IInv
  <1>7. DraftOf(w, First(w), Second(w), m)'
    <2>1. Match(m, t)' = Match(m, t) /\ Seat(m, t)' = Seat(m, t) /\ Seat(m, u)' = Seat(m, u)
      BY <1>2 DEF Match, Seat
    <2> QED
      BY <1>1, <1>2, <1>3, <1>5, <2>1 DEF DraftOf, Written, Match, Seat, ReservedRow, MatchedRow,
         HoldsFirst, HoldsSecond, HasMatch, LinkedFirst, LinkedSecond, HasEvent
  <1>8. DraftFollowsTheCode(w)'
    BY <1>1, <1>2, <1>3, <1>7 DEF DraftFollowsTheCode,
       HoldsFirst, HoldsSecond, HasMatch, LinkedFirst, LinkedSecond, HasEvent
  <1> QED
    BY <1>1, <1>5, <1>6, <1>8, DraftStep DEF LinkSecond, Working, InPair

(* INSERT INTO callback_events. *)
LEMMA InsertEventKeeps ==
    ASSUME IInv, NEW w \in Workers, InsertEvent(w)
    PROVE  IInv'
  <1> DEFINE t == First(w)
             u == Second(w)
  <1>1. pc[w] = "insert_event" /\ pc[w] \in Working /\ pc'[w] = "commit"
    BY DEF InsertEvent, Working, InPair, Goto, IInv, TypeOK
  <1>2. /\ First(w)' = t /\ Second(w)' = u /\ t \in Tickets /\ u \in Tickets
        /\ request[t] \in Request /\ request' = request
    BY <1>1, PairFacts DEF InsertEvent, local, First, Second
  <1>3. PICK m \in MatchIds :
          /\ t # u
          /\ \A x \in Tickets : tx[w].rows[x] = IF x = t \/ x = u THEN MatchedRow(m) ELSE Nil
          /\ tx[w].matches = {Match(m, t)}
          /\ tx[w].match_players = {Seat(m, t)} \union {Seat(m, u)}
    <2>1. /\ pc[w] \in HoldsFirst /\ pc[w] \in HoldsSecond /\ pc[w] \in HasMatch
          /\ pc[w] \in LinkedFirst /\ pc[w] \in LinkedSecond /\ pc[w] \notin HasEvent
      BY <1>1 DEF HoldsFirst, HoldsSecond, HasMatch, LinkedFirst, LinkedSecond, HasEvent
    <2>2. t # u /\ \E m \in MatchIds : DraftOf(w, t, u, m)
      BY <2>1 DEF IInv, WorkerInv, DraftFollowsTheCode
    <2>3. PICK m \in MatchIds : DraftOf(w, t, u, m)
      BY <2>2
    <2>4. \A x \in Tickets : tx[w].rows[x] = IF x = t \/ x = u THEN MatchedRow(m) ELSE Nil
      BY <2>1, <2>2, <2>3 DEF DraftOf, Written
    <2>5. /\ tx[w].matches = {Match(m, t)}
          /\ tx[w].match_players = {Seat(m, t)} \union {Seat(m, u)}
      BY <2>1, <2>3 DEF DraftOf
    <2> QED
      BY <2>2, <2>4, <2>5
  <1>4. tx' = [tx EXCEPT ![w].callback_events = {Event(m, t, u)}]
    <2>1. PICK r \in tx[w].matches :
             tx' = [tx EXCEPT ![w].callback_events =
                      {[match_id |-> r.match_id, queue |-> r.queue, ticket_ids |-> {t, u}]}]
      BY DEF InsertEvent
    <2>2. r.match_id = m /\ r.queue = request[t].queue
      BY <1>3 DEF Match
    <2> QED
      BY <2>1, <2>2 DEF Event
  <1>5. Event(m, t, u) \in EventRow
    BY <1>2 DEF Event, EventRow, Request
  <1>6. /\ tx' \in [Workers -> Draft]
        /\ \A v \in Workers \ {w} : tx'[v] = tx[v]
        /\ tx'[w].rows = tx[w].rows
        /\ tx'[w].matches = tx[w].matches
        /\ tx'[w].match_players = tx[w].match_players
        /\ tx'[w].callback_events = {Event(m, t, u)}
    BY <1>4, <1>5 DEF IInv, TypeOK, Draft
  <1>7. LocksInv'
    BY <1>6, LocksStay DEF InsertEvent, tables, IInv
  <1>8. DraftOf(w, First(w), Second(w), m)'
    <2>1. /\ Match(m, t)' = Match(m, t) /\ Seat(m, t)' = Seat(m, t)
          /\ Seat(m, u)' = Seat(m, u) /\ Event(m, t, u)' = Event(m, t, u)
      BY <1>2 DEF Match, Seat, Event
    <2> QED
      BY <1>1, <1>2, <1>3, <1>6, <2>1 DEF DraftOf, Written, Match, Seat, Event,
         ReservedRow, MatchedRow,
         HoldsFirst, HoldsSecond, HasMatch, LinkedFirst, LinkedSecond, HasEvent
  <1>9. DraftFollowsTheCode(w)'
    BY <1>1, <1>2, <1>3, <1>8 DEF DraftFollowsTheCode,
       HoldsFirst, HoldsSecond, HasMatch, LinkedFirst, LinkedSecond, HasEvent
  <1> QED
    BY <1>1, <1>6, <1>7, <1>9, DraftStep DEF InsertEvent, Working

-----------------------------------------------------------------------------
(* Steps that give the transaction up. *)

(* A rollback that goes on to the next pair. *)
LEMMA RollbackPairKeeps ==
    ASSUME IInv, NEW w \in Workers, pc[w] \in InPair, RollbackPair(w)
    PROVE  IInv'
  <1>1. /\ tx' \in [Workers -> Draft] /\ tx'[w] = NoDraft
        /\ \A v \in Workers \ {w} : tx'[v] = tx[v]
    BY DiscardLemma DEF RollbackPair, IInv, TypeOK
  <1>2. TypeOK'
    <2>1. pc' \in [Workers -> Label] /\ at' \in [Workers -> Nat \ {0}]
      BY DEF RollbackPair, IInv, TypeOK, Label, Goto
    <2> QED
      BY <1>1, <2>1 DEF RollbackPair, IInv, TypeOK, tables
  <1>3. WorkerInv(w)'
    BY <1>1 DEF RollbackPair, IInv, TypeOK, WorkerInv, PairAtHand, Goto,
          PairsAreOfOneQueue, DraftFollowsTheCode, Working, InPair,
          HoldsFirst, HoldsSecond, HasMatch, LinkedFirst, LinkedSecond, HasEvent
  <1>4. ASSUME NEW v \in Workers \ {w} PROVE WorkerInv(v)'
    BY <1>1, OthersKept DEF RollbackPair, Goto, IInv, TypeOK
  <1>5. LocksInv' /\ TablesInv'
    BY LocksGivenUp, TablesKept DEF RollbackPair, IInv, TypeOK, tables
  <1> QED
    BY <1>2, <1>3, <1>4, <1>5 DEF IInv

(* A rollback that ends the loop or the process. *)
LEMMA GiveUpKeeps ==
    ASSUME IInv, NEW w \in Workers, Discard(w), Forget(w),
           NEW label \in {"idle", "down"}, Goto(w, label), UNCHANGED <<request, waited, tables>>
    PROVE  IInv'
  <1>1. /\ tx' \in [Workers -> Draft] /\ tx'[w] = NoDraft
        /\ \A v \in Workers \ {w} : tx'[v] = tx[v]
    BY DiscardLemma DEF IInv, TypeOK
  <1>2. TypeOK'
    <2>1. pc' \in [Workers -> Label]
      BY DEF IInv, TypeOK, Label, Goto
    <2>2. /\ owned' \in [Workers -> SUBSET Partitions] /\ batch' \in [Workers -> Seq(Tickets)]
          /\ partner' \in [Workers -> Seq(Nat)]
          /\ \A v \in Workers : partner'[v] = <<>> \/ partner'[v] \in [DOMAIN batch'[v] -> 0 .. Len(batch'[v])]
          /\ at' \in [Workers -> Nat \ {0}] /\ made' \in [Workers -> Nat]
      BY DEF Forget, IInv, TypeOK
    <2> QED
      BY <1>1, <2>1, <2>2 DEF IInv, TypeOK, tables
  <1>3. WorkerInv(w)'
    BY <1>1 DEF Forget, IInv, TypeOK, WorkerInv, PairAtHand, Goto,
          PairsAreOfOneQueue, DraftFollowsTheCode, Working, InPair,
          HoldsFirst, HoldsSecond, HasMatch, LinkedFirst, LinkedSecond, HasEvent
  <1>4. ASSUME NEW v \in Workers \ {w} PROVE WorkerInv(v)'
    BY <1>1, OthersKept DEF Forget, Goto, IInv, TypeOK
  <1>5. LocksInv' /\ TablesInv'
    BY LocksGivenUp, TablesKept DEF IInv, TypeOK, tables
  <1> QED
    BY <1>2, <1>3, <1>4, <1>5 DEF IInv

-----------------------------------------------------------------------------
(* The commit: one whole match appears. *)

(* What the commit of a finished pair adds to the tables. *)
LEMMA ApplyFacts ==
    ASSUME IInv, NEW w \in Workers, pc[w] = "commit", Apply(w), request' = request,
           NEW t, NEW u, t = First(w), u = Second(w)
    PROVE  \E m \in MatchIds :
          /\ t \in Tickets /\ u \in Tickets /\ t # u
          /\ request[t] \in Request /\ request[u] \in Request
          /\ request[t] # Nil /\ request[u] # Nil
          /\ request[t].queue = request[u].queue
          /\ request[t].player # request[u].player
          /\ ticket[t] = WaitingRow /\ ticket[u] = WaitingRow
          /\ \A x \in Tickets : tx[w].rows[x] = IF x = t \/ x = u THEN MatchedRow(m) ELSE Nil
          /\ tx[w].matches = {Match(m, t)}
          /\ \A r \in matches : r.match_id # m
          /\ \A p \in match_players : p.match_id # m /\ p.ticket_id # t /\ p.ticket_id # u
          /\ ticket' = [x \in Tickets |-> IF x = t \/ x = u THEN MatchedRow(m) ELSE ticket[x]]
          /\ matches' = matches \union {Match(m, t)}
          /\ match_players' = match_players \union {Seat(m, t), Seat(m, u)}
          /\ callback_events' = callback_events \union {Event(m, t, u)}
          /\ PlayersOf(m)' = {Seat(m, t), Seat(m, u)}
          /\ \A r \in matches : PlayersOf(r.match_id)' = PlayersOf(r.match_id)
  <1>1. /\ t \in Tickets /\ u \in Tickets
        /\ request[t] \in Request /\ request[u] \in Request
        /\ request[t].queue = request[u].queue
    BY PairFacts DEF Working
  <1>2. PICK m \in MatchIds :
          /\ t # u
          /\ \A x \in Tickets : tx[w].rows[x] = IF x = t \/ x = u THEN MatchedRow(m) ELSE Nil
          /\ tx[w].matches = {Match(m, t)}
          /\ tx[w].match_players = {Seat(m, t), Seat(m, u)}
          /\ tx[w].callback_events = {Event(m, t, u)}
    BY DEF IInv, WorkerInv, DraftFollowsTheCode, DraftOf, Written,
       HoldsFirst, HoldsSecond, HasMatch, LinkedFirst, LinkedSecond, HasEvent
  <1>3. ticket[t] = WaitingRow /\ ticket[u] = WaitingRow
    BY <1>1, <1>2, RowsAreTyped DEF IInv, LocksInv, LockedIsWaiting
  <1>4. /\ ticket' = [x \in Tickets |-> IF x = t \/ x = u THEN MatchedRow(m) ELSE ticket[x]]
        /\ matches' = matches \union {Match(m, t)}
        /\ match_players' = match_players \union {Seat(m, t), Seat(m, u)}
        /\ callback_events' = callback_events \union {Event(m, t, u)}
    BY <1>2, RowsAreTyped DEF Apply, View
  <1>5. request[t].player # request[u].player
    BY <1>1, <1>2, <1>3 DEF IInv, TablesInv, OneActivePerPlayer, Active, SamePlayer, WaitingRow
  <1>6. \A r \in matches : r.match_id # m
    <2>1. Match(m, t) \in tx[w].matches /\ Match(m, t).match_id = m
      BY <1>2 DEF Match
    <2> QED
      BY <2>1 DEF IInv, LocksInv, FreshMatchIds
  <1>7. \A p \in match_players : p.match_id # m /\ p.ticket_id # t /\ p.ticket_id # u
    <2>1. ASSUME NEW p \in match_players
          PROVE  /\ ticket[p.ticket_id].status = "matched"
                 /\ \E r \in matches : r.match_id = p.match_id
      <3>1. /\ ticket[p.ticket_id] = MatchedRow(p.match_id)
            /\ \E r \in matches : r.match_id = p.match_id
        BY DEF IInv, TablesInv, SeatsAreTaken
      <3>2. \A n : MatchedRow(n).status = "matched"
        BY DEF MatchedRow
      <3> QED
        BY <3>1, <3>2
    <2>2. ticket[t].status = "waiting" /\ ticket[u].status = "waiting"
      BY <1>3 DEF WaitingRow
    <2> QED
      BY <1>6, <2>1, <2>2
  <1>8. request[t] # Nil /\ request[u] # Nil
    BY <1>1, NilAssumption
  <1>9. \A r \in matches : PlayersOf(r.match_id)' = PlayersOf(r.match_id)
    <2>1. Seat(m, t).match_id = m /\ Seat(m, u).match_id = m
      BY DEF Seat
    <2> QED
      BY <1>4, <1>6, <2>1 DEF PlayersOf
  <1>10. PlayersOf(m)' = {Seat(m, t), Seat(m, u)}
    <2>1. Seat(m, t).match_id = m /\ Seat(m, u).match_id = m
      BY DEF Seat
    <2> QED
      BY <1>4, <1>7, <2>1 DEF PlayersOf
  <1> QED
    BY <1>1, <1>2, <1>3, <1>4, <1>5, <1>6, <1>7, <1>8, <1>9, <1>10

(* A whole match added to sound tables leaves them sound. *)
LEMMA ApplyLemma ==
    ASSUME IInv, NEW w \in Workers, pc[w] = "commit", Apply(w), Discard(w), request' = request
    PROVE  /\ TablesInv' /\ LocksInv'
           /\ ticket' \in [Tickets -> Row] /\ matches' \in SUBSET MatchRow
           /\ match_players' \in SUBSET PlayerRow /\ callback_events' \in SUBSET EventRow
  <1> DEFINE t == First(w)
             u == Second(w)
  <1>1. PICK m \in MatchIds :
          /\ t \in Tickets /\ u \in Tickets /\ t # u
          /\ request[t] \in Request /\ request[u] \in Request
          /\ request[t] # Nil /\ request[u] # Nil
          /\ request[t].queue = request[u].queue
          /\ request[t].player # request[u].player
          /\ ticket[t] = WaitingRow /\ ticket[u] = WaitingRow
          /\ \A x \in Tickets : tx[w].rows[x] = IF x = t \/ x = u THEN MatchedRow(m) ELSE Nil
          /\ tx[w].matches = {Match(m, t)}
          /\ \A r \in matches : r.match_id # m
          /\ \A p \in match_players : p.match_id # m /\ p.ticket_id # t /\ p.ticket_id # u
          /\ ticket' = [x \in Tickets |-> IF x = t \/ x = u THEN MatchedRow(m) ELSE ticket[x]]
          /\ matches' = matches \union {Match(m, t)}
          /\ match_players' = match_players \union {Seat(m, t), Seat(m, u)}
          /\ callback_events' = callback_events \union {Event(m, t, u)}
          /\ PlayersOf(m)' = {Seat(m, t), Seat(m, u)}
          /\ \A r \in matches : PlayersOf(r.match_id)' = PlayersOf(r.match_id)
    BY ApplyFacts
  <1> HIDE DEF t, u
  <1>2. \A n, x : Seat(n, x)' = Seat(n, x) /\ \A y : Event(n, x, y)' = Event(n, x, y)
    BY DEF Seat, Event
  <1>3. TicketsAreSound' /\ OneActivePerPlayer'
    BY <1>1 DEF IInv, TablesInv, TicketsAreSound, OneActivePerPlayer, Active, MatchedRow
  <1>4. SeatsAreTaken'
    <2>1. ASSUME NEW p \in match_players
          PROVE  /\ ticket'[p.ticket_id] = MatchedRow(p.match_id)
                 /\ p = Seat(p.match_id, p.ticket_id)
                 /\ \E r \in matches' : r.match_id = p.match_id
      BY <1>1 DEF IInv, TypeOK, PlayerRow, TablesInv, SeatsAreTaken
    <2>2. ASSUME NEW p \in {Seat(m, t), Seat(m, u)}
          PROVE  /\ ticket'[p.ticket_id] = MatchedRow(p.match_id)
                 /\ p = Seat(p.match_id, p.ticket_id)
                 /\ \E r \in matches' : r.match_id = p.match_id
      <3>1. p.match_id = m /\ p = Seat(m, p.ticket_id) /\ p.ticket_id \in {t, u}
        BY DEF Seat
      <3>2. Match(m, t) \in matches' /\ Match(m, t).match_id = m
        BY <1>1 DEF Match
      <3> QED
        BY <1>1, <3>1, <3>2
    <2> QED
      BY <1>1, <1>2, <2>1, <2>2 DEF SeatsAreTaken
  <1>5. MatchesAreSound'
    <2>3. Match(m, t).match_id = m /\ Match(m, t).queue = request[t].queue
      BY DEF Match
    <2>4. ASSUME NEW r \in matches
          PROVE  \E x, y \in Tickets :
                   /\ x # y
                   /\ request'[x] # Nil /\ request'[y] # Nil
                   /\ PlayersOf(r.match_id)' = {Seat(r.match_id, x), Seat(r.match_id, y)}
                   /\ request'[x].queue = r.queue /\ request'[y].queue = r.queue
                   /\ request'[x].player # request'[y].player
                   /\ Event(r.match_id, x, y) \in callback_events'
      BY <1>1 DEF IInv, TablesInv, MatchesAreSound
    <2>5. \E x, y \in Tickets :
                   /\ x # y
                   /\ request'[x] # Nil /\ request'[y] # Nil
                   /\ PlayersOf(m)' = {Seat(m, x), Seat(m, y)}
                   /\ request'[x].queue = request[t].queue /\ request'[y].queue = request[t].queue
                   /\ request'[x].player # request'[y].player
                   /\ Event(m, x, y) \in callback_events'
      BY <1>1
    <2> QED
      BY <1>1, <1>2, <2>3, <2>4, <2>5 DEF MatchesAreSound
  <1>6. MatchedAreSeated'
    <2>1. ASSUME NEW x \in Tickets, ticket'[x].status = "matched"
          PROVE  Seat(ticket'[x].match_id, x) \in match_players'
      BY <1>1, <2>1 DEF IInv, TablesInv, MatchedAreSeated, MatchedRow
    <2>2. Match(m, t).match_id = m /\ Event(m, t, u).match_id = m
      BY DEF Match, Event
    <2>3. \A e \in callback_events' : \E r \in matches' : r.match_id = e.match_id
      BY <1>1, <2>2 DEF IInv, TablesInv, MatchedAreSeated
    <2> QED
      BY <1>2, <2>1, <2>3 DEF MatchedAreSeated
  <1>7. LocksInv'
    <2>1. /\ \A v \in Workers \ {w} : tx'[v] = tx[v]
          /\ \A x \in Tickets : tx'[w].rows[x] = Nil
          /\ tx'[w].matches = {}
      BY DiscardLemma DEF IInv, TypeOK
    <2>2. \A v \in Workers \ {w} : tx[v].rows[t] = Nil /\ tx[v].rows[u] = Nil
      BY <1>1, RowsAreTyped DEF IInv, LocksInv, LocksAreExclusive
    <2>3. LocksAreExclusive'
      BY <2>1 DEF IInv, LocksInv, LocksAreExclusive
    <2>4. LockedIsWaiting'
      BY <1>1, <2>1, <2>2 DEF IInv, LocksInv, LockedIsWaiting
    <2>5. \A v \in Workers \ {w} : \A r \in tx[v].matches : r.match_id # m
      <3>1. Match(m, t) \in tx[w].matches /\ Match(m, t).match_id = m
        BY <1>1 DEF Match
      <3> QED
        BY <3>1 DEF IInv, LocksInv, FreshMatchIds
    <2>6. FreshMatchIds'
      BY <1>1, <2>1, <2>5 DEF IInv, LocksInv, FreshMatchIds, Match
    <2> QED
      BY <2>3, <2>4, <2>6 DEF LocksInv
  <1>8. /\ ticket' \in [Tickets -> Row] /\ matches' \in SUBSET MatchRow
         /\ match_players' \in SUBSET PlayerRow /\ callback_events' \in SUBSET EventRow
    <2>1. Match(m, t) \in MatchRow /\ Seat(m, t) \in PlayerRow
          /\ Seat(m, u) \in PlayerRow /\ Event(m, t, u) \in EventRow
      BY <1>1 DEF Match, Seat, Event, MatchRow, PlayerRow, EventRow, Request
    <2> QED
      BY <1>1, <2>1, RowsAreTyped DEF IInv, TypeOK
  <1> QED
    BY <1>3, <1>4, <1>5, <1>6, <1>7, <1>8 DEF TablesInv

(* The commit of a pair. *)
LEMMA CommitKeeps ==
    ASSUME IInv, NEW w \in Workers, Commit(w)
    PROVE  IInv'
  <1>1. /\ TablesInv' /\ LocksInv'
        /\ ticket' \in [Tickets -> Row] /\ matches' \in SUBSET MatchRow
        /\ match_players' \in SUBSET PlayerRow /\ callback_events' \in SUBSET EventRow
    BY ApplyLemma DEF Commit
  <1>2. /\ tx' \in [Workers -> Draft] /\ tx'[w] = NoDraft
        /\ \A v \in Workers \ {w} : tx'[v] = tx[v]
    BY DiscardLemma DEF Commit, IInv, TypeOK
  <1>3. TypeOK'
    <2>1. pc' \in [Workers -> Label] /\ at' \in [Workers -> Nat \ {0}] /\ made' \in [Workers -> Nat]
      BY DEF Commit, IInv, TypeOK, Label, Goto
    <2> QED
      BY <1>1, <1>2, <2>1 DEF Commit, IInv, TypeOK
  <1>4. WorkerInv(w)'
    BY <1>2 DEF Commit, IInv, TypeOK, WorkerInv, PairAtHand, Goto,
          PairsAreOfOneQueue, DraftFollowsTheCode, Working, InPair,
          HoldsFirst, HoldsSecond, HasMatch, LinkedFirst, LinkedSecond, HasEvent
  <1>5. ASSUME NEW v \in Workers \ {w} PROVE WorkerInv(v)'
    BY <1>2, OthersKept DEF Commit, Goto, IInv, TypeOK
  <1> QED
    BY <1>1, <1>3, <1>4, <1>5 DEF IInv

(* The commit whose answer is lost, applied or not. *)
LEMMA CommitLostKeeps ==
    ASSUME IInv, NEW w \in Workers, CommitLost(w)
    PROVE  IInv'
  <1>1. CASE UNCHANGED tables
    BY <1>1, GiveUpKeeps DEF CommitLost
  <1>2. CASE Apply(w)
    <2>1. /\ TablesInv' /\ LocksInv'
          /\ ticket' \in [Tickets -> Row] /\ matches' \in SUBSET MatchRow
          /\ match_players' \in SUBSET PlayerRow /\ callback_events' \in SUBSET EventRow
      BY <1>2, ApplyLemma DEF CommitLost
    <2>2. /\ tx' \in [Workers -> Draft] /\ tx'[w] = NoDraft
          /\ \A v \in Workers \ {w} : tx'[v] = tx[v]
      BY DiscardLemma DEF CommitLost, IInv, TypeOK
    <2>3. TypeOK'
      <3>1. pc' \in [Workers -> Label]
        BY DEF CommitLost, IInv, TypeOK, Label, Goto
      <3>2. /\ owned' \in [Workers -> SUBSET Partitions] /\ batch' \in [Workers -> Seq(Tickets)]
            /\ partner' \in [Workers -> Seq(Nat)]
            /\ \A v \in Workers : partner'[v] = <<>> \/ partner'[v] \in [DOMAIN batch'[v] -> 0 .. Len(batch'[v])]
            /\ at' \in [Workers -> Nat \ {0}] /\ made' \in [Workers -> Nat]
        BY DEF CommitLost, Forget, IInv, TypeOK
      <3> QED
        BY <2>1, <2>2, <3>1, <3>2 DEF CommitLost, IInv, TypeOK
    <2>4. WorkerInv(w)'
      BY <2>2 DEF CommitLost, Forget, IInv, TypeOK, WorkerInv, PairAtHand, Goto,
            PairsAreOfOneQueue, DraftFollowsTheCode, Working, InPair,
            HoldsFirst, HoldsSecond, HasMatch, LinkedFirst, LinkedSecond, HasEvent
    <2>5. ASSUME NEW v \in Workers \ {w} PROVE WorkerInv(v)'
      BY <2>2, OthersKept DEF CommitLost, Forget, Goto, IInv, TypeOK
    <2> QED
      BY <2>1, <2>3, <2>4, <2>5 DEF IInv
  <1> QED
    BY <1>1, <1>2 DEF CommitLost

-----------------------------------------------------------------------------
(* The API. *)

(* POST /v1/tickets: the unique index keeps one active ticket per player. *)
LEMMA CreateTicketKeeps ==
    ASSUME IInv, NEW t \in Tickets, NEW r \in Request, CreateTicket(t, r)
    PROVE  IInv'
  <1>1. /\ request[t] = Nil /\ ticket[t].status = "none"
        /\ \A x \in Tickets : request'[x] = IF x = t THEN r ELSE request[x]
        /\ \A x \in Tickets : ticket'[x] = IF x = t THEN WaitingRow ELSE ticket[x]
        /\ UNCHANGED <<waited, matches, match_players, callback_events, tx, pc, local>>
        /\ r # Nil
    BY NilAssumption DEF CreateTicket, IInv, TypeOK, TablesInv, TicketsAreSound
  <1>2. TypeOK'
    BY <1>1, RowsAreTyped DEF CreateTicket, IInv, TypeOK, local, WaitingRow, Row
  <1>3. ASSUME NEW w \in Workers PROVE WorkerInv(w)'
    <2>1. batch[w] \in Seq(Tickets) /\ \A i \in DOMAIN batch[w] : batch[w][i] \in Tickets /\ batch[w][i] # t
      BY <1>1 DEF IInv, TypeOK, WorkerInv, PairsAreOfOneQueue
    <2>2. \A i \in DOMAIN batch[w] : request'[batch[w][i]] = request[batch[w][i]]
      BY <1>1, <2>1
    <2>3. PairAtHand(w)'
      BY <1>1 DEF IInv, WorkerInv, PairAtHand, local
    <2>4. PairsAreOfOneQueue(w)'
      <3>1. pc[w] \in Working \union {"pairs"} =>
              \A i \in DOMAIN batch[w] : partner[w][i] # 0 => partner[w][i] \in DOMAIN batch[w]
        BY <2>1 DEF IInv, WorkerInv, PairAtHand
      <3> QED
        BY <1>1, <2>2, <3>1 DEF IInv, WorkerInv, PairsAreOfOneQueue, local
    <2>5. DraftFollowsTheCode(w)'
      <3>1. CASE pc[w] \notin HoldsFirst
        BY <1>1, <3>1 DEF IInv, WorkerInv, DraftFollowsTheCode,
           HoldsFirst, HoldsSecond, HasMatch, LinkedFirst, LinkedSecond, HasEvent
      <3>2. CASE pc[w] \in HoldsFirst
        <4>1. pc[w] \in Working
          BY <3>2 DEF Working, InPair, HoldsFirst, HoldsSecond, HasMatch, LinkedFirst, LinkedSecond, HasEvent
        <4>2. /\ First(w)' = First(w) /\ Second(w)' = Second(w)
              /\ request'[First(w)] = request[First(w)]
              /\ request'[Second(w)] = request[Second(w)]
          BY <1>1, <2>2, <4>1 DEF IInv, WorkerInv, PairAtHand, First, Second, local
        <4>3. ASSUME NEW m
              PROVE  DraftOf(w, First(w), Second(w), m)' <=> DraftOf(w, First(w), Second(w), m)
          <5>1. /\ Match(m, First(w))' = Match(m, First(w))
                /\ Seat(m, First(w))' = Seat(m, First(w))
                /\ Seat(m, Second(w))' = Seat(m, Second(w))
                /\ Event(m, First(w), Second(w))' = Event(m, First(w), Second(w))
            BY <4>2 DEF Match, Seat, Event
          <5>2. \A x \in Tickets : Written(w, First(w), Second(w), m, x)' = Written(w, First(w), Second(w), m, x)
            BY <1>1, <4>2 DEF Written
          <5> QED
            BY <1>1, <5>1, <5>2 DEF DraftOf
        <4> QED
          BY <1>1, <4>2, <4>3 DEF IInv, WorkerInv, DraftFollowsTheCode
      <3> QED
        BY <3>1, <3>2
    <2> QED
      BY <2>3, <2>4, <2>5 DEF WorkerInv
  <1>4. LocksInv'
    BY <1>1 DEF IInv, LocksInv, LocksAreExclusive, LockedIsWaiting, FreshMatchIds, WaitingRow
  <1>5. TicketsAreSound'
    BY <1>1 DEF IInv, TablesInv, TicketsAreSound, WaitingRow
  <1>6. OneActivePerPlayer'
    <2>1. \A u \in Tickets : Active(u) => ~SamePlayer(request[u], r)
      BY DEF CreateTicket
    <2> QED
      BY <1>1, <2>1 DEF IInv, TablesInv, OneActivePerPlayer, Active, SamePlayer
  <1>7. \A p \in match_players : p.ticket_id \in Tickets /\ p.ticket_id # t
    <2>1. ASSUME NEW p \in match_players
          PROVE  p.ticket_id \in Tickets /\ ticket[p.ticket_id] = MatchedRow(p.match_id)
      BY DEF IInv, TypeOK, PlayerRow, TablesInv, SeatsAreTaken
    <2>2. \A n : MatchedRow(n).status = "matched"
      BY DEF MatchedRow
    <2> QED
      BY <1>1, <2>1, <2>2
  <1>8. \A n : \A x \in Tickets : x # t =>
          Seat(n, x)' = Seat(n, x) /\ \A y : Event(n, x, y)' = Event(n, x, y)
    BY <1>1 DEF Seat, Event
  <1>9. SeatsAreTaken'
    BY <1>1, <1>7, <1>8 DEF IInv, TablesInv, SeatsAreTaken
  <1>10. MatchesAreSound'
    <2>1. \A m : PlayersOf(m)' = PlayersOf(m)
      BY <1>1 DEF PlayersOf
    <2>2. ASSUME NEW m \in matches
          PROVE  \E x, y \in Tickets :
                   /\ x # y
                   /\ request'[x] # Nil /\ request'[y] # Nil
                   /\ PlayersOf(m.match_id)' = {Seat(m.match_id, x)', Seat(m.match_id, y)'}
                   /\ request'[x].queue = m.queue /\ request'[y].queue = m.queue
                   /\ request'[x].player # request'[y].player
                   /\ Event(m.match_id, x, y)' \in callback_events'
      <3>1. PICK x, y \in Tickets :
                   /\ x # y
                   /\ request[x] # Nil /\ request[y] # Nil
                   /\ PlayersOf(m.match_id) = {Seat(m.match_id, x), Seat(m.match_id, y)}
                   /\ request[x].queue = m.queue /\ request[y].queue = m.queue
                   /\ request[x].player # request[y].player
                   /\ Event(m.match_id, x, y) \in callback_events
        BY DEF IInv, TablesInv, MatchesAreSound
      <3>2. x # t /\ y # t
        BY <1>1, <3>1
      <3> QED
        BY <1>1, <1>8, <2>1, <3>1, <3>2
    <2> QED
      BY <1>1, <2>2 DEF MatchesAreSound
  <1>11. MatchedAreSeated'
    BY <1>1, <1>8 DEF IInv, TablesInv, MatchedAreSeated, WaitingRow
  <1> QED
    BY <1>2, <1>3, <1>4, <1>5, <1>6, <1>9, <1>10, <1>11 DEF IInv, TablesInv

(* DELETE /v1/tickets: no open transaction holds the ticket. *)
LEMMA CancelTicketKeeps ==
    ASSUME IInv, NEW t \in Tickets, CancelTicket(t)
    PROVE  IInv'
  <1>1. ticket[t] \in Row /\ ticket[t].status = "waiting" /\ \A w \in Workers : tx[w].rows[t] = Nil
    BY DEF CancelTicket, Active, Locked, IInv, TypeOK, TablesInv, TicketsAreSound
  <1>2. /\ ticket' \in [Tickets -> Row]
        /\ ticket'[t].status = "cancelled"
        /\ \A x \in Tickets \ {t} : ticket'[x] = ticket[x]
        /\ UNCHANGED <<request, waited, matches, match_players, callback_events, tx, pc, local>>
    BY <1>1 DEF CancelTicket, IInv, TypeOK, Row
  <1>3. TypeOK'
    BY <1>2 DEF IInv, TypeOK, local
  <1>4. \A w \in Workers : WorkerInv(w)'
    BY <1>2, OthersKept DEF IInv, local
  <1>5. LocksInv'
    BY <1>1, <1>2 DEF IInv, LocksInv, LocksAreExclusive, LockedIsWaiting, FreshMatchIds
  <1>6. TicketsAreSound' /\ OneActivePerPlayer'
    BY <1>1, <1>2 DEF IInv, TablesInv, TicketsAreSound, OneActivePerPlayer, Active, SamePlayer
  <1>7. \A p \in match_players : p.ticket_id \in Tickets /\ p.ticket_id # t
    <2>1. ASSUME NEW p \in match_players
          PROVE  p.ticket_id \in Tickets /\ ticket[p.ticket_id] = MatchedRow(p.match_id)
      BY DEF IInv, TypeOK, PlayerRow, TablesInv, SeatsAreTaken
    <2>2. \A n : MatchedRow(n).status = "matched"
      BY DEF MatchedRow
    <2> QED
      BY <1>1, <2>1, <2>2
  <1>8. \A n, x : Seat(n, x)' = Seat(n, x) /\ \A y : Event(n, x, y)' = Event(n, x, y)
    BY <1>2 DEF Seat, Event
  <1>9. SeatsAreTaken'
    BY <1>2, <1>7, <1>8 DEF IInv, TablesInv, SeatsAreTaken
  <1>10. MatchesAreSound'
    <2>1. \A m : PlayersOf(m)' = PlayersOf(m)
      BY <1>2 DEF PlayersOf
    <2> QED
      BY <1>2, <1>8, <2>1 DEF IInv, TablesInv, MatchesAreSound
  <1>11. MatchedAreSeated'
    BY <1>2, <1>8 DEF IInv, TablesInv, MatchedAreSeated
  <1> QED
    BY <1>3, <1>4, <1>5, <1>6, <1>9, <1>10, <1>11 DEF IInv, TablesInv

-----------------------------------------------------------------------------
(* The invariant is inductive. *)

(* Every step inside a pair keeps the invariant. *)
LEMMA PairStepKeeps ==
    ASSUME IInv, NEW w \in Workers, PairStep(w)
    PROVE  IInv'
  <1>1. CASE LosePair(w)
    BY <1>1, RollbackPairKeeps DEF LosePair, InPair
  <1>2. CASE DeadlockAbort(w)
    BY <1>2, RollbackPairKeeps DEF DeadlockAbort, InDeadlock, Blocks, InPair
  <1> QED
    BY <1>1, <1>2, StartPairKeeps, ReserveFirstKeeps, ReserveSecondKeeps, InsertMatchKeeps,
       LinkFirstKeeps, LinkSecondKeeps, InsertEventKeeps, CommitKeeps DEF PairStep

(* Every fault keeps the invariant. *)
LEMMA FaultKeeps ==
    ASSUME IInv, NEW w \in Workers, Fault(w)
    PROVE  IInv'
  <1>1. CASE PairFails(w)
    BY <1>1, RollbackPairKeeps DEF PairFails
  <1>2. CASE Crash(w)
    BY <1>2, GiveUpKeeps DEF Crash
  <1> QED
    BY <1>1, <1>2, CommitLostKeeps, EndLoopKeeps, RestartKeeps DEF Fault

(* The invariant is inductive. *)
LEMMA StepInv == IInv /\ [Next]_vars => IInv'
  <1> SUFFICES ASSUME IInv, [Next]_vars PROVE IInv'
    OBVIOUS
  <1>1. CASE ApiStep
    BY <1>1, CreateTicketKeeps, CancelTicketKeeps, PassThresholdKeeps DEF ApiStep
  <1>2. ASSUME NEW w \in Workers, LoopStep(w) PROVE IInv'
    BY <1>2, CleanupReservationsKeeps, FetchTicketsKeeps, FetchOldestKeeps, FindPairsKeeps,
       EndLoopKeeps DEF LoopStep
  <1>3. CASE UNCHANGED vars
    <2>1. TypeOK'
      BY <1>3 DEF vars, tables, local, IInv, TypeOK
    <2>2. \A w \in Workers : WorkerInv(w)'
      BY <1>3, OthersKept DEF vars, tables, local, IInv
    <2>3. LocksInv' /\ TablesInv'
      BY <1>3, LocksKept, TablesKept DEF vars, tables, IInv
    <2> QED
      BY <2>1, <2>2, <2>3 DEF IInv
  <1> QED
    BY <1>1, <1>2, <1>3, PairStepKeeps, FaultKeeps DEF Next

(* The inductive invariant holds in every state (worker/matching.py). *)
THEOREM Invariance == Spec => []IInv
  BY InitInv, StepInv, PTL DEF Spec

-----------------------------------------------------------------------------
(* The safety properties. *)

(* Every variable keeps its type. *)
THEOREM TypeCorrectness == Spec => []TypeOK
  <1>1. IInv => TypeOK
    BY DEF IInv
  <1> QED
    BY <1>1, Invariance, PTL

(* No way out of create_match_from_pair commits a reservation. *)
THEOREM NoStaleReservation == Spec => []NoReservationOutlivesItsTransaction
  <1>1. IInv => NoReservationOutlivesItsTransaction
    BY DEF IInv, TablesInv, TicketsAreSound, NoReservationOutlivesItsTransaction
  <1> QED
    BY <1>1, Invariance, PTL

(* A ticket is in at most one match, for any number of workers and any     *)
(* overlap of what they fetched.                                           *)
THEOREM MatchedOnce == Spec => []NoDoubleMatch
  <1>1. IInv => NoDoubleMatch
    <2> SUFFICES ASSUME IInv, NEW p \in match_players, NEW q \in match_players,
                        p.ticket_id = q.ticket_id
                 PROVE  p = q /\ ticket[p.ticket_id].status = "matched"
      BY DEF NoDoubleMatch
    <2>1. ticket[p.ticket_id] = MatchedRow(p.match_id) /\ ticket[q.ticket_id] = MatchedRow(q.match_id)
      BY DEF IInv, TablesInv, SeatsAreTaken
    <2>2. p = Seat(p.match_id, p.ticket_id) /\ q = Seat(q.match_id, q.ticket_id)
      BY DEF IInv, TablesInv, SeatsAreTaken
    <2>3. \A m : MatchedRow(m).match_id = m /\ MatchedRow(m).status = "matched"
      BY DEF MatchedRow
    <2>4. p.match_id = q.match_id
      BY <2>1, <2>3
    <2> QED
      BY <2>1, <2>2, <2>3, <2>4
  <1> QED
    BY <1>1, Invariance, PTL

(* The rows of a match are committed together. *)
THEOREM Atomicity == Spec => []MatchIsWhole
  <1>1. IInv => MatchIsWhole
    <2> SUFFICES ASSUME IInv PROVE MatchIsWhole
      OBVIOUS
    <2>1. ASSUME NEW m \in matches
          PROVE  /\ Cardinality(PlayersOf(m.match_id)) = 2
                 /\ \A p \in PlayersOf(m.match_id) :
                       /\ ticket[p.ticket_id].status = "matched"
                       /\ ticket[p.ticket_id].match_id = m.match_id
                 /\ \E e \in callback_events :
                       /\ e.match_id = m.match_id
                       /\ e.ticket_ids = {p.ticket_id : p \in PlayersOf(m.match_id)}
      <3>1. PICK t, u \in Tickets :
              /\ t # u
              /\ PlayersOf(m.match_id) = {Seat(m.match_id, t), Seat(m.match_id, u)}
              /\ Event(m.match_id, t, u) \in callback_events
        BY DEF IInv, TablesInv, MatchesAreSound
      <3>2. \A x : Seat(m.match_id, x).ticket_id = x
        BY DEF Seat
      <3>3. Cardinality(PlayersOf(m.match_id)) = 2
        <4> DEFINE a == Seat(m.match_id, t)
                   b == Seat(m.match_id, u)
        <4>1. a # b
          BY <3>1, <3>2
        <4>2. IsFiniteSet({a}) /\ Cardinality({a}) = 1
          BY FS_Singleton
        <4>3. b \notin {a}
          BY <4>1
        <4> HIDE DEF a, b
        <4>4. Cardinality({a} \union {b}) = Cardinality({a}) + 1
          BY <4>2, <4>3, FS_AddElement
        <4> QED
          BY <3>1, <4>2, <4>4 DEF a, b
      <3>4. ASSUME NEW p \in PlayersOf(m.match_id)
            PROVE  ticket[p.ticket_id].status = "matched" /\ ticket[p.ticket_id].match_id = m.match_id
        <4>1. p \in match_players /\ p.match_id = m.match_id
          BY DEF PlayersOf
        <4>2. ticket[p.ticket_id] = MatchedRow(p.match_id)
          BY <4>1 DEF IInv, TablesInv, SeatsAreTaken
        <4> QED
          BY <4>1, <4>2 DEF MatchedRow
      <3>5. /\ Event(m.match_id, t, u).match_id = m.match_id
            /\ Event(m.match_id, t, u).ticket_ids = {t, u}
        BY DEF Event
      <3>6. {p.ticket_id : p \in PlayersOf(m.match_id)} = {t, u}
        BY <3>1, <3>2
      <3> QED
        BY <3>1, <3>3, <3>4, <3>5, <3>6
    <2>2. ASSUME NEW t \in Tickets, ticket[t].status = "matched"
          PROVE  \E p \in match_players : p.ticket_id = t /\ p.match_id = ticket[t].match_id
      <3>1. Seat(ticket[t].match_id, t) \in match_players
        BY <2>2 DEF IInv, TablesInv, MatchedAreSeated
      <3> QED
        BY <3>1 DEF Seat
    <2> QED
      BY <2>1, <2>2 DEF MatchIsWhole, IInv, TablesInv, MatchedAreSeated
  <1> QED
    BY <1>1, Invariance, PTL

(* The two players of a match differ and asked for its queue. *)
THEOREM Opponents == Spec => []OpponentsDiffer
  <1>1. IInv => OpponentsDiffer
    <2> SUFFICES ASSUME IInv, NEW m \in matches,
                        NEW p \in PlayersOf(m.match_id), NEW q \in PlayersOf(m.match_id)
                 PROVE  /\ request[p.ticket_id].queue = m.queue
                        /\ request[p.ticket_id].player = p.player_id
                        /\ p # q => p.player_id # q.player_id
      BY DEF OpponentsDiffer
    <2>1. PICK t, u \in Tickets :
            /\ PlayersOf(m.match_id) = {Seat(m.match_id, t), Seat(m.match_id, u)}
            /\ request[t].queue = m.queue /\ request[u].queue = m.queue
            /\ request[t].player # request[u].player
      BY DEF IInv, TablesInv, MatchesAreSound
    <2>2. \A x : /\ Seat(m.match_id, x).ticket_id = x
                 /\ Seat(m.match_id, x).player_id = request[x].player
      BY DEF Seat
    <2> QED
      BY <2>1, <2>2
  <1> QED
    BY <1>1, Invariance, PTL

(* A matched or cancelled ticket never changes again.                      *)
LEMMA CommittedRowsMove ==
    ASSUME IInv, [Next]_vars, NEW t \in Tickets,
           ticket[t].status \in {"matched", "cancelled"}
    PROVE  ticket'[t] = ticket[t]
  <1>1. ASSUME NEW x \in Tickets, NEW r \in Request, CreateTicket(x, r)
        PROVE  ticket'[t] = ticket[t]
    BY <1>1 DEF CreateTicket, IInv, TypeOK
  <1>2. ASSUME NEW x \in Tickets, CancelTicket(x)
        PROVE  ticket'[t] = ticket[t]
    BY <1>2 DEF CancelTicket, Active, IInv, TypeOK
  <1>3. ASSUME NEW w \in Workers, CleanupReservations(w)
        PROVE  ticket'[t] = ticket[t]
    BY <1>3 DEF CleanupReservations
  <1>4. ASSUME NEW w \in Workers, Apply(w)
        PROVE  ticket'[t] = ticket[t]
    <2>1. tx[w].rows[t] = Nil
      BY DEF IInv, LocksInv, LockedIsWaiting, WaitingRow
    <2> QED
      BY <1>4, <2>1 DEF Apply, View
  <1>5. ASSUME NEW w \in Workers, LoopStep(w)
        PROVE  ticket'[t] = ticket[t]
    BY <1>3, <1>5 DEF LoopStep, FetchTickets, FetchOldest, FindPairs, EndLoop, tables
  <1>6. ASSUME NEW w \in Workers, PairStep(w)
        PROVE  ticket'[t] = ticket[t]
    BY <1>4, <1>6 DEF PairStep, StartPair, ReserveFirst, ReserveSecond, LosePair, InsertMatch,
       LinkFirst, LinkSecond, InsertEvent, Commit, DeadlockAbort, RollbackPair, tables
  <1>7. ASSUME NEW w \in Workers, Fault(w)
        PROVE  ticket'[t] = ticket[t]
    BY <1>4, <1>7 DEF Fault, PairFails, CommitLost, LoopFails, Crash, Restart, RollbackPair, tables
  <1>8. CASE ApiStep
    BY <1>1, <1>2, <1>8 DEF ApiStep, PassThreshold, tables
  <1>9. CASE UNCHANGED vars
    BY <1>9 DEF vars, tables
  <1> QED
    BY <1>5, <1>6, <1>7, <1>8, <1>9 DEF Next

(* OutcomesAreFinal: no late cancel undoes a match and no worker matches a *)
(* cancelled ticket. *)
THEOREM Finality == Spec => OutcomesAreFinal
  <1>1. IInv /\ [Next]_vars =>
          [\A t \in Tickets : ticket[t].status \in {"matched", "cancelled"}
                => ticket'[t] = ticket[t]]_vars
    BY CommittedRowsMove
  <1> QED
    BY <1>1, Invariance, PTL DEF Spec, OutcomesAreFinal

-----------------------------------------------------------------------------
(* Skills: what was close when it was paired is close when it is matched.  *)

(* A request is written once, by the step that creates its ticket.         *)
LEMMA RequestsStay ==
    ASSUME IInv, [Next]_vars, NEW t \in Tickets, request[t] # Nil
    PROVE  request'[t] = request[t]
  <1>1. ASSUME NEW x \in Tickets, NEW r \in Request, CreateTicket(x, r)
        PROVE  request'[t] = request[t]
    <2>1. request[x] = Nil
      BY <1>1 DEF CreateTicket, IInv, TablesInv, TicketsAreSound
    <2> QED
      BY <1>1, <2>1 DEF CreateTicket, IInv, TypeOK
  <1>2. ASSUME NEW x \in Tickets, CancelTicket(x) \/ PassThreshold(x)
        PROVE  request'[t] = request[t]
    BY <1>2 DEF CancelTicket, PassThreshold
  <1>3. ASSUME NEW w \in Workers, LoopStep(w) PROVE request'[t] = request[t]
    BY <1>3 DEF LoopStep, CleanupReservations, FetchTickets, FetchOldest,
       FindPairs, EndLoop
  <1>4. ASSUME NEW w \in Workers, PairStep(w) PROVE request'[t] = request[t]
    BY <1>4 DEF PairStep, StartPair, ReserveFirst, ReserveSecond, LosePair,
       RollbackPair, InsertMatch, LinkFirst, LinkSecond, InsertEvent, Commit,
       DeadlockAbort
  <1>5. ASSUME NEW w \in Workers, Fault(w) PROVE request'[t] = request[t]
    BY <1>5 DEF Fault, PairFails, RollbackPair, CommitLost, LoopFails, Crash,
       Restart
  <1> QED
    BY <1>1, <1>2, <1>3, <1>4, <1>5 DEF Next, ApiStep, vars

(* Time only passes. *)
LEMMA WaitsGrow ==
    ASSUME IInv, [Next]_vars, NEW t \in Tickets
    PROVE  waited'[t] = waited[t] \/ (waited[t] + 1 \in 0 .. MaxStage /\ waited'[t] = waited[t] + 1)
  <1>1. ASSUME NEW x \in Tickets, PassThreshold(x)
        PROVE  waited'[t] = waited[t] \/ (waited[t] + 1 \in 0 .. MaxStage /\ waited'[t] = waited[t] + 1)
    BY <1>1, StageAssumption DEF PassThreshold, IInv, TypeOK
  <1>2. CASE \/ \E x \in Tickets : (\E r \in Request : CreateTicket(x, r)) \/ CancelTicket(x)
             \/ UNCHANGED vars
    BY <1>2 DEF CreateTicket, CancelTicket, vars
  <1>3. ASSUME NEW w \in Workers, LoopStep(w) PROVE waited' = waited
    BY <1>3 DEF LoopStep, CleanupReservations, FetchTickets, FetchOldest, FindPairs, EndLoop
  <1>4. ASSUME NEW w \in Workers, PairStep(w) PROVE waited' = waited
    BY <1>4 DEF PairStep, StartPair, ReserveFirst, ReserveSecond, LosePair, RollbackPair,
       InsertMatch, LinkFirst, LinkSecond, InsertEvent, Commit, DeadlockAbort
  <1>5. ASSUME NEW w \in Workers, Fault(w) PROVE waited' = waited
    BY <1>5 DEF Fault, PairFails, RollbackPair, CommitLost, LoopFails, Crash, Restart
  <1> QED
    BY <1>1, <1>2, <1>3, <1>4, <1>5 DEF Next, ApiStep

(* So two requests that fit go on to fit. *)
LEMMA FitStays ==
    ASSUME IInv, [Next]_vars, DeltasGrow, NEW t \in Tickets, NEW u \in Tickets,
           request[t] # Nil, request[u] # Nil, SkillsFit(t, u)
    PROVE  SkillsFit(t, u)'
  <1>1. request'[t] = request[t] /\ request'[u] = request[u]
    BY RequestsStay
  <1>2. request[t].skill \in Int /\ request[u].skill \in Int
    BY SkillAssumption DEF IInv, TypeOK, Request
  <1>3. ASSUME NEW x \in Tickets
        PROVE  /\ SkillDelta[waited[x]] \in Int /\ SkillDelta[waited'[x]] \in Int
               /\ SkillDelta[waited[x]] <= SkillDelta[waited'[x]]
    <2>1. waited[x] \in 0 .. 2 /\ (waited'[x] = waited[x] \/ waited'[x] = waited[x] + 1)
          /\ waited'[x] \in 0 .. 2
      BY WaitsGrow, StageAssumption DEF IInv, TypeOK
    <2>2. waited[x] = waited'[x] \/ (waited[x] = 0 /\ waited'[x] = 1) \/ (waited[x] = 1 /\ waited'[x] = 2)
      BY <2>1
    <2> QED
      BY <2>1, <2>2, SkillAssumption DEF DeltasGrow
  <1> DEFINE d == Distance(request[t].skill, request[u].skill)
  <1>4. d \in Int
    BY <1>2 DEF Distance
  <1>5. d <= Larger(SkillDelta[waited[t]], SkillDelta[waited[u]])
    BY DEF SkillsFit
  <1> HIDE DEF d
  <1>6. d <= Larger(SkillDelta[waited'[t]], SkillDelta[waited'[u]])
    BY <1>3, <1>4, <1>5 DEF Larger
  <1> QED
    BY <1>1, <1>6 DEF SkillsFit, Distance, Larger, d

(* A worker that goes on with its pairs has the pairs it had. *)
LEMMA PairsStay ==
    ASSUME IInv, [Next]_vars, NEW w \in Workers, ~FindPairs(w),
           pc'[w] \in Working \union {"pairs"}
    PROVE  /\ pc[w] \in Working \union {"pairs"}
           /\ batch'[w] = batch[w] /\ partner'[w] = partner[w]
  <1> USE DEF Working, InPair
  <1>1. CASE ApiStep \/ UNCHANGED vars
    BY <1>1 DEF ApiStep, CreateTicket, CancelTicket, PassThreshold, vars, local
  <1>2. ASSUME NEW v \in Workers, LoopStep(v), ~(v = w /\ FindPairs(v))
        PROVE  /\ pc[w] \in Working \union {"pairs"}
               /\ batch'[w] = batch[w] /\ partner'[w] = partner[w]
    BY <1>2 DEF LoopStep, CleanupReservations, FetchTickets, FetchOldest, FindPairs, EndLoop,
       Forget, Goto, local, IInv, TypeOK
  <1>3. ASSUME NEW v \in Workers, PairStep(v)
        PROVE  /\ pc[w] \in Working \union {"pairs"}
               /\ batch'[w] = batch[w] /\ partner'[w] = partner[w]
    <2>1. pc[v] \in Working \union {"pairs"}
      BY <1>3 DEF PairStep, StartPair, ReserveFirst, ReserveSecond, LosePair, InsertMatch,
         LinkFirst, LinkSecond, InsertEvent, Commit, DeadlockAbort, InDeadlock, Blocks
    <2>2. UNCHANGED <<batch, partner>> /\ (v # w => pc'[w] = pc[w])
      BY <1>3 DEF PairStep, StartPair, ReserveFirst, ReserveSecond, LosePair, RollbackPair,
         InsertMatch, LinkFirst, LinkSecond, InsertEvent, Commit, DeadlockAbort, Goto, local,
         IInv, TypeOK
    <2> QED
      BY <2>1, <2>2
  <1>4. ASSUME NEW v \in Workers, Fault(v)
        PROVE  /\ pc[w] \in Working \union {"pairs"}
               /\ batch'[w] = batch[w] /\ partner'[w] = partner[w]
    BY <1>4 DEF Fault, PairFails, RollbackPair, CommitLost, LoopFails, Crash, Restart, Forget,
       Goto, local, IInv, TypeOK
  <1> QED
    BY <1>1, <1>2, <1>3, <1>4 DEF Next

(* The tables of matches change by a commit only. *)
LEMMA MatchesStay ==
    ASSUME [Next]_vars, \A w \in Workers : ~(pc[w] = "commit" /\ Apply(w) /\ request' = request)
    PROVE  UNCHANGED <<matches, match_players>>
  <1>1. CASE ApiStep \/ UNCHANGED vars
    BY <1>1 DEF ApiStep, CreateTicket, CancelTicket, PassThreshold, vars, tables
  <1>2. ASSUME NEW w \in Workers, LoopStep(w) PROVE UNCHANGED <<matches, match_players>>
    BY <1>2 DEF LoopStep, CleanupReservations, FetchTickets, FetchOldest, FindPairs, EndLoop, tables
  <1>3. ASSUME NEW w \in Workers, PairStep(w) PROVE UNCHANGED <<matches, match_players>>
    BY <1>3 DEF PairStep, StartPair, ReserveFirst, ReserveSecond, LosePair, RollbackPair,
       InsertMatch, LinkFirst, LinkSecond, InsertEvent, Commit, DeadlockAbort, tables
  <1>4. ASSUME NEW w \in Workers, Fault(w) PROVE UNCHANGED <<matches, match_players>>
    BY <1>4 DEF Fault, PairFails, RollbackPair, CommitLost, LoopFails, Crash, Restart, tables
  <1> QED
    BY <1>1, <1>2, <1>3, <1>4 DEF Next

(* find_pairs pairs what fits. *)
LEMMA FoundPairsFit ==
    ASSUME IInv, NEW w \in Workers, FindPairs(w)
    PROVE  PairsAreClose(w)'
  <1>1. PICK p \in find_pairs(batch[w]) : partner' = [partner EXCEPT ![w] = p]
    BY DEF FindPairs
  <1>2. partner'[w] = p /\ batch'[w] = batch[w] /\ UNCHANGED <<request, waited>>
    BY <1>1 DEF FindPairs, IInv, TypeOK
  <1>3. batch[w] \in Seq(Tickets)
    BY DEF IInv, TypeOK
  <1>4. ASSUME NEW i \in DOMAIN batch[w], p[i] # 0
        PROVE  SkillsFit(batch[w][i], batch[w][p[i]])
    <2>1. tickets_compatible(batch[w][i], batch[w][p[i]])
      BY <1>3, <1>4 DEF find_pairs
    <2> QED
      BY <2>1 DEF tickets_compatible, SkillsFit
  <1> QED
    BY <1>2, <1>4 DEF PairsAreClose, SkillsFit

(* Two tickets that fit fit in both orders, and each fits itself. *)
LEMMA FitIsSymmetric ==
    ASSUME IInv, NEW t \in Tickets, NEW u \in Tickets, request[t] # Nil, request[u] # Nil
    PROVE  /\ SkillsFit(t, u) => SkillsFit(u, t)
           /\ DeltasGrow => SkillsFit(t, t)
  <1>1. request[t].skill \in Int /\ request[u].skill \in Int
    BY SkillAssumption DEF IInv, TypeOK, Request
  <1>2. waited[t] \in 0 .. 2 /\ waited[u] \in 0 .. 2
    BY StageAssumption DEF IInv, TypeOK
  <1>3. SkillDelta[waited[t]] \in Int /\ SkillDelta[waited[u]] \in Int
    BY <1>2, SkillAssumption
  <1>4. DeltasGrow => 0 <= SkillDelta[waited[t]]
    <2>1. waited[t] = 0 \/ waited[t] = 1 \/ waited[t] = 2
      BY <1>2
    <2>2. SkillDelta[0] \in Int /\ SkillDelta[1] \in Int /\ SkillDelta[2] \in Int
      BY SkillAssumption
    <2> QED
      BY <2>1, <2>2 DEF DeltasGrow
  <1> QED
    BY <1>1, <1>3, <1>4 DEF SkillsFit, Distance, Larger

(* The two tickets of the pair at hand fit. *)
LEMMA PairAtHandFits ==
    ASSUME IInv, SkillInv, NEW w \in Workers, pc[w] \in Working
    PROVE  SkillsFit(First(w), Second(w))
  <1>1. at[w] \in DOMAIN batch[w] /\ partner[w][at[w]] \in DOMAIN batch[w] /\ batch[w] \in Seq(Tickets)
    BY DEF IInv, TypeOK, WorkerInv, PairAtHand
  <1>2. partner[w][at[w]] # 0
    BY <1>1
  <1> QED
    BY <1>1, <1>2 DEF SkillInv, PairsAreClose, First, Second

(* Every step keeps the skills of pairs and matches close. *)
LEMMA SkillStep == DeltasGrow /\ IInv /\ SkillInv /\ [Next]_vars => SkillInv'
  <1> SUFFICES ASSUME DeltasGrow, IInv, SkillInv, [Next]_vars PROVE SkillInv'
    OBVIOUS
  <1>1. ASSUME NEW w \in Workers PROVE PairsAreClose(w)'
    <2>1. CASE FindPairs(w)
      BY <2>1, FoundPairsFit
    <2>2. CASE ~FindPairs(w)
      <3> SUFFICES ASSUME pc'[w] \in Working \union {"pairs"},
                          NEW i \in DOMAIN batch'[w], partner'[w][i] # 0,
                          NEW t, NEW u, t = batch'[w][i], u = batch'[w][partner'[w][i]]
                   PROVE  SkillsFit(t, u)'
        BY DEF PairsAreClose, SkillsFit
      <3>1. /\ pc[w] \in Working \union {"pairs"}
            /\ batch'[w] = batch[w] /\ partner'[w] = partner[w]
        BY <2>2, PairsStay
      <3>2. t \in Tickets /\ u \in Tickets /\ request[t] # Nil /\ request[u] # Nil
        <4>1. /\ batch[w] \in Seq(Tickets) /\ i \in DOMAIN batch[w]
              /\ partner[w] \in [DOMAIN batch[w] -> 0 .. Len(batch[w])]
          BY <3>1 DEF IInv, TypeOK, WorkerInv, PairAtHand
        <4>2. partner[w][i] \in DOMAIN batch[w]
          BY <3>1, <4>1
        <4> QED
          BY <3>1, <4>1, <4>2 DEF IInv, WorkerInv, PairsAreOfOneQueue
      <3>3. SkillsFit(t, u)
        BY <3>1 DEF SkillInv, PairsAreClose
      <3> QED
        BY <3>2, <3>3, FitStays
    <2> QED
      BY <2>1, <2>2
  <1>2. SkillsAreClose'
    <2>1. ASSUME NEW t \in Tickets, NEW u \in Tickets, request[t] # Nil, request[u] # Nil,
                 SkillsFit(t, u)
          PROVE  \A p \in {t, u}, q \in {t, u} : SkillsFit(p, q)'
      <3>1. SkillsFit(u, t) /\ SkillsFit(t, t) /\ SkillsFit(u, u)
        BY <2>1, FitIsSymmetric
      <3>2. SkillsFit(t, u)' /\ SkillsFit(u, t)' /\ SkillsFit(t, t)' /\ SkillsFit(u, u)'
        BY <2>1, <3>1, FitStays
      <3> QED
        BY <3>2
    <2>2. ASSUME NEW m \in matches
          PROVE  \A p, q \in PlayersOf(m.match_id) : SkillsFit(p.ticket_id, q.ticket_id)'
      <3>1. PICK t, u \in Tickets :
              /\ request[t] # Nil /\ request[u] # Nil
              /\ PlayersOf(m.match_id) = {Seat(m.match_id, t), Seat(m.match_id, u)}
        BY DEF IInv, TablesInv, MatchesAreSound
      <3>2. Seat(m.match_id, t).ticket_id = t /\ Seat(m.match_id, u).ticket_id = u
        BY DEF Seat
      <3>3. SkillsFit(t, u)
        BY <3>1, <3>2 DEF SkillInv, SkillsAreClose, SkillsFit
      <3> QED
        BY <2>1, <3>1, <3>2, <3>3
    <2>3. CASE UNCHANGED <<matches, match_players>>
      BY <2>2, <2>3 DEF SkillsAreClose, SkillsFit, PlayersOf
    <2>4. ASSUME NEW w \in Workers, pc[w] = "commit", Apply(w), request' = request
          PROVE  SkillsAreClose'
      <3>1. PICK t, u : t = First(w) /\ u = Second(w)
        OBVIOUS
      <3>2. PICK m \in MatchIds :
              /\ t \in Tickets /\ u \in Tickets
              /\ request[t] # Nil /\ request[u] # Nil
              /\ matches' = matches \union {Match(m, t)}
              /\ PlayersOf(m)' = {Seat(m, t), Seat(m, u)}
              /\ \A r \in matches : PlayersOf(r.match_id)' = PlayersOf(r.match_id)
        BY <2>4, <3>1, ApplyFacts
      <3>3. SkillsFit(t, u)
        BY <2>4, <3>1, PairAtHandFits DEF Working
      <3>4. /\ Match(m, t).match_id = m
            /\ Seat(m, t).ticket_id = t /\ Seat(m, u).ticket_id = u
        BY DEF Match, Seat
      <3>5. \A p, q \in PlayersOf(m)' : SkillsFit(p.ticket_id, q.ticket_id)'
        BY <2>1, <3>2, <3>3, <3>4
      <3>6. ASSUME NEW r \in matches' PROVE
              \A p, q \in PlayersOf(r.match_id)' : SkillsFit(p.ticket_id, q.ticket_id)'
        BY <2>2, <3>2, <3>4, <3>5, <3>6
      <3> QED
        BY <3>6 DEF SkillsAreClose, SkillsFit
    <2> QED
      BY <2>3, <2>4, MatchesStay
  <1> QED
    BY <1>1, <1>2 DEF SkillInv

(* matching.py:149 to 160: however long a pair waits for its turn, the two *)
(* players of a match are as close in skill as the thresholds allow them   *)
(* to be, when thresholds grow with the wait as those of the configuration *)
(* do.                                                                     *)
THEOREM SkillsStayClose == DeltasGrow => (Spec => []SkillsAreClose)
  <1> SUFFICES ASSUME DeltasGrow PROVE Spec => []SkillsAreClose
    OBVIOUS
  <1>1. Init => SkillInv
    BY DEF Init, SkillInv, SkillsAreClose, PairsAreClose, Working, InPair
  <1>2. IInv /\ SkillInv /\ [Next]_vars => SkillInv'
    BY SkillStep
  <1>3. SkillInv => SkillsAreClose
    BY DEF SkillInv
  <1> QED
    BY <1>1, <1>2, <1>3, Invariance, PTL DEF Spec

-----------------------------------------------------------------------------
(* Refinement: the transactions implement the service of MatchService.     *)

(* A step that changes no table is invisible to clients. *)
LEMMA NothingVisible ==
    ASSUME UNCHANGED <<request, tables>>
    PROVE  UNCHANGED <<who, status, mates, announced>>
  BY DEF tables, who, status, mates, announced, PlayersOf

(* An INSERT of a ticket is a submission. *)
LEMMA SubmitStep ==
    ASSUME IInv, NEW t \in Tickets, NEW r \in Request, CreateTicket(t, r)
    PROVE  Service!Submit(t, [player |-> r.player, queue |-> r.queue])
  <1> DEFINE c == [player |-> r.player, queue |-> r.queue]
  <1>1. status[t] = "none"
    BY DEF CreateTicket, status
  <1>2. ASSUME NEW u \in Tickets, status[u] = "waiting" PROVE who[u] # c
    <2>1. Active(u) /\ request[u] # Nil
      BY <1>2 DEF status, Active, IInv, TablesInv, TicketsAreSound
    <2>2. ~SamePlayer(request[u], r)
      BY <2>1 DEF CreateTicket
    <2> QED
      BY <2>1, <2>2 DEF who, SamePlayer
  <1>3. r # Nil
    BY NilAssumption
  <1>4. who' = [who EXCEPT ![t] = c]
    BY <1>3 DEF CreateTicket, who, IInv, TypeOK
  <1>5. status' = [status EXCEPT ![t] = "waiting"]
    BY DEF CreateTicket, status, WaitingRow, IInv, TypeOK
  <1>6. mates' = mates /\ announced' = announced
    BY DEF CreateTicket, mates, announced, PlayersOf
  <1> QED
    BY <1>1, <1>2, <1>4, <1>5, <1>6 DEF Service!Submit

(* A cancel of a ticket is a cancellation. *)
LEMMA CancelStep ==
    ASSUME IInv, NEW t \in Tickets, CancelTicket(t)
    PROVE  Service!Cancel(t)
  <1>1. status[t] = "waiting"
    BY DEF CancelTicket, Active, status
  <1>2. status' = [status EXCEPT ![t] = "cancelled"]
    BY DEF CancelTicket, status, IInv, TypeOK, Row
  <1>3. who' = who /\ mates' = mates /\ announced' = announced
    BY DEF CancelTicket, who, mates, announced, PlayersOf
  <1> QED
    BY <1>1, <1>2, <1>3 DEF Service!Cancel

(* The commit of a pair is one match of two waiting tickets. *)
LEMMA MatchStep ==
    ASSUME IInv, NEW w \in Workers, pc[w] = "commit", Apply(w), request' = request
    PROVE  \E t, u \in Tickets : Service!Match(t, u)
  <1> DEFINE t == First(w)
             u == Second(w)
  <1>1. PICK m \in MatchIds :
          /\ t \in Tickets /\ u \in Tickets /\ t # u
          /\ request[t] # Nil /\ request[u] # Nil
          /\ request[t].queue = request[u].queue
          /\ request[t].player # request[u].player
          /\ ticket[t] = WaitingRow /\ ticket[u] = WaitingRow
          /\ ticket' = [x \in Tickets |-> IF x = t \/ x = u THEN MatchedRow(m) ELSE ticket[x]]
          /\ matches' = matches \union {Match(m, t)}
          /\ callback_events' = callback_events \union {Event(m, t, u)}
          /\ PlayersOf(m)' = {Seat(m, t), Seat(m, u)}
          /\ \A r \in matches : PlayersOf(r.match_id)' = PlayersOf(r.match_id)
    BY ApplyFacts
  <1> HIDE DEF t, u
  <1>2. status[t] = "waiting" /\ status[u] = "waiting"
    BY <1>1 DEF status, WaitingRow
  <1>3. who[t].queue = who[u].queue /\ who[t].player # who[u].player
    BY <1>1 DEF who
  <1>4. status' = [status EXCEPT ![t] = "matched", ![u] = "matched"]
    BY <1>1 DEF status, MatchedRow
  <1>5. mates' = mates \union {{t, u}}
    <2> DEFINE Of(n) == {p.ticket_id : p \in PlayersOf(n)}
    <2>1. \A r \in matches : Of(r.match_id)' = Of(r.match_id)
      BY <1>1
    <2>2. Of(m)' = {t, u}
      BY <1>1 DEF Seat
    <2>3. Match(m, t).match_id = m
      BY DEF Match
    <2>4. mates = {Of(r.match_id) : r \in matches} /\ mates' = {Of(r.match_id)' : r \in matches'}
      BY DEF mates
    <2> HIDE DEF Of
    <2> QED
      BY <1>1, <2>1, <2>2, <2>3, <2>4
  <1>6. announced' = announced \union {{t, u}}
    <2>1. Event(m, t, u).ticket_ids = {t, u}
      BY DEF Event
    <2> QED
      BY <1>1, <2>1 DEF announced
  <1>7. who' = who
    BY DEF who
  <1> QED
    BY <1>1, <1>2, <1>3, <1>4, <1>5, <1>6, <1>7 DEF Service!Match

(* Every step of the detailed specification is a step of the service or    *)
(* invisible to its clients.                                               *)
LEMMA StepRefines == IInv /\ [Next]_vars => [Service!Next]_(Service!svars)
  <1> SUFFICES ASSUME IInv, [Next]_vars
               PROVE  Service!Next \/ UNCHANGED <<who, status, mates, announced>>
    BY DEF Service!svars
  <1>1. ASSUME NEW t \in Tickets, NEW r \in Request, CreateTicket(t, r)
        PROVE  Service!Next
    <2>1. [player |-> r.player, queue |-> r.queue] \in Service!Claim
      BY DEF Service!Claim, Request
    <2> QED
      BY <1>1, <2>1, SubmitStep DEF Service!Next
  <1>2. ASSUME NEW t \in Tickets, CancelTicket(t) PROVE Service!Next
    BY <1>2, CancelStep DEF Service!Next
  <1>3. CASE ApiStep
    BY <1>1, <1>2, <1>3, NothingVisible DEF ApiStep, PassThreshold
  <1>4. ASSUME NEW w \in Workers, CleanupReservations(w)
        PROVE  UNCHANGED <<request, tables>>
    <2>1. ticket' = [t \in Tickets |-> ticket[t]]
      BY <1>4 DEF CleanupReservations, IInv, TablesInv, TicketsAreSound
    <2> QED
      BY <1>4, <2>1 DEF CleanupReservations, tables, IInv, TypeOK
  <1>5. ASSUME NEW w \in Workers, LoopStep(w)
        PROVE  UNCHANGED <<who, status, mates, announced>>
    BY <1>4, <1>5, NothingVisible DEF LoopStep, FetchTickets, FetchOldest, FindPairs, EndLoop
  <1>6. ASSUME NEW w \in Workers, Commit(w) PROVE Service!Next
    BY <1>6, MatchStep DEF Commit, Service!Next
  <1>7. ASSUME NEW w \in Workers, CommitLost(w)
        PROVE  Service!Next \/ UNCHANGED <<who, status, mates, announced>>
    BY <1>7, MatchStep, NothingVisible DEF CommitLost, Service!Next
  <1>8. ASSUME NEW w \in Workers, PairStep(w)
        PROVE  Service!Next \/ UNCHANGED <<who, status, mates, announced>>
    BY <1>6, <1>8, NothingVisible DEF PairStep, StartPair, ReserveFirst, ReserveSecond, LosePair,
       InsertMatch, LinkFirst, LinkSecond, InsertEvent, DeadlockAbort, RollbackPair
  <1>9. ASSUME NEW w \in Workers, Fault(w)
        PROVE  Service!Next \/ UNCHANGED <<who, status, mates, announced>>
    BY <1>7, <1>9, NothingVisible DEF Fault, PairFails, LoopFails, Crash, Restart, RollbackPair
  <1>10. CASE UNCHANGED vars
    BY <1>10, NothingVisible DEF vars
  <1> QED
    BY <1>3, <1>5, <1>8, <1>9, <1>10 DEF Next

(* Empty tables are the service before its first ticket. *)
LEMMA InitRefines == Init => Service!Init
  BY DEF Init, NoRow, Service!Init, who, status, mates, announced

(* ImplementsService: the transactions of any number of workers, with *)
(* crashes and lost commits, implement MatchService. *)
THEOREM Refinement == Spec => ImplementsService
  BY InitRefines, StepRefines, Invariance, PTL DEF Spec, ImplementsService, Service!Spec
=============================================================================
