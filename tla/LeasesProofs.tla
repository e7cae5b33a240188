----------------------------- MODULE LeasesProofs -----------------------------
(* Proofs of the safety properties of Leases, for all constants. *)
EXTENDS LeasesInv, TLAPS

-----------------------------------------------------------------------------
(* Rows, drafts and what the operations on them do. *)

(* A row with an owner of its own or none, and a lease in range, is a row. *)
LEMMA RowLemma ==
    /\ Unowned \in Row
    /\ \A r \in Row : r # Nil /\ Aged(r) \in Row
    /\ \A w \in Workers : age[w] \in 0 .. MaxStall => Leased(w) \in Row
  <1>1. Unowned \in Row
    BY TicksAssumption DEF Unowned, Row
  <1>2. \A r \in Row : r # Nil
    BY NilAssumption
  <1>3. ASSUME NEW r \in Row PROVE Aged(r) \in Row
    BY TicksAssumption DEF Aged, Down, Row
  <1>4. ASSUME NEW w \in Workers, age[w] \in 0 .. MaxStall PROVE Leased(w) \in Row
    BY <1>4, TicksAssumption DEF Leased, Row
  <1> QED
    BY <1>1, <1>2, <1>3, <1>4

(* The types alone, without the parts that relate variables. *)
DraftType == [Workers -> [Partitions -> Row \union {Nil}]]

(* A transaction given up holds nothing, and the others keep what they hold. *)
LEMMA DiscardLemma ==
    ASSUME draft \in DraftType, NEW w \in Workers, Discard(w)
    PROVE  /\ draft' \in DraftType
           /\ draft'[w] = NoDraft
           /\ \A p \in Partitions : draft'[w][p] = Nil
           /\ \A v \in Workers \ {w} : draft'[v] = draft[v]
  BY DEF Discard, DraftType, NoDraft

(* What a transaction sees of a row is a row. *)
LEMMA ViewLemma ==
    ASSUME TypeOK, NEW w \in Workers, NEW p \in Partitions
    PROVE  View(w, p) \in Row
  BY DEF View, TypeOK

-----------------------------------------------------------------------------
(* The initial state. *)

(* The invariant holds of unowned rows and idle workers. *)
LEMMA InitInv == Init => IInv
  <1> SUFFICES ASSUME Init PROVE IInv
    OBVIOUS
  <1>1. TypeOK
    BY RowLemma, TicksAssumption DEF Init, TypeOK, NoDraft, NoBeat
  <1>2. PassesAreClosed
    BY DEF Init, PassesAreClosed, Writing, Drafted, NoDraft
  <1>3. RowsAreLockedOnce /\ RunningLeasesAreSafe
    BY DEF Init, RowsAreLockedOnce, RunningLeasesAreSafe, Drafted, NoDraft
  <1>4. RenewedRowsAreLocked /\ ListedLeasesStand
    BY DEF Init, RenewedRowsAreLocked, Writing, ListedLeasesStand
  <1> QED
    BY <1>1, <1>2, <1>3, <1>4 DEF IInv

-----------------------------------------------------------------------------
(* Time. *)

(* A row ages by one tick, or its lease is past for every transaction. *)
LEMMA AgedLemma ==
    ASSUME NEW r \in Row
    PROVE  /\ Aged(r).owned_by = r.owned_by
           /\ Aged(r).until = r.until - 1 \/ (Aged(r).until = r.until /\ r.until = -MaxStall)
           /\ r.until \in Int /\ r.until >= -MaxStall
  BY TicksAssumption DEF Aged, Down, Row

(* A tick keeps the distance of a lease to the now() of every transaction, *)
(* so it takes nobody's row away.                                          *)
LEMMA TickKeeps == ASSUME IInv, Tick PROVE IInv'
  <1> USE DEF IInv
  <1>1. /\ \A p \in Partitions : lease'[p] = Aged(lease[p])
        /\ \A w \in Workers : \A p \in Partitions :
              draft'[w][p] = IF draft[w][p] = Nil THEN Nil ELSE Aged(draft[w][p])
        /\ \A w \in Workers : age'[w] = IF pc[w] = "down" THEN 0 ELSE age[w] + 1
        /\ \A w \in Workers : \A p \in Partitions :
              left'[w][p] = IF left[w][p] > 0 THEN left[w][p] - 1 ELSE 0
        /\ pc' = pc /\ acting' = acting /\ faults' = faults
    BY DEF Tick
  <1>0. /\ \A p \in Partitions :
              /\ lease[p] \in Row
              /\ lease[p].until \in Int /\ lease[p].until >= -MaxStall
              /\ lease'[p].owned_by = lease[p].owned_by
              /\ \/ lease'[p].until = lease[p].until - 1
                 \/ lease'[p].until = lease[p].until /\ lease[p].until = -MaxStall
        /\ \A w \in Workers : \A p \in Partitions :
              draft[w][p] \in Row \union {Nil}
    BY <1>1, AgedLemma DEF TypeOK
  <1>2. \A w \in Workers : \A p \in Partitions : Drafted(w, p)' <=> Drafted(w, p)
    <2> SUFFICES ASSUME NEW w \in Workers, NEW p \in Partitions
                 PROVE  Drafted(w, p)' <=> Drafted(w, p)
      OBVIOUS
    <2>1. draft[w][p] \in Row => Aged(draft[w][p]) # Nil
      BY RowLemma
    <2> QED
      BY <1>0, <1>1, <2>1 DEF Drafted
  <1>3. age' \in [Workers -> 0 .. MaxStall]
    <2>1. age' = [w \in Workers |-> IF pc[w] = "down" THEN 0 ELSE age[w] + 1]
      BY DEF Tick
    <2>2. ASSUME NEW w \in Workers, pc[w] # "down" PROVE age[w] + 1 \in 0 .. MaxStall
      <3>1. age[w] < IF pc[w] \in Setup THEN MaxSetup ELSE MaxStall
        BY <2>2 DEF Tick
      <3>2. age[w] \in 0 .. MaxStall
        BY DEF TypeOK
      <3> QED
        BY <3>1, <3>2, TicksAssumption
    <2> QED
      BY <2>1, <2>2, TicksAssumption
  <1>4. TypeOK'
    <2>1. lease' \in [Partitions -> Row] /\ draft' \in DraftType
      BY RowLemma DEF Tick, TypeOK, DraftType
    <2>2. beat' \in [Workers -> -MaxStall .. HeartbeatTicks]
      BY TicksAssumption DEF Tick, TypeOK, Down
    <2>3. left' \in [Workers -> [Partitions -> 0 .. LeaseTicks]]
      BY TicksAssumption DEF Tick, TypeOK
    <2> QED
      BY <1>1, <1>3, <2>1, <2>2, <2>3 DEF TypeOK, DraftType
  <1>5. PassesAreClosed'
    <2>1. ASSUME NEW w \in Workers, pc[w] \notin Writing PROVE draft'[w] = NoDraft
      BY <2>1 DEF Tick, PassesAreClosed, NoDraft
    <2>2. ASSUME NEW w \in Workers, NEW p \in Partitions, Drafted(w, p)
          PROVE  draft'[w][p].owned_by \in {w, Nil}
      <3>1. draft[w][p] \in Row /\ draft'[w][p] = Aged(draft[w][p])
        BY <1>0, <1>1, <1>2, <2>2 DEF Drafted
      <3> QED
        BY <2>2, <3>1, AgedLemma DEF PassesAreClosed
    <2> QED
      BY <1>1, <1>2, <2>1, <2>2 DEF PassesAreClosed
  <1>6. RowsAreLockedOnce'
    BY <1>2 DEF RowsAreLockedOnce
  <1>7. RenewedRowsAreLocked'
    <2>1. ASSUME NEW w \in Workers, NEW p \in Partitions, pc[w] \in Writing,
                 lease'[p].until + age'[w] > 0
          PROVE  lease[p].until + age[w] > 0
      <3>1. age'[w] = age[w] + 1 /\ age'[w] \in 0 .. MaxStall /\ age[w] \in Int
        BY <1>1, <1>3, <2>1 DEF TypeOK, Writing
      <3> QED
        BY <1>0, <2>1, <3>1, TicksAssumption
    <2> QED
      BY <1>0, <1>1, <1>2, <2>1 DEF RenewedRowsAreLocked, Live
  <1>8. RunningLeasesAreSafe'
    <2>1. \A p \in Partitions : lease'[p].until > 0 => lease[p].until > 0
      BY <1>0, TicksAssumption
    <2> QED
      BY <1>0, <1>2, <2>1 DEF RunningLeasesAreSafe
  <1>9. ListedLeasesStand'
    <2> SUFFICES ASSUME NEW w \in Workers, NEW p \in acting[w], left'[w][p] > 0
                 PROVE  lease'[p] = [owned_by |-> w, until |-> left'[w][p]]
      BY <1>1 DEF ListedLeasesStand
    <2>1. p \in Partitions /\ left[w][p] \in 0 .. LeaseTicks
      BY DEF TypeOK
    <2>2. left[w][p] > 0 /\ left'[w][p] = left[w][p] - 1
      BY <1>1, <2>1, TicksAssumption
    <2>3. lease[p] = [owned_by |-> w, until |-> left[w][p]]
      BY <2>2 DEF ListedLeasesStand
    <2> QED
      BY <1>1, <2>1, <2>2, <2>3, TicksAssumption DEF Aged, Down
  <1> QED
    BY <1>4, <1>5, <1>6, <1>7, <1>8, <1>9
-----------------------------------------------------------------------------
(* The lease transaction. *)

(* What a transaction adds to its draft is its own or nobody's row, locked *)
(* by no other, and no lease of another that still runs.                   *)
LEMMA WritesAreSafe ==
    ASSUME IInv, NEW w \in Workers, NEW S \in SUBSET Partitions, NEW r \in Row,
           Write(w, S, r), r.owned_by \in {w, Nil},
           \A p \in S : /\ ~LockedByOther(w, p)
                        /\ lease[p].until > 0 => lease[p].owned_by \in {w, Nil},
           NEW l \in Writing, Goto(w, l),
           pc[w] \in Writing
              \/ \A p \in Partitions : lease[p].owned_by = w /\ Live(w, lease[p]) => p \in S,
           pc[w] # "match",
           UNCHANGED <<lease, beat, age, acting, left, faults>>
    PROVE  IInv'
  <1> USE DEF IInv
  <1>1. /\ draft' \in DraftType
        /\ \A v \in Workers \ {w} : draft'[v] = draft[v]
        /\ \A p \in Partitions : draft'[w][p] = IF p \in S THEN r ELSE draft[w][p]
    <2> draft \in DraftType
      BY DEF TypeOK, DraftType
    <2>1. draft' = [draft EXCEPT ![w] = [p \in Partitions |-> IF p \in S THEN r ELSE @[p]]]
      BY DEF Write
    <2>2. \A v \in Workers : draft[v] \in [Partitions -> Row \union {Nil}]
      BY DEF DraftType
    <2> QED
      BY <2>1, <2>2 DEF DraftType
  <1>2. /\ pc' \in [Workers -> {"idle", "renew", "claim", "rebalance", "commit",
                                 "list", "match", "down"}]
        /\ pc'[w] = l
        /\ \A v \in Workers \ {w} : pc'[v] = pc[v]
    BY DEF Goto, TypeOK, Writing
  <1>3. /\ \A p \in S : Drafted(w, p)'
        /\ \A p \in Partitions \ S : Drafted(w, p)' <=> Drafted(w, p)
        /\ \A v \in Workers \ {w} : \A p \in Partitions : Drafted(v, p)' <=> Drafted(v, p)
    BY <1>1, RowLemma DEF Drafted
  <1>4. \A v \in Workers \ {w} : \A p \in S : ~Drafted(v, p)
    BY DEF LockedByOther, Drafted
  <1>5. TypeOK'
    BY <1>1, <1>2 DEF TypeOK, DraftType
  <1>6. PassesAreClosed'
    BY <1>1, <1>2, <1>3 DEF PassesAreClosed, Drafted, Writing
  <1>7. RowsAreLockedOnce'
    BY <1>3, <1>4 DEF RowsAreLockedOnce
  <1>8. RenewedRowsAreLocked'
    BY <1>2, <1>3 DEF RenewedRowsAreLocked, Live
  <1>9. RunningLeasesAreSafe'
    BY <1>3, NilAssumption DEF RunningLeasesAreSafe
  <1>10. ListedLeasesStand'
    BY DEF ListedLeasesStand
  <1> QED
    BY <1>5, <1>6, <1>7, <1>8, <1>9, <1>10

(* What a transaction lists as its own is locked by it, or committed as    *)
(* its own.                                                                *)
LEMMA OwnedLemma ==
    ASSUME IInv, NEW w \in Workers, NEW p \in OwnedInTx(w)
    PROVE  /\ p \in Partitions
           /\ Drafted(w, p) \/ (lease[p].owned_by = w /\ Live(w, lease[p]))
  BY DEF OwnedInTx, View, Drafted

(* renew_owned_partitions locks every row it sees as its own. *)
LEMMA RenewKeeps ==
    ASSUME IInv, NEW w \in Workers, renew_owned_partitions(w) PROVE IInv'
  <1>1. OwnedInTx(w) \in SUBSET Partitions /\ "claim" \in Writing
    BY DEF OwnedInTx, Writing
  <1>2. draft[w] = NoDraft
    BY DEF IInv, PassesAreClosed, renew_owned_partitions, Writing
  <1>3. \A p \in Partitions :
           p \in OwnedInTx(w) <=> lease[p].owned_by = w /\ Live(w, lease[p])
    BY <1>2 DEF OwnedInTx, View, NoDraft
  <1>4. Leased(w) \in Row /\ Leased(w).owned_by = w
    BY RowLemma DEF IInv, TypeOK, Leased
  <1> QED
    BY <1>1, <1>3, <1>4, WritesAreSafe DEF renew_owned_partitions

(* claim_available_partitions takes what no transaction has locked and     *)
(* what is past even for this one, whose now() may be old.                 *)
LEMMA ClaimKeeps ==
    ASSUME IInv, NEW w \in Workers, claim_available_partitions(w) PROVE IInv'
  <1>1. PICK S \in SUBSET Claimable(w) : Write(w, S, Leased(w))
    BY DEF claim_available_partitions
  <1>2. S \in SUBSET Partitions /\ "rebalance" \in Writing
    BY <1>1 DEF Claimable, Writing
  <1>3. Leased(w) \in Row /\ Leased(w).owned_by = w
    BY RowLemma DEF IInv, TypeOK, Leased
  <1>4. ASSUME NEW p \in S, lease[p].until > 0 PROVE lease[p].owned_by \in {w, Nil}
    <2>1. CASE Drafted(w, p)
      BY <1>2, <1>4, <2>1 DEF IInv, RunningLeasesAreSafe, TypeOK, Row
    <2>2. CASE ~Drafted(w, p)
      <3>1. View(w, p) = lease[p]
        BY <2>2 DEF View, Drafted
      <3>2. lease[p].until \in Int /\ age[w] \in Nat
        BY <1>2 DEF IInv, TypeOK, Row
      <3>3. Live(w, lease[p])
        BY <1>4, <3>2 DEF Live
      <3> QED
        BY <1>1, <3>1, <3>3 DEF Claimable
    <2> QED
      BY <2>1, <2>2
  <1>5. \A p \in S : ~LockedByOther(w, p)
    BY <1>1 DEF Claimable
  <1>6. pc[w] \in Writing /\ pc[w] # "match" /\ Goto(w, "rebalance")
        /\ UNCHANGED <<lease, beat, age, acting, left, faults>>
    BY DEF claim_available_partitions, Writing
  <1> QED
    BY <1>1, <1>2, <1>3, <1>4, <1>5, <1>6, WritesAreSafe

(* release_excess_partitions writes only rows that renew or claim locked.  *)
LEMMA ReleaseKeeps ==
    ASSUME IInv, NEW w \in Workers, release_excess_partitions(w) PROVE IInv'
  <1>1. PICK S \in SUBSET OwnedInTx(w) : Write(w, S, Unowned)
    BY DEF release_excess_partitions
  <1>2. pc[w] \in Writing /\ pc[w] # "match" /\ Goto(w, "commit")
        /\ UNCHANGED <<lease, beat, age, acting, left, faults>>
    BY DEF release_excess_partitions, Writing
  <1>3. S \in SUBSET Partitions /\ "commit" \in Writing
    BY <1>1 DEF OwnedInTx, Writing
  <1>4. \A p \in S : Drafted(w, p)
    BY <1>1, <1>2, OwnedLemma DEF IInv, RenewedRowsAreLocked
  <1>5. \A p \in S : ~LockedByOther(w, p)
    BY <1>3, <1>4 DEF IInv, RowsAreLockedOnce, LockedByOther, Drafted
  <1>6. \A p \in S : lease[p].until > 0 => lease[p].owned_by \in {w, Nil}
    BY <1>3, <1>4 DEF IInv, RunningLeasesAreSafe, TypeOK, Row
  <1>7. Unowned \in Row /\ Unowned.owned_by = Nil
    BY RowLemma DEF Unowned
  <1> QED
    BY <1>1, <1>2, <1>3, <1>5, <1>6, <1>7, WritesAreSafe

(* The commit gives the rows out as they were written, and nobody else had *)
(* them; what it did not write stays as it was.                            *)
LEMMA CommitKeeps ==
    ASSUME IInv, NEW w \in Workers, CommitLeases(w) PROVE IInv'
  <1>1. TypeOK /\ PassesAreClosed /\ RowsAreLockedOnce /\ RenewedRowsAreLocked
        /\ RunningLeasesAreSafe /\ ListedLeasesStand
    BY DEF IInv
  <1>2. /\ draft' \in DraftType
        /\ draft'[w] = NoDraft /\ \A p \in Partitions : draft'[w][p] = Nil
        /\ \A v \in Workers \ {w} : draft'[v] = draft[v]
    BY <1>1, DiscardLemma DEF CommitLeases, TypeOK, DraftType
  <1>3. /\ pc[w] = "commit" /\ pc'[w] = "list"
        /\ pc' \in [Workers -> {"idle", "renew", "claim", "rebalance", "commit",
                                 "list", "match", "down"}]
        /\ \A v \in Workers \ {w} : pc'[v] = pc[v]
        /\ UNCHANGED <<age, acting, left, faults>>
    BY <1>1 DEF CommitLeases, Goto, TypeOK
  <1>4. \A p \in Partitions :
           lease'[p] = IF Drafted(w, p) THEN draft[w][p] ELSE lease[p]
    BY DEF CommitLeases, View, Drafted
  <1>5. /\ \A p \in Partitions : ~Drafted(w, p)'
        /\ \A v \in Workers \ {w} : \A p \in Partitions : Drafted(v, p)' <=> Drafted(v, p)
    BY <1>2 DEF Drafted
  <1>6. TypeOK'
    <2>1. lease' \in [Partitions -> Row]
      BY <1>1, ViewLemma DEF CommitLeases
    <2>2. beat' \in [Workers -> -MaxStall .. HeartbeatTicks]
      <3>1. HeartbeatTicks - age[w] \in -MaxStall .. HeartbeatTicks
        BY <1>1, TicksAssumption DEF TypeOK
      <3> QED
        BY <1>1, <3>1 DEF CommitLeases, TypeOK
    <2> QED
      BY <1>1, <1>2, <1>3, <2>1, <2>2 DEF TypeOK, DraftType
  <1>7. PassesAreClosed'
    BY <1>1, <1>2, <1>3, <1>5 DEF PassesAreClosed, Writing
  <1>8. RowsAreLockedOnce'
    BY <1>1, <1>5 DEF RowsAreLockedOnce
  <1>9. RenewedRowsAreLocked'
    <2> SUFFICES ASSUME NEW v \in Workers, NEW p \in Partitions, pc'[v] \in Writing,
                        lease'[p].owned_by = v, Live(v, lease[p])'
                 PROVE  Drafted(v, p)'
      BY DEF RenewedRowsAreLocked
    <2>1. v # w /\ pc[v] \in Writing
      BY <1>3 DEF Writing
    <2>2. ~Drafted(w, p)
      BY <1>1, <1>4, <2>1, NilAssumption DEF PassesAreClosed
    <2>3. lease'[p] = lease[p]
      BY <1>4, <2>2
    <2>4. Live(v, lease[p])
      BY <1>3, <2>3 DEF Live
    <2> QED
      BY <1>1, <1>5, <2>1, <2>3, <2>4 DEF RenewedRowsAreLocked
  <1>10. RunningLeasesAreSafe'
    <2> SUFFICES ASSUME NEW u \in Workers, NEW v \in Workers, NEW p \in Partitions,
                        lease'[p].owned_by = v, lease'[p].until > 0, Drafted(u, p)'
                 PROVE  u = v
      BY DEF RunningLeasesAreSafe
    <2>1. u # w /\ Drafted(u, p)
      BY <1>5
    <2>2. ~Drafted(w, p)
      BY <1>1, <2>1 DEF RowsAreLockedOnce
    <2> QED
      BY <1>1, <1>4, <2>1, <2>2 DEF RunningLeasesAreSafe
  <1>11. ListedLeasesStand'
    <2> SUFFICES ASSUME NEW v \in Workers, NEW p \in acting[v], left[v][p] > 0
                 PROVE  lease'[p] = [owned_by |-> v, until |-> left[v][p]]
      BY <1>3 DEF ListedLeasesStand
    <2>1. v # w /\ p \in Partitions
      BY <1>1, <1>3 DEF PassesAreClosed, TypeOK
    <2>2. lease[p] = [owned_by |-> v, until |-> left[v][p]]
      BY <1>1 DEF ListedLeasesStand
    <2>3. ~Drafted(w, p)
      BY <1>1, <2>1, <2>2 DEF RunningLeasesAreSafe
    <2> QED
      BY <1>4, <2>1, <2>2, <2>3
  <1> QED
    BY <1>6, <1>7, <1>8, <1>9, <1>10, <1>11 DEF IInv

-----------------------------------------------------------------------------
(* The rest of the pass. *)

(* BeginLoop opens a transaction that has written nothing. *)
LEMMA BeginKeeps ==
    ASSUME IInv, NEW w \in Workers, BeginLoop(w) PROVE IInv'
  <1>1. /\ age' = [age EXCEPT ![w] = 0] /\ pc' = [pc EXCEPT ![w] = "renew"]
        /\ pc[w] = "idle" /\ UNCHANGED <<lease, beat, draft, acting, left, faults>>
    BY DEF BeginLoop, Goto
  <1>2. TypeOK'
    BY <1>1, TicksAssumption DEF IInv, TypeOK
  <1>3. PassesAreClosed' /\ RenewedRowsAreLocked'
    BY <1>1 DEF IInv, TypeOK, PassesAreClosed, RenewedRowsAreLocked, Writing, Drafted, Live
  <1>4. RowsAreLockedOnce' /\ RunningLeasesAreSafe' /\ ListedLeasesStand'
    BY <1>1 DEF IInv, RowsAreLockedOnce, RunningLeasesAreSafe, ListedLeasesStand, Drafted
  <1> QED
    BY <1>2, <1>3, <1>4 DEF IInv

(* list_owned_partitions remembers the committed rows as they are. *)
LEMMA ListKeeps ==
    ASSUME IInv, NEW w \in Workers, list_owned_partitions(w) PROVE IInv'
  <1> DEFINE listed == {p \in Partitions : lease[p].owned_by = w /\ lease[p].until > 0}
  <1>1. /\ acting' = [acting EXCEPT ![w] = listed]
        /\ left' = [left EXCEPT ![w] = [p \in Partitions |->
                       IF p \in listed THEN lease[p].until ELSE 0]]
        /\ pc[w] = "list" /\ pc' = [pc EXCEPT ![w] = "match"]
        /\ UNCHANGED <<lease, beat, draft, age, faults>>
    BY DEF list_owned_partitions, Goto
  <1>2. \A p \in Partitions :
           /\ lease[p] \in Row
           /\ p \in listed => lease[p] = [owned_by |-> w, until |-> lease[p].until]
    BY DEF IInv, TypeOK, Row
  <1>3. TypeOK'
    <2>1. acting' \in [Workers -> SUBSET Partitions]
      BY <1>1 DEF IInv, TypeOK
    <2>2. left' \in [Workers -> [Partitions -> 0 .. LeaseTicks]]
      <3>1. [p \in Partitions |-> IF p \in listed THEN lease[p].until ELSE 0]
               \in [Partitions -> 0 .. LeaseTicks]
        <4>1. \A p \in Partitions : lease[p].until \in -MaxStall .. LeaseTicks
          BY <1>2 DEF Row
        <4> QED
          BY <4>1, TicksAssumption
      <3> HIDE DEF listed
      <3> QED
        BY <1>1, <3>1 DEF IInv, TypeOK
    <2> QED
      BY <1>1, <2>1, <2>2 DEF IInv, TypeOK
  <1>4. PassesAreClosed' /\ RenewedRowsAreLocked'
    <2> HIDE DEF listed
    <2> QED
      BY <1>1 DEF IInv, TypeOK, PassesAreClosed, RenewedRowsAreLocked, Writing, Drafted, Live
  <1>5. RowsAreLockedOnce' /\ RunningLeasesAreSafe'
    BY <1>1 DEF IInv, RowsAreLockedOnce, RunningLeasesAreSafe, Drafted
  <1>6. ListedLeasesStand'
    BY <1>1, <1>2 DEF IInv, TypeOK, ListedLeasesStand
  <1> QED
    BY <1>3, <1>4, <1>5, <1>6 DEF IInv

(* Giving a pass up, or ending it, holds and works on nothing more. *)
LEMMA LeaveKeeps ==
    ASSUME IInv, NEW w \in Workers, NEW l \in {"idle", "down"}, Leave(w, l),
           age' \in [Workers -> 0 .. MaxStall], \A v \in Workers \ {w} : age'[v] = age[v],
           beat' \in [Workers -> -MaxStall .. HeartbeatTicks], faults' \in 0 .. MaxFaults,
           \A p \in Partitions : lease'[p] = lease[p]
                                   \/ (lease[p].owned_by = w /\ lease'[p] = Unowned),
           lease' \in [Partitions -> Row]
    PROVE  IInv'
  <1>1. TypeOK /\ PassesAreClosed /\ RowsAreLockedOnce /\ RenewedRowsAreLocked
        /\ RunningLeasesAreSafe /\ ListedLeasesStand
    BY DEF IInv
  <1>2. /\ draft' \in DraftType
        /\ draft'[w] = NoDraft /\ \A p \in Partitions : draft'[w][p] = Nil
        /\ \A v \in Workers \ {w} : draft'[v] = draft[v]
    BY <1>1, DiscardLemma DEF Leave, TypeOK, DraftType
  <1>3. /\ acting' = [acting EXCEPT ![w] = {}]
        /\ left' = [left EXCEPT ![w] = [p \in Partitions |-> 0]]
        /\ pc' = [pc EXCEPT ![w] = l]
    BY DEF Leave, Goto
  <1>4. /\ \A p \in Partitions : ~Drafted(w, p)'
        /\ \A v \in Workers \ {w} : \A p \in Partitions : Drafted(v, p)' <=> Drafted(v, p)
    BY <1>2 DEF Drafted
  <1>5. \A p \in Partitions : \A v \in Workers : lease'[p].owned_by = v => lease'[p] = lease[p]
    BY NilAssumption DEF Unowned
  <1>6. TypeOK'
    BY <1>1, <1>2, <1>3, TicksAssumption DEF TypeOK, DraftType
  <1>7. PassesAreClosed'
    BY <1>1, <1>2, <1>3, <1>4 DEF TypeOK, PassesAreClosed, Writing
  <1>8. RowsAreLockedOnce'
    BY <1>1, <1>4 DEF RowsAreLockedOnce
  <1>9. RenewedRowsAreLocked'
    <2> SUFFICES ASSUME NEW v \in Workers, NEW p \in Partitions, pc'[v] \in Writing,
                        lease'[p].owned_by = v, Live(v, lease[p])'
                 PROVE  Drafted(v, p)'
      BY DEF RenewedRowsAreLocked
    <2>1. v # w /\ pc[v] \in Writing
      BY <1>1, <1>3 DEF TypeOK, Writing
    <2>2. lease'[p] = lease[p] /\ Live(v, lease[p])
      BY <1>5, <2>1 DEF Live
    <2> QED
      BY <1>1, <1>4, <2>1, <2>2 DEF RenewedRowsAreLocked
  <1>10. RunningLeasesAreSafe'
    BY <1>1, <1>4, <1>5 DEF RunningLeasesAreSafe
  <1>11. ListedLeasesStand'
    <2> SUFFICES ASSUME NEW v \in Workers, NEW p \in acting'[v], left'[v][p] > 0
                 PROVE  lease'[p] = [owned_by |-> v, until |-> left'[v][p]]
      BY DEF ListedLeasesStand
    <2>1. v # w /\ acting'[v] = acting[v] /\ left'[v] = left[v] /\ p \in Partitions
      BY <1>1, <1>3 DEF TypeOK
    <2>2. lease[p] = [owned_by |-> v, until |-> left[v][p]]
      BY <1>1, <2>1 DEF ListedLeasesStand
    <2> QED
      BY <2>1, <2>2
  <1> QED
    BY <1>6, <1>7, <1>8, <1>9, <1>10, <1>11 DEF IInv

(* The end of a pass changes no row. *)
LEMMA EndKeeps ==
    ASSUME IInv, NEW w \in Workers, EndLoop(w) PROVE IInv'
  <1>1. Leave(w, "idle") /\ UNCHANGED <<lease, beat, age, faults>>
    BY DEF EndLoop
  <1>2. TypeOK
    BY DEF IInv
  <1> QED
    BY <1>1, <1>2, LeaveKeeps DEF TypeOK

(* A pass that fails leaves its rows as they were committed. *)
LEMMA FailKeeps ==
    ASSUME IInv, NEW w \in Workers, LoopFails(w) PROVE IInv'
  <1>1. faults' \in 0 .. MaxFaults
    BY TicksAssumption DEF LoopFails, Fault, IInv, TypeOK
  <1>2. Leave(w, "idle") /\ UNCHANGED <<lease, beat, age>>
    BY DEF LoopFails
  <1>3. TypeOK
    BY DEF IInv
  <1> QED
    BY <1>1, <1>2, <1>3, LeaveKeeps DEF TypeOK

(* So does a process that ends, and its age is no matter any more. *)
LEMMA CrashKeeps ==
    ASSUME IInv, NEW w \in Workers, Crash(w) PROVE IInv'
  <1>1. faults' \in 0 .. MaxFaults
    BY TicksAssumption DEF Crash, Fault, IInv, TypeOK
  <1>2. age' \in [Workers -> 0 .. MaxStall] /\ \A v \in Workers \ {w} : age'[v] = age[v]
    BY TicksAssumption DEF Crash, IInv, TypeOK
  <1>3. Leave(w, "down") /\ UNCHANGED <<lease, beat>>
    BY DEF Crash
  <1>4. TypeOK
    BY DEF IInv
  <1> QED
    BY <1>1, <1>2, <1>3, <1>4, LeaveKeeps DEF TypeOK

(* shutdown_worker gives up rows of its own, locked by nobody. *)
LEMMA ShutdownKeeps ==
    ASSUME IInv, NEW w \in Workers, shutdown_worker(w) PROVE IInv'
  <1>1. faults' \in 0 .. MaxFaults
    BY TicksAssumption DEF shutdown_worker, Fault, IInv, TypeOK
  <1>2. age' \in [Workers -> 0 .. MaxStall] /\ \A v \in Workers \ {w} : age'[v] = age[v]
    BY TicksAssumption DEF shutdown_worker, IInv, TypeOK
  <1>3. beat' \in [Workers -> -MaxStall .. HeartbeatTicks]
    BY TicksAssumption DEF shutdown_worker, IInv, TypeOK, NoBeat
  <1>4. lease' \in [Partitions -> Row]
        /\ \A p \in Partitions : lease'[p] = lease[p]
                                  \/ (lease[p].owned_by = w /\ lease'[p] = Unowned)
    <2>1. lease' = [p \in Partitions |->
                      IF lease[p].owned_by = w THEN Unowned ELSE lease[p]]
      BY DEF shutdown_worker
    <2>2. lease \in [Partitions -> Row]
      BY DEF IInv, TypeOK
    <2> QED
      BY <2>1, <2>2, RowLemma
  <1>5. Leave(w, "down")
    BY DEF shutdown_worker
  <1> QED
    BY <1>1, <1>2, <1>3, <1>4, <1>5, LeaveKeeps

(* A restarted process begins with nothing in hand. *)
LEMMA RestartKeeps ==
    ASSUME IInv, NEW w \in Workers, Restart(w) PROVE IInv'
  <1>1. /\ pc[w] = "down" /\ pc' = [pc EXCEPT ![w] = "idle"]
        /\ UNCHANGED <<lease, beat, draft, age, acting, left, faults>>
    BY DEF Restart, Goto
  <1>2. TypeOK'
    BY <1>1 DEF IInv, TypeOK
  <1>3. PassesAreClosed' /\ RenewedRowsAreLocked'
    BY <1>1 DEF IInv, TypeOK, PassesAreClosed, RenewedRowsAreLocked, Writing, Drafted, Live
  <1>4. RowsAreLockedOnce' /\ RunningLeasesAreSafe' /\ ListedLeasesStand'
    BY <1>1 DEF IInv, RowsAreLockedOnce, RunningLeasesAreSafe, ListedLeasesStand, Drafted
  <1> QED
    BY <1>2, <1>3, <1>4 DEF IInv

-----------------------------------------------------------------------------
(* The theorems. *)

(* Every step of every worker, and of the clock, keeps the invariant. *)
LEMMA NextKeeps == IInv /\ [Next]_vars => IInv'
  <1> SUFFICES ASSUME IInv, [Next]_vars PROVE IInv'
    OBVIOUS
  <1>1. CASE Tick
    BY <1>1, TickKeeps
  <1>2. ASSUME NEW w \in Workers, WorkerStep(w) PROVE IInv'
    BY <1>2, BeginKeeps, RenewKeeps, ClaimKeeps, ReleaseKeeps, CommitKeeps, ListKeeps,
       EndKeeps, RestartKeeps DEF WorkerStep
  <1>3. ASSUME NEW w \in Workers, FaultStep(w) PROVE IInv'
    BY <1>3, FailKeeps, CrashKeeps, ShutdownKeeps DEF FaultStep
  <1>4. CASE UNCHANGED vars
    BY <1>4 DEF vars, IInv, TypeOK, PassesAreClosed, RowsAreLockedOnce, RenewedRowsAreLocked,
           RunningLeasesAreSafe, ListedLeasesStand, Drafted, Live
  <1> QED
    BY <1>1, <1>2, <1>3, <1>4 DEF Next

(* The invariant holds in every reachable state of any number of workers,  *)
(* partitions, ticks and faults.                                           *)
THEOREM Invariance == Spec => []IInv
  BY InitInv, NextKeeps, PTL DEF Spec

(* Every variable of the worker loop always holds a value of its type: no  *)
(* lease, heartbeat or age leaves the range that the ticks allow.          *)
THEOREM TypeCorrect == Spec => []TypeOK
  <1>1. IInv => TypeOK
    BY DEF IInv
  <1> QED
    BY <1>1, Invariance, PTL

(* The invariant says so of every state. *)
LEMMA LeasesHold == IInv => LeaseProtects
  <1> SUFFICES ASSUME IInv, NEW w \in Workers, NEW p \in acting[w], left[w][p] > 0
               PROVE  /\ lease[p] = [owned_by |-> w, until |-> left[w][p]]
                      /\ \A v \in Workers \ {w} : p \notin acting[v] \/ left[v][p] = 0
    BY DEF LeaseProtects
  <1>1. lease[p] = [owned_by |-> w, until |-> left[w][p]] /\ p \in Partitions
    BY DEF IInv, ListedLeasesStand, TypeOK
  <1>2. ASSUME NEW v \in Workers \ {w}, p \in acting[v], left[v][p] # 0 PROVE FALSE
    <2>1. left[v][p] > 0
      BY <1>1, <1>2, TicksAssumption DEF IInv, TypeOK
    <2>2. lease[p] = [owned_by |-> v, until |-> left[v][p]]
      BY <1>2, <2>1 DEF IInv, ListedLeasesStand
    <2> QED
      BY <1>1, <2>2
  <1> QED
    BY <1>1, <1>2

(* While the lease a worker listed has time left, the committed row is its *)
(* own and no other worker works on the partition under a lease that runs: *)
(* an old now(), a restart, a release or a shutdown takes no such row away.*)
THEOREM LeasesProtect == Spec => []LeaseProtects
  BY LeasesHold, Invariance, PTL
=============================================================================
