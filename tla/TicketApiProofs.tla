--------------------------- MODULE TicketApiProofs ---------------------------
(***************************************************************************)
(* Proofs about TicketApi, for any number of requests, keys, tickets and   *)
(* tenants: IInv is inductive, and the safety properties follow.           *)
(***************************************************************************)
EXTENDS TicketApiInv, FiniteSetTheorems, TLAPS

Lines == InTransaction \union
           {"idle", "tenant", "lookup", "rate", "quota", "depth", "shed", "acquire"}

-----------------------------------------------------------------------------
(* Facts about single operators. *)

(* A request in progress has a body, and its key is in range. *)
LEMMA RequestType ==
    ASSUME TypeOK, NEW h \in Handlers, pc[h] # "idle"
    PROVE  /\ req[h] \in RequestRow /\ TenantOf[req[h].body] \in Tenants
           /\ HasKey(h) => KeyOf(h) \in KeyIds
  BY BodyAssumption DEF TypeOK, RequestRow, HasKey, KeyOf, KeyIds

(* Rows are not Nil. *)
LEMMA RowsAreNotNil ==
    /\ \A r \in TicketRow : r # Nil
    /\ \A r \in KeyRow : r # Nil
    /\ \A i \in Tickets : i # Nil
    /\ \A k \in Keys : k # Nil
  BY NilAssumption

(* The tickets that a step may add to, and its requests. *)
TicketsStay ==
    \A i \in Tickets : ticket[i] # Nil =>
       ticket'[i] # Nil /\ ticket'[i].body = ticket[i].body /\ ticket'[i].key = ticket[i].key

ReplyFits(tk, r) ==
    /\ r.kind \in {"created", "replay"} =>
          /\ r.ticket \in Tickets /\ tk[r.ticket] # Nil
          /\ tk[r.ticket].body = r.body
          /\ <<TenantOf[r.body], tk[r.ticket].key>> = r.id
    /\ r.kind = "conflict" =>
          \E i \in Tickets : /\ tk[i] # Nil /\ tk[i].body # r.body
                             /\ <<TenantOf[tk[i].body], tk[i].key>> = r.id

LEMMA RepliesFit == RepliesAgree <=> \A r \in replies : ReplyFits(ticket, r)
  BY DEF RepliesAgree, ReplyFits

(* What was told stays true as long as tickets keep their body and key. *)
LEMMA RepliesStay ==
    ASSUME RepliesAgree, TicketsStay
    PROVE  \A r \in replies : ReplyFits(ticket', r)
  <1> SUFFICES ASSUME NEW r \in replies PROVE ReplyFits(ticket', r)
    OBVIOUS
  <1>1. ReplyFits(ticket, r)
    BY RepliesFit
  <1>2. ASSUME r.kind \in {"created", "replay"}
        PROVE  /\ r.ticket \in Tickets /\ ticket'[r.ticket] # Nil
               /\ ticket'[r.ticket].body = r.body
               /\ <<TenantOf[r.body], ticket'[r.ticket].key>> = r.id
    BY <1>1, <1>2 DEF ReplyFits, TicketsStay
  <1>3. ASSUME r.kind = "conflict"
        PROVE  \E i \in Tickets : /\ ticket'[i] # Nil /\ ticket'[i].body # r.body
                                  /\ <<TenantOf[ticket'[i].body], ticket'[i].key>> = r.id
    BY <1>1, <1>3 DEF ReplyFits, TicketsStay
  <1> QED
    BY <1>2, <1>3 DEF ReplyFits

(* A reply that fits may be given. *)
LEMMA ReplyKeeps ==
    ASSUME RepliesAgree, TicketsStay, NEW h \in Handlers, NEW kind, NEW i, Reply(h, kind, i),
           HasKey(h) => \/ ReplyFits(ticket', [id |-> KeyOf(h), body |-> req[h].body,
                                               kind |-> kind, ticket |-> i])
                        \/ kind \notin {"created", "replay", "conflict"}
    PROVE  RepliesAgree'
  <1>1. \A r \in replies : ReplyFits(ticket', r)
    BY RepliesStay
  <1>2. (\A r \in replies' : ReplyFits(ticket', r)) => RepliesAgree'
    BY DEF RepliesAgree, ReplyFits
  <1>3. ASSUME HasKey(h)
        PROVE  \A r \in replies' : ReplyFits(ticket', r)
    <2> DEFINE x == [id |-> KeyOf(h), body |-> req[h].body, kind |-> kind, ticket |-> i]
    <2>1. replies' = replies \union {x}
      BY <1>3 DEF Reply
    <2>2. kind \notin {"created", "replay", "conflict"} => ReplyFits(ticket', x)
      BY DEF ReplyFits
    <2>3. ReplyFits(ticket', x)
      BY <1>3, <2>2
    <2> HIDE DEF x
    <2> QED
      BY <1>1, <2>1, <2>3
  <1> QED
    BY <1>1, <1>2, <1>3 DEF Reply

-----------------------------------------------------------------------------
(* The count of the quota. *)

LEMMA AdmittedFinite ==
    ASSUME NEW t
    PROVE  /\ IsFiniteSet(Admitted(t)) /\ Cardinality(Admitted(t)) \in Nat
           /\ Cardinality(Handlers) \in Nat
           /\ Cardinality(Admitted(t)) <= Cardinality(Handlers)
  <1>1. Admitted(t) \subseteq Handlers
    BY DEF Admitted
  <1> QED
    BY <1>1, HandlerAssumption, FS_Subset, FS_CardinalityType

(* Neither set grows. *)
LEMMA QuotaShrinks ==
    ASSUME QuotaCount, NEW t \in Tenants,
           Waiting(t)' \subseteq Waiting(t), Admitted(t)' \subseteq Admitted(t)
    PROVE  /\ IsFiniteSet(Waiting(t)')
           /\ Cardinality(Waiting(t)') + Cardinality(Admitted(t)')
                 < MaxInFlight + Cardinality(Handlers)
  <1>1. IsFiniteSet(Waiting(t)) /\ IsFiniteSet(Admitted(t))
    BY AdmittedFinite DEF QuotaCount
  <1>2. /\ IsFiniteSet(Waiting(t)') /\ Cardinality(Waiting(t)') <= Cardinality(Waiting(t))
        /\ Cardinality(Waiting(t)') \in Nat /\ Cardinality(Waiting(t)) \in Nat
    BY <1>1, FS_Subset, FS_CardinalityType
  <1>3. /\ IsFiniteSet(Admitted(t)') /\ Cardinality(Admitted(t)') <= Cardinality(Admitted(t))
        /\ Cardinality(Admitted(t)') \in Nat /\ Cardinality(Admitted(t)) \in Nat
    BY <1>1, FS_Subset, FS_CardinalityType
  <1> QED
    BY <1>2, <1>3, AdmittedFinite, NumberAssumption DEF QuotaCount

(* The quota is asked: at most all requests are admitted. *)
LEMMA QuotaAsked ==
    ASSUME QuotaCount, NEW t \in Tenants, Waiting(t)' = Waiting(t),
           Cardinality(Waiting(t)) < MaxInFlight,
           Admitted(t)' \subseteq Handlers
    PROVE  /\ IsFiniteSet(Waiting(t)')
           /\ Cardinality(Waiting(t)') + Cardinality(Admitted(t)')
                 < MaxInFlight + Cardinality(Handlers)
  <1>1. IsFiniteSet(Waiting(t)) /\ Cardinality(Waiting(t)) \in Nat
    BY FS_CardinalityType DEF QuotaCount
  <1>2. /\ Cardinality(Admitted(t)') \in Nat /\ Cardinality(Handlers) \in Nat
        /\ Cardinality(Admitted(t)') <= Cardinality(Handlers)
    BY HandlerAssumption, FS_Subset, FS_CardinalityType
  <1> QED
    BY <1>1, <1>2, NumberAssumption

(* An admitted request is over, and its ticket waits. *)
LEMMA QuotaPaid ==
    ASSUME QuotaCount, NEW t \in Tenants, NEW h \in Admitted(t), NEW i,
           Waiting(t)' \subseteq Waiting(t) \union {i},
           Admitted(t)' \subseteq Admitted(t) \ {h}
    PROVE  /\ IsFiniteSet(Waiting(t)')
           /\ Cardinality(Waiting(t)') + Cardinality(Admitted(t)')
                 < MaxInFlight + Cardinality(Handlers)
  <1>1. IsFiniteSet(Waiting(t)) /\ IsFiniteSet(Admitted(t))
    BY AdmittedFinite DEF QuotaCount
  <1>2. /\ IsFiniteSet(Waiting(t) \union {i})
        /\ Cardinality(Waiting(t) \union {i}) <= Cardinality(Waiting(t)) + 1
        /\ Cardinality(Waiting(t)) \in Nat
    <2>1. Cardinality(Waiting(t)) \in Nat
      BY <1>1, FS_CardinalityType
    <2>2. /\ IsFiniteSet(Waiting(t) \union {i})
          /\ \/ Cardinality(Waiting(t) \union {i}) = Cardinality(Waiting(t)) + 1
             \/ Cardinality(Waiting(t) \union {i}) = Cardinality(Waiting(t))
      BY <1>1, FS_AddElement
    <2> QED
      BY <2>1, <2>2
  <1>3. /\ IsFiniteSet(Waiting(t)') /\ Cardinality(Waiting(t)') <= Cardinality(Waiting(t) \union {i})
        /\ Cardinality(Waiting(t)') \in Nat /\ Cardinality(Waiting(t) \union {i}) \in Nat
    BY <1>2, FS_Subset, FS_CardinalityType
  <1>4. /\ IsFiniteSet(Admitted(t) \ {h})
        /\ Cardinality(Admitted(t) \ {h}) = Cardinality(Admitted(t)) - 1
        /\ Cardinality(Admitted(t)) \in Nat
    BY <1>1, FS_RemoveElement, FS_CardinalityType
  <1>5. /\ Cardinality(Admitted(t)') <= Cardinality(Admitted(t) \ {h})
        /\ Cardinality(Admitted(t)') \in Nat
    BY <1>4, FS_Subset, FS_CardinalityType
  <1> QED
    BY <1>2, <1>3, <1>4, <1>5, AdmittedFinite, NumberAssumption DEF QuotaCount

-----------------------------------------------------------------------------
(* Steps that write nothing. *)

(* The parts of IInv that the tables, drafts and lines of requests carry.   *)
Shape ==
    /\ TypeOK
    /\ DraftsFollowTheCode
    /\ ReservedKeysAreFree
    /\ NewTicketsAreFree
    /\ KeysHaveTickets
    /\ TicketsHaveKeys

(* A request without a draft goes on to a line where it still has none.     *)
LEMMA MoveKeepsShape ==
    ASSUME Shape, NEW h \in Handlers, NEW l \in Lines, NEW x,
           UNCHANGED <<tables, draft>>,
           pc' = [pc EXCEPT ![h] = l], req' = [req EXCEPT ![h] = x],
           pc[h] \notin {"insert", "finalize", "commit"} \/ (pc[h] = "insert" /\ ~HasKey(h)),
           l \notin {"finalize", "commit"},
           l = "idle" => x = Nil,
           l # "idle" => x \in RequestRow,
           l \in {"lookup", "reserve", "replay"} => x = req[h] /\ HasKey(h),
           l = "insert" => x = req[h] /\ ~HasKey(h),
           l = "replay" => stored[KeyOf(h)] # Nil,
           hits' \in [Tenants -> Nat], replies' \subseteq ReplyRow, sent' \in 0 .. MaxRequests, faults' \in 0 .. MaxFaults
    PROVE  Shape'
  <1>1. new_key[h] = Nil /\ new_ticket[h] = Nil
    BY DEF Shape, TypeOK, DraftsFollowTheCode
  <1>2. /\ ticket' = ticket /\ stored' = stored
        /\ new_key' = new_key /\ new_ticket' = new_ticket
    BY DEF tables, draft
  <1>3. /\ pc' \in [Handlers -> Lines]
        /\ pc'[h] = l /\ \A o \in Handlers \ {h} : pc'[o] = pc[o]
        /\ req' \in [Handlers -> RequestRow \union {Nil}]
        /\ req'[h] = x /\ \A o \in Handlers \ {h} : req'[o] = req[o]
    BY DEF Shape, TypeOK, Lines
  <1>4. /\ \A o \in Handlers \ {h} : (HasKey(o)' <=> HasKey(o)) /\ KeyOf(o)' = KeyOf(o)
        /\ x = req[h] => (HasKey(h)' <=> HasKey(h)) /\ KeyOf(h)' = KeyOf(h)
    BY <1>3 DEF HasKey, KeyOf
  <1>5. TypeOK'
    <2>1. \A o \in Handlers : pc'[o] \notin InTransaction => new_key'[o] = Nil /\ new_ticket'[o] = Nil
      BY <1>1, <1>2, <1>3 DEF Shape, TypeOK
    <2>2. \A o \in Handlers : IF pc'[o] = "idle" THEN req'[o] = Nil ELSE req'[o] \in RequestRow
      BY <1>3 DEF Shape, TypeOK
    <2> QED
      BY <1>2, <1>3, <2>1, <2>2 DEF Shape, TypeOK, Lines
  <1>6. DraftsFollowTheCode'
    <2>1. ASSUME NEW o \in Handlers \ {h}
          PROVE  /\ pc'[o] \in {"lookup", "reserve", "replay", "finalize"} => HasKey(o)'
                 /\ pc'[o] = "replay" => stored'[KeyOf(o)'] # Nil
                 /\ new_ticket'[o] # Nil <=> pc'[o] \in {"finalize", "commit"}
                 /\ new_key'[o] # Nil <=> pc'[o] \in {"insert", "finalize", "commit"} /\ HasKey(o)'
                 /\ new_key'[o] # Nil =>
                       /\ new_key'[o].hash = req'[o].body
                       /\ pc'[o] = "commit" => new_key'[o].response = new_ticket'[o]
      BY <1>2, <1>3, <1>4 DEF Shape, DraftsFollowTheCode
    <2>2. /\ pc'[h] \in {"lookup", "reserve", "replay", "finalize"} => HasKey(h)'
          /\ pc'[h] = "replay" => stored'[KeyOf(h)'] # Nil
          /\ new_ticket'[h] # Nil <=> pc'[h] \in {"finalize", "commit"}
          /\ new_key'[h] # Nil <=> pc'[h] \in {"insert", "finalize", "commit"} /\ HasKey(h)'
          /\ new_key'[h] = Nil
      BY <1>1, <1>2, <1>3, <1>4
    <2> QED
      BY <2>1, <2>2 DEF DraftsFollowTheCode
  <1>7. ReservedKeysAreFree' /\ NewTicketsAreFree'
    BY <1>1, <1>2, <1>4 DEF Shape, ReservedKeysAreFree, NewTicketsAreFree
  <1>8. KeysHaveTickets' /\ TicketsHaveKeys'
    BY <1>2 DEF Shape, KeysHaveTickets, TicketsHaveKeys
  <1> QED
    BY <1>5, <1>6, <1>7, <1>8 DEF Shape

(* Requests end without a trace in the tables: refused, failed or dead.     *)
LEMMA EndKeepsShape ==
    ASSUME Shape, NEW S \in SUBSET Handlers,
           UNCHANGED tables,
           pc' = [g \in Handlers |-> IF g \in S THEN "idle" ELSE pc[g]],
           req' = [g \in Handlers |-> IF g \in S THEN Nil ELSE req[g]],
           new_key' = [g \in Handlers |-> IF g \in S THEN Nil ELSE new_key[g]],
           new_ticket' = [g \in Handlers |-> IF g \in S THEN Nil ELSE new_ticket[g]],
           hits' \in [Tenants -> Nat], replies' \subseteq ReplyRow,
           sent' \in 0 .. MaxRequests, faults' \in 0 .. MaxFaults
    PROVE  Shape'
  <1>1. ticket' = ticket /\ stored' = stored
    BY DEF tables
  <1>2. \A g \in Handlers :
           /\ g \in S => pc'[g] = "idle" /\ req'[g] = Nil /\ new_key'[g] = Nil /\ new_ticket'[g] = Nil
           /\ g \notin S => /\ pc'[g] = pc[g] /\ req'[g] = req[g]
                            /\ new_key'[g] = new_key[g] /\ new_ticket'[g] = new_ticket[g]
                            /\ (HasKey(g)' <=> HasKey(g)) /\ KeyOf(g)' = KeyOf(g)
    BY DEF HasKey, KeyOf
  <1>3. TypeOK'
    <2>1. /\ pc' \in [Handlers -> Lines] /\ req' \in [Handlers -> RequestRow \union {Nil}]
          /\ new_key' \in [Handlers -> KeyRow \union {Nil}]
          /\ new_ticket' \in [Handlers -> Tickets \union {Nil}]
      BY DEF Shape, TypeOK, Lines
    <2>2. \A g \in Handlers : IF pc'[g] = "idle" THEN req'[g] = Nil ELSE req'[g] \in RequestRow
      BY <1>2 DEF Shape, TypeOK
    <2>3. \A g \in Handlers :
             pc'[g] \notin InTransaction => new_key'[g] = Nil /\ new_ticket'[g] = Nil
      BY <1>2 DEF Shape, TypeOK
    <2> QED
      BY <1>1, <2>1, <2>2, <2>3 DEF Shape, TypeOK, Lines
  <1>4. DraftsFollowTheCode'
    BY <1>1, <1>2 DEF Shape, DraftsFollowTheCode
  <1>5. ReservedKeysAreFree' /\ NewTicketsAreFree'
    BY <1>1, <1>2 DEF Shape, ReservedKeysAreFree, NewTicketsAreFree
  <1>6. KeysHaveTickets' /\ TicketsHaveKeys'
    BY <1>1 DEF Shape, KeysHaveTickets, TicketsHaveKeys
  <1> QED
    BY <1>3, <1>4, <1>5, <1>6 DEF Shape

(* What Apply writes. *)
LEMMA ApplyLemma ==
    ASSUME Shape, NEW h \in Handlers, pc[h] = "commit", Apply(h)
    PROVE  /\ new_ticket[h] \in Tickets /\ ticket[new_ticket[h]] = Nil
           /\ ticket' \in [Tickets -> TicketRow \union {Nil}]
           /\ stored' \in [KeyIds -> KeyRow \union {Nil}]
           /\ ticket'[new_ticket[h]] = [status |-> "waiting", body |-> req[h].body, key |-> req[h].key]
           /\ ticket'[new_ticket[h]] # Nil
           /\ \A i \in Tickets \ {new_ticket[h]} : ticket'[i] = ticket[i]
           /\ HasKey(h) =>
                 /\ KeyOf(h) \in KeyIds /\ stored[KeyOf(h)] = Nil
                 /\ stored'[KeyOf(h)] = [hash |-> req[h].body, response |-> new_ticket[h]]
                 /\ \A k \in KeyIds \ {KeyOf(h)} : stored'[k] = stored[k]
           /\ ~HasKey(h) => stored' = stored
           /\ TicketsStay
  <1> DEFINE row == [status |-> "waiting", body |-> req[h].body, key |-> req[h].key]
  <1>1. new_ticket[h] # Nil /\ new_ticket[h] \in Tickets /\ ticket[new_ticket[h]] = Nil
    BY DEF Shape, TypeOK, DraftsFollowTheCode, NewTicketsAreFree
  <1>2. row \in TicketRow /\ row # Nil
    BY RequestType, RowsAreNotNil DEF Shape, RequestRow, TicketRow
  <1>3. ticket \in [Tickets -> TicketRow \union {Nil}] /\ stored \in [KeyIds -> KeyRow \union {Nil}]
    BY DEF Shape, TypeOK
  <1>4. /\ ticket' = [ticket EXCEPT ![new_ticket[h]] = row]
        /\ stored' = [k \in KeyIds |-> IF HasKey(h) /\ k = KeyOf(h) THEN new_key[h] ELSE stored[k]]
    BY DEF Apply
  <1>5. HasKey(h) => /\ new_key[h] \in KeyRow /\ KeyOf(h) \in KeyIds /\ stored[KeyOf(h)] = Nil
                     /\ new_key[h].hash = req[h].body /\ new_key[h].response = new_ticket[h]
    BY RequestType DEF Shape, TypeOK, DraftsFollowTheCode, ReservedKeysAreFree
  <1>6. HasKey(h) => new_key[h] = [hash |-> req[h].body, response |-> new_ticket[h]]
    BY <1>5 DEF KeyRow
  <1>7. /\ ticket' \in [Tickets -> TicketRow \union {Nil}]
        /\ ticket'[new_ticket[h]] = row
        /\ \A i \in Tickets \ {new_ticket[h]} : ticket'[i] = ticket[i]
    <2> HIDE DEF row
    <2> QED
      BY <1>1, <1>2, <1>3, <1>4
  <1>8. /\ stored' \in [KeyIds -> KeyRow \union {Nil}]
        /\ HasKey(h) => /\ stored'[KeyOf(h)] = new_key[h]
                        /\ \A k \in KeyIds \ {KeyOf(h)} : stored'[k] = stored[k]
    BY <1>3, <1>4, <1>5
  <1>9. ~HasKey(h) => stored' = stored
    BY <1>3, <1>4
  <1>10. TicketsStay
    BY <1>1, <1>7 DEF TicketsStay
  <1> QED
    BY <1>1, <1>2, <1>5, <1>6, <1>7, <1>8, <1>9, <1>10

(* The transaction of h commits: its key and its ticket are there together. *)
LEMMA CommitKeepsShape ==
    ASSUME Shape, NEW h \in Handlers, pc[h] = "commit", Apply(h), Discard(h),
           pc' = [pc EXCEPT ![h] = "idle"], req' = [req EXCEPT ![h] = Nil],
           hits' \in [Tenants -> Nat], replies' \subseteq ReplyRow,
           sent' \in 0 .. MaxRequests, faults' \in 0 .. MaxFaults
    PROVE  Shape'
  <1> DEFINE n == new_ticket[h]
  <1>1. /\ n \in Tickets /\ ticket[n] = Nil
        /\ ticket' \in [Tickets -> TicketRow \union {Nil}]
        /\ stored' \in [KeyIds -> KeyRow \union {Nil}]
        /\ ticket'[n] = [status |-> "waiting", body |-> req[h].body, key |-> req[h].key]
        /\ ticket'[n] # Nil
        /\ \A i \in Tickets \ {n} : ticket'[i] = ticket[i]
    BY ApplyLemma
  <1>2. /\ HasKey(h) =>
              /\ KeyOf(h) \in KeyIds /\ stored[KeyOf(h)] = Nil
              /\ stored'[KeyOf(h)] = [hash |-> req[h].body, response |-> n]
              /\ \A k \in KeyIds \ {KeyOf(h)} : stored'[k] = stored[k]
        /\ ~HasKey(h) => stored' = stored
        /\ TicketsStay
    BY ApplyLemma
  <1>3. /\ pc'[h] = "idle" /\ req'[h] = Nil /\ new_key'[h] = Nil /\ new_ticket'[h] = Nil
        /\ \A g \in Handlers \ {h} :
              /\ pc'[g] = pc[g] /\ req'[g] = req[g]
              /\ new_key'[g] = new_key[g] /\ new_ticket'[g] = new_ticket[g]
              /\ (HasKey(g)' <=> HasKey(g)) /\ KeyOf(g)' = KeyOf(g)
    BY DEF Shape, TypeOK, Discard, HasKey, KeyOf
  <1>4. TypeOK'
    <2>1. /\ pc' \in [Handlers -> Lines] /\ req' \in [Handlers -> RequestRow \union {Nil}]
          /\ new_key' \in [Handlers -> KeyRow \union {Nil}]
          /\ new_ticket' \in [Handlers -> Tickets \union {Nil}]
      BY DEF Shape, TypeOK, Lines, Discard
    <2>2. \A g \in Handlers : IF pc'[g] = "idle" THEN req'[g] = Nil ELSE req'[g] \in RequestRow
      BY <1>3 DEF Shape, TypeOK
    <2>3. \A g \in Handlers :
             pc'[g] \notin InTransaction => new_key'[g] = Nil /\ new_ticket'[g] = Nil
      BY <1>3 DEF Shape, TypeOK
    <2> QED
      BY <1>1, <2>1, <2>2, <2>3 DEF Shape, TypeOK, Lines
  <1>5. \A k \in KeyIds : stored[k] # Nil => stored'[k] = stored[k]
    BY <1>2
  <1> HIDE DEF n
  <1>6. DraftsFollowTheCode'
    <2>1. \A g \in Handlers \ {h} : pc[g] = "replay" => stored'[KeyOf(g)] # Nil
      BY <1>5, RequestType DEF Shape, DraftsFollowTheCode
    <2> QED
      BY <1>3, <2>1 DEF Shape, DraftsFollowTheCode
  <1>7. ReservedKeysAreFree'
    <2>1. ASSUME NEW g \in Handlers \ {h}, new_key[g] # Nil
          PROVE  stored'[KeyOf(g)] = Nil
      <3>1. KeyOf(g) \in KeyIds /\ stored[KeyOf(g)] = Nil
        BY <2>1, RequestType DEF Shape, DraftsFollowTheCode, ReservedKeysAreFree
      <3>2. HasKey(h) => KeyOf(g) # KeyOf(h)
        BY <2>1 DEF Shape, DraftsFollowTheCode, ReservedKeysAreFree
      <3> QED
        BY <1>2, <3>1, <3>2
    <2> QED
      BY <1>3, <2>1 DEF Shape, ReservedKeysAreFree
  <1>8. NewTicketsAreFree'
    <2>1. ASSUME NEW g \in Handlers \ {h}, new_ticket[g] # Nil
          PROVE  ticket'[new_ticket[g]] = Nil
      <3>1. new_ticket[g] \in Tickets /\ ticket[new_ticket[g]] = Nil
        BY <2>1 DEF Shape, TypeOK, NewTicketsAreFree
      <3>2. new_ticket[g] # n
        BY <2>1, <1>1, NilAssumption DEF Shape, NewTicketsAreFree, n
      <3> QED
        BY <1>1, <3>1, <3>2
    <2> QED
      BY <1>3, <2>1 DEF Shape, NewTicketsAreFree
  <1>9. KeysHaveTickets'
    <2> SUFFICES ASSUME NEW k \in KeyIds, stored'[k] # Nil
                 PROVE  \E i \in Tickets :
                           /\ ticket'[i] # Nil
                           /\ stored'[k] = [hash |-> ticket'[i].body, response |-> i]
                           /\ k = <<TenantOf[ticket'[i].body], ticket'[i].key>>
      BY DEF KeysHaveTickets
    <2>1. CASE HasKey(h) /\ k = KeyOf(h)
      <3>1. ticket'[n].body = req[h].body /\ ticket'[n].key = req[h].key
        BY <1>1
      <3>2. k = <<TenantOf[ticket'[n].body], ticket'[n].key>>
        BY <2>1, <3>1 DEF KeyOf
      <3>3. stored'[k] = [hash |-> ticket'[n].body, response |-> n]
        BY <1>2, <2>1, <3>1
      <3> QED
        BY <1>1, <3>2, <3>3
    <2>2. CASE ~(HasKey(h) /\ k = KeyOf(h))
      <3>1. stored[k] # Nil /\ stored'[k] = stored[k]
        BY <1>2, <2>2
      <3>2. PICK i \in Tickets : /\ ticket[i] # Nil
                                 /\ stored[k] = [hash |-> ticket[i].body, response |-> i]
                                 /\ k = <<TenantOf[ticket[i].body], ticket[i].key>>
        BY <3>1 DEF Shape, KeysHaveTickets
      <3> QED
        BY <1>1, <3>1, <3>2
    <2> QED
      BY <2>1, <2>2
  <1>10. TicketsHaveKeys'
    <2> SUFFICES ASSUME NEW i \in Tickets, ticket'[i] # Nil, ticket'[i].key # Nil
                 PROVE  stored'[<<TenantOf[ticket'[i].body], ticket'[i].key>>]
                           = [hash |-> ticket'[i].body, response |-> i]
      BY DEF TicketsHaveKeys
    <2>1. CASE i = n
      BY <1>1, <1>2, <2>1 DEF KeyOf, HasKey
    <2>2. CASE i # n
      <3> DEFINE k == <<TenantOf[ticket[i].body], ticket[i].key>>
      <3>1. ticket'[i] = ticket[i]
        BY <1>1, <2>2
      <3>2. stored[k] = [hash |-> ticket[i].body, response |-> i]
        BY <3>1 DEF Shape, TicketsHaveKeys
      <3>3. k \in KeyIds
        <4>1. ticket[i] \in TicketRow
          BY <3>1 DEF Shape, TypeOK
        <4> QED
          BY <3>1, <4>1, BodyAssumption DEF TicketRow, KeyIds
      <3>4. stored[k] \in KeyRow
        <4>1. ticket[i] \in TicketRow
          BY <3>1 DEF Shape, TypeOK
        <4> QED
          BY <3>2, <4>1 DEF TicketRow, KeyRow
      <3>5. stored'[k] = stored[k]
        BY <1>5, <3>3, <3>4, RowsAreNotNil
      <3> QED
        BY <3>1, <3>2, <3>5
    <2> QED
      BY <2>1, <2>2
  <1> QED
    BY <1>4, <1>6, <1>7, <1>8, <1>9, <1>10 DEF Shape

(* The tables stay, or tickets change their status only. *)
LEMMA StatusKeepsShape ==
    ASSUME Shape, UNCHANGED <<stored, pc, req, draft>>,
           ticket' \in [Tickets -> TicketRow \union {Nil}],
           \A i \in Tickets : /\ ticket'[i] = Nil <=> ticket[i] = Nil
                              /\ ticket[i] # Nil => /\ ticket'[i].body = ticket[i].body
                                                    /\ ticket'[i].key = ticket[i].key,
           hits' \in [Tenants -> Nat], replies' \subseteq ReplyRow,
           sent' \in 0 .. MaxRequests, faults' \in 0 .. MaxFaults
    PROVE  Shape'
  <1>1. /\ new_key' = new_key /\ new_ticket' = new_ticket
        /\ \A h \in Handlers : (HasKey(h)' <=> HasKey(h)) /\ KeyOf(h)' = KeyOf(h)
    BY DEF draft, HasKey, KeyOf
  <1>2. TypeOK'
    BY <1>1 DEF Shape, TypeOK
  <1>3. DraftsFollowTheCode'
    BY <1>1 DEF Shape, DraftsFollowTheCode
  <1>4. ReservedKeysAreFree'
    BY <1>1 DEF Shape, ReservedKeysAreFree
  <1>5. NewTicketsAreFree'
    <2>1. \A h \in Handlers : new_ticket[h] # Nil => new_ticket[h] \in Tickets
      BY DEF Shape, TypeOK
    <2> QED
      BY <1>1, <2>1 DEF Shape, NewTicketsAreFree
  <1>6. KeysHaveTickets'
    <2> SUFFICES ASSUME NEW k \in KeyIds, stored[k] # Nil
                 PROVE  \E i \in Tickets :
                           /\ ticket'[i] # Nil
                           /\ stored[k] = [hash |-> ticket'[i].body, response |-> i]
                           /\ k = <<TenantOf[ticket'[i].body], ticket'[i].key>>
      BY DEF KeysHaveTickets
    <2>1. PICK i \in Tickets : /\ ticket[i] # Nil
                               /\ stored[k] = [hash |-> ticket[i].body, response |-> i]
                               /\ k = <<TenantOf[ticket[i].body], ticket[i].key>>
      BY DEF Shape, KeysHaveTickets
    <2>2. /\ ticket'[i] # Nil /\ ticket'[i].body = ticket[i].body
          /\ ticket'[i].key = ticket[i].key
      BY <2>1
    <2> QED
      BY <2>1, <2>2
  <1>7. TicketsHaveKeys'
    BY DEF Shape, TicketsHaveKeys
  <1> QED
    BY <1>2, <1>3, <1>4, <1>5, <1>6, <1>7 DEF Shape

(* The transaction of h writes its draft and goes on. *)
LEMMA DraftKeepsShape ==
    ASSUME Shape, NEW h \in Handlers, NEW l \in {"insert", "finalize", "commit"},
           NEW k \in KeyRow \union {Nil}, NEW n \in Tickets \union {Nil},
           UNCHANGED <<tables, req, hits, replies, sent, faults>>,
           pc[h] # "idle",
           pc' = [pc EXCEPT ![h] = l],
           new_key' = [new_key EXCEPT ![h] = k], new_ticket' = [new_ticket EXCEPT ![h] = n],
           l = "finalize" => HasKey(h),
           n # Nil <=> l \in {"finalize", "commit"},
           k # Nil <=> HasKey(h),
           k # Nil => k.hash = req[h].body /\ (l = "commit" => k.response = n),
           k # Nil => /\ stored[KeyOf(h)] = Nil
                      /\ \A o \in Handlers \ {h} : new_key[o] # Nil => KeyOf(o) # KeyOf(h),
           n # Nil => /\ ticket[n] = Nil
                      /\ \A o \in Handlers \ {h} : new_ticket[o] # n
    PROVE  Shape'
  <1>1. ticket' = ticket /\ stored' = stored /\ req' = req
        /\ \A g \in Handlers : (HasKey(g)' <=> HasKey(g)) /\ KeyOf(g)' = KeyOf(g)
    BY DEF tables, HasKey, KeyOf
  <1>2. /\ pc'[h] = l /\ new_key'[h] = k /\ new_ticket'[h] = n
        /\ \A g \in Handlers \ {h} : /\ pc'[g] = pc[g] /\ new_key'[g] = new_key[g]
                                     /\ new_ticket'[g] = new_ticket[g]
    BY DEF Shape, TypeOK
  <1>3. TypeOK'
    <2>1. /\ pc' \in [Handlers -> Lines]
          /\ new_key' \in [Handlers -> KeyRow \union {Nil}]
          /\ new_ticket' \in [Handlers -> Tickets \union {Nil}]
      BY DEF Shape, TypeOK, Lines, InTransaction
    <2>2. \A g \in Handlers : IF pc'[g] = "idle" THEN req'[g] = Nil ELSE req'[g] \in RequestRow
      BY <1>1, <1>2 DEF Shape, TypeOK
    <2>3. \A g \in Handlers :
             pc'[g] \notin InTransaction => new_key'[g] = Nil /\ new_ticket'[g] = Nil
      BY <1>2 DEF Shape, TypeOK, InTransaction
    <2> QED
      BY <1>1, <2>1, <2>2, <2>3 DEF Shape, TypeOK, Lines
  <1>4. DraftsFollowTheCode'
    <2>1. ASSUME NEW o \in Handlers \ {h}
          PROVE  /\ pc'[o] \in {"lookup", "reserve", "replay", "finalize"} => HasKey(o)'
                 /\ pc'[o] = "replay" => stored'[KeyOf(o)'] # Nil
                 /\ new_ticket'[o] # Nil <=> pc'[o] \in {"finalize", "commit"}
                 /\ new_key'[o] # Nil <=> pc'[o] \in {"insert", "finalize", "commit"} /\ HasKey(o)'
                 /\ new_key'[o] # Nil =>
                       /\ new_key'[o].hash = req'[o].body
                       /\ pc'[o] = "commit" => new_key'[o].response = new_ticket'[o]
      BY <1>1, <1>2 DEF Shape, DraftsFollowTheCode
    <2>2. /\ pc'[h] \in {"lookup", "reserve", "replay", "finalize"} => HasKey(h)'
          /\ pc'[h] # "replay"
          /\ new_ticket'[h] # Nil <=> pc'[h] \in {"finalize", "commit"}
          /\ new_key'[h] # Nil <=> pc'[h] \in {"insert", "finalize", "commit"} /\ HasKey(h)'
          /\ new_key'[h] # Nil =>
                /\ new_key'[h].hash = req'[h].body
                /\ pc'[h] = "commit" => new_key'[h].response = new_ticket'[h]
      BY <1>1, <1>2
    <2> QED
      BY <2>1, <2>2 DEF DraftsFollowTheCode
  <1>5. ReservedKeysAreFree'
    <2>1. ASSUME NEW o \in Handlers \ {h}, new_key[o] # Nil
          PROVE  /\ stored[KeyOf(o)] = Nil
                 /\ \A g \in Handlers \ {o} : new_key'[g] # Nil => KeyOf(g) # KeyOf(o)
      BY <1>2, <2>1 DEF Shape, ReservedKeysAreFree
    <2> QED
      BY <1>1, <1>2, <2>1 DEF ReservedKeysAreFree
  <1>6. NewTicketsAreFree'
    BY <1>1, <1>2 DEF Shape, NewTicketsAreFree
  <1>7. KeysHaveTickets' /\ TicketsHaveKeys'
    BY <1>1 DEF Shape, KeysHaveTickets, TicketsHaveKeys
  <1> QED
    BY <1>3, <1>4, <1>5, <1>6, <1>7 DEF Shape

-----------------------------------------------------------------------------
(* Every step keeps IInv.                                                   *)

AdmittedLines == InTransaction \union {"depth", "shed", "acquire"}

LEMMA InvParts == IInv <=> Shape /\ RepliesAgree /\ QuotaCount
  BY DEF IInv, Shape

(* A request that is not newly admitted changes nothing for the quota.      *)
LEMMA QuotaUnmoved ==
    ASSUME TypeOK, QuotaCount, NEW h \in Handlers, NEW l, NEW x,
           ticket' = ticket, pc' = [pc EXCEPT ![h] = l], req' = [req EXCEPT ![h] = x],
           l \notin AdmittedLines \/ (x = req[h] /\ pc[h] \in AdmittedLines)
    PROVE  QuotaCount'
  <1>1. /\ pc'[h] = l /\ req'[h] = x
        /\ \A o \in Handlers \ {h} : pc'[o] = pc[o] /\ req'[o] = req[o]
    BY DEF TypeOK
  <1>2. ASSUME NEW t \in Tenants
        PROVE  Waiting(t)' \subseteq Waiting(t) /\ Admitted(t)' \subseteq Admitted(t)
    BY <1>1 DEF Waiting, Admitted, AdmittedLines
  <1> QED
    BY <1>2, QuotaShrinks DEF QuotaCount

(* Tables and replies stay, the request goes on.                            *)
LEMMA GoesOnKeeps ==
    ASSUME IInv, NEW h \in Handlers, NEW l \in Lines \ {"idle", "finalize", "commit"},
           UNCHANGED <<tables, draft, req, replies, sent, faults>>, hits' \in [Tenants -> Nat],
           Goto(h, l), pc[h] \notin {"idle", "insert", "finalize", "commit"},
           l \in {"lookup", "reserve", "replay"} => HasKey(h),
           l = "insert" => ~HasKey(h),
           l = "replay" => stored[KeyOf(h)] # Nil
    PROVE  /\ Shape' /\ RepliesAgree'
           /\ l \notin AdmittedLines \/ pc[h] \in AdmittedLines => QuotaCount'
  <1>1. TypeOK /\ Shape /\ RepliesAgree /\ QuotaCount
    BY InvParts DEF IInv
  <1>2. /\ req' = [req EXCEPT ![h] = req[h]] /\ req[h] \in RequestRow
        /\ pc' = [pc EXCEPT ![h] = l]
        /\ replies' \subseteq ReplyRow /\ sent' \in 0 .. MaxRequests /\ faults' \in 0 .. MaxFaults
    BY <1>1 DEF TypeOK, Goto
  <1>3. Shape'
    BY <1>1, <1>2, MoveKeepsShape
  <1>4. RepliesAgree'
    BY <1>1 DEF RepliesAgree, tables
  <1>5. l \notin AdmittedLines \/ pc[h] \in AdmittedLines => QuotaCount'
    BY <1>1, <1>2, QuotaUnmoved DEF tables
  <1> QED
    BY <1>3, <1>4, <1>5

ReplyKinds == {"created", "replay", "conflict", "rejected", "duplicate", "error"}

LEMMA ReplyTyped ==
    ASSUME TypeOK, NEW h \in Handlers, pc[h] # "idle",
           NEW kind \in ReplyKinds, NEW i \in Tickets \union {Nil}, Reply(h, kind, i)
    PROVE  replies' \subseteq ReplyRow /\ req' = [req EXCEPT ![h] = Nil]
  <1>1. HasKey(h) => KeyOf(h) \in KeyIds /\ req[h].body \in Bodies
    BY RequestType DEF RequestRow
  <1> QED
    BY <1>1 DEF Reply, TypeOK, ReplyRow, ReplyKinds

(* The request ends, and the tables stay.                                   *)
LEMMA EndsKeeps ==
    ASSUME IInv, NEW h \in Handlers, pc[h] # "idle", Goto(h, "idle"),
           NEW kind \in ReplyKinds, NEW i \in Tickets \union {Nil}, Reply(h, kind, i),
           UNCHANGED tables, hits' \in [Tenants -> Nat],
           sent' \in 0 .. MaxRequests, faults' \in 0 .. MaxFaults,
           Discard(h) \/ (UNCHANGED draft /\ new_key[h] = Nil /\ new_ticket[h] = Nil),
           HasKey(h) => \/ ReplyFits(ticket, [id |-> KeyOf(h), body |-> req[h].body,
                                              kind |-> kind, ticket |-> i])
                        \/ kind \notin {"created", "replay", "conflict"}
    PROVE  IInv'
  <1>1. TypeOK /\ Shape /\ RepliesAgree /\ QuotaCount
    BY InvParts DEF IInv
  <1>2. replies' \subseteq ReplyRow /\ req' = [req EXCEPT ![h] = Nil]
    BY <1>1, ReplyTyped
  <1>3. ticket' = ticket /\ TicketsStay
    BY DEF tables, TicketsStay
  <1>4. Shape'
    <2> DEFINE S == {h}
    <2>1. /\ pc' = [g \in Handlers |-> IF g \in S THEN "idle" ELSE pc[g]]
          /\ req' = [g \in Handlers |-> IF g \in S THEN Nil ELSE req[g]]
      BY <1>1, <1>2 DEF TypeOK, Goto
    <2>2. /\ new_key' = [g \in Handlers |-> IF g \in S THEN Nil ELSE new_key[g]]
          /\ new_ticket' = [g \in Handlers |-> IF g \in S THEN Nil ELSE new_ticket[g]]
      BY <1>1 DEF TypeOK, Discard, draft
    <2>3. S \in SUBSET Handlers
      OBVIOUS
    <2> HIDE DEF S
    <2> QED
      BY <1>1, <1>2, <2>1, <2>2, <2>3, EndKeepsShape
  <1>5. RepliesAgree'
    BY <1>1, <1>3, ReplyKeeps
  <1>6. QuotaCount'
    BY <1>1, <1>2, <1>3, QuotaUnmoved DEF Goto, AdmittedLines, InTransaction
  <1> QED
    BY <1>4, <1>5, <1>6, InvParts DEF IInv, Shape

(* What a stored row answers is true.                                       *)
LEMMA AnswerFits ==
    ASSUME Shape, NEW h \in Handlers, pc[h] # "idle", HasKey(h), stored[KeyOf(h)] # Nil,
           Answer(h, stored[KeyOf(h)])
    PROVE  \E kind \in {"replay", "conflict"} : \E i \in Tickets \union {Nil} :
              /\ Reply(h, kind, i)
              /\ ReplyFits(ticket, [id |-> KeyOf(h), body |-> req[h].body,
                                    kind |-> kind, ticket |-> i])
  <1> DEFINE r == stored[KeyOf(h)]
  <1>1. KeyOf(h) \in KeyIds
    BY RequestType DEF Shape
  <1>2. PICK i \in Tickets : /\ ticket[i] # Nil
                             /\ r = [hash |-> ticket[i].body, response |-> i]
                             /\ KeyOf(h) = <<TenantOf[ticket[i].body], ticket[i].key>>
    BY <1>1 DEF Shape, KeysHaveTickets
  <1>3. r.hash = ticket[i].body /\ r.response = i
    BY <1>2
  <1>4. CASE r.hash = req[h].body
    <2> DEFINE y == [id |-> KeyOf(h), body |-> req[h].body, kind |-> "replay", ticket |-> i]
    <2>1. Reply(h, "replay", i)
      BY <1>3, <1>4 DEF Answer
    <2>2. ReplyFits(ticket, y)
      BY <1>2, <1>3, <1>4 DEF ReplyFits
    <2> QED
      BY <2>1, <2>2
  <1>5. CASE r.hash # req[h].body
    <2> DEFINE y == [id |-> KeyOf(h), body |-> req[h].body, kind |-> "conflict", ticket |-> Nil]
    <2>1. Reply(h, "conflict", Nil)
      BY <1>5 DEF Answer
    <2>2. ReplyFits(ticket, y)
      BY <1>2, <1>3, <1>5 DEF ReplyFits
    <2> QED
      BY <2>1, <2>2
  <1> QED
    BY <1>4, <1>5

(* A request arrives. *)
LEMMA RequestKeeps ==
    ASSUME IInv, NEW h \in Handlers, NEW k \in Keys \union {Nil}, NEW b \in Bodies,
           Request(h, k, b)
    PROVE  IInv'
  <1> DEFINE x == [key |-> k, body |-> b]
  <1>1. TypeOK /\ Shape /\ RepliesAgree /\ QuotaCount
    BY InvParts DEF IInv
  <1>2. /\ pc[h] = "idle" /\ pc' = [pc EXCEPT ![h] = "tenant"]
        /\ req' = [req EXCEPT ![h] = x] /\ x \in RequestRow
        /\ UNCHANGED <<tables, draft, hits, replies, faults>>
        /\ sent' \in 0 .. MaxRequests
    BY <1>1, NumberAssumption DEF Request, Goto, RequestRow, TypeOK
  <1>3. Shape'
    <2> HIDE DEF x
    <2>1. hits' \in [Tenants -> Nat] /\ replies' \subseteq ReplyRow /\ faults' \in 0 .. MaxFaults
      BY <1>1, <1>2 DEF TypeOK
    <2>2. "tenant" \in Lines /\ "tenant" \notin {"lookup", "reserve", "replay", "insert", "finalize",
                                                 "commit", "idle"}
      BY DEF Lines
    <2> QED
      BY <1>1, <1>2, <2>1, <2>2, MoveKeepsShape
  <1>4. RepliesAgree'
    BY <1>1, <1>2 DEF RepliesAgree, tables
  <1>5. QuotaCount'
    <2>1. "tenant" \notin AdmittedLines /\ ticket' = ticket
      BY <1>2 DEF AdmittedLines, InTransaction, tables
    <2> HIDE DEF x
    <2> QED
      BY <1>1, <1>2, <2>1, QuotaUnmoved
  <1> QED
    BY <1>3, <1>4, <1>5, InvParts DEF IInv, Shape

(* The lines before the transaction. *)
LEMMA TenantKeeps ==
    ASSUME IInv, NEW h \in Handlers, require_tenant(h)
    PROVE  IInv'
  <1> DEFINE l == IF HasKey(h) THEN "lookup" ELSE "rate"
  <1>1. /\ pc[h] = "tenant" /\ Goto(h, l)
        /\ UNCHANGED <<tables, draft, req, replies, sent, faults>>
        /\ hits' \in [Tenants -> Nat]
    BY DEF require_tenant, bounds, IInv, TypeOK
  <1>2. /\ l \in Lines \ {"idle", "finalize", "commit"} /\ l \notin AdmittedLines
        /\ l = "lookup" => HasKey(h)
        /\ l \notin {"reserve", "insert", "replay"}
    BY DEF Lines, AdmittedLines, InTransaction
  <1> HIDE DEF l
  <1>3. Shape' /\ RepliesAgree' /\ QuotaCount'
    BY <1>1, <1>2, GoesOnKeeps
  <1> QED
    BY <1>3, InvParts DEF IInv, Shape

LEMMA LookupKeeps ==
    ASSUME IInv, NEW h \in Handlers, check_idempotency_key(h)
    PROVE  IInv'
  <1>1. /\ pc[h] = "lookup" /\ UNCHANGED <<tables, draft, hits, sent, faults>>
        /\ hits' \in [Tenants -> Nat] /\ sent' \in 0 .. MaxRequests /\ faults' \in 0 .. MaxFaults
        /\ HasKey(h) /\ new_key[h] = Nil /\ new_ticket[h] = Nil
    BY DEF check_idempotency_key, bounds, IInv, TypeOK, DraftsFollowTheCode
  <1>2. CASE stored[KeyOf(h)] = Nil
    <2>1. Goto(h, "rate") /\ UNCHANGED <<req, replies>>
      BY <1>2 DEF check_idempotency_key
    <2>2. "rate" \in Lines \ {"idle", "finalize", "commit"} /\ "rate" \notin AdmittedLines
      BY DEF Lines, AdmittedLines, InTransaction
    <2>3. Shape' /\ RepliesAgree' /\ QuotaCount'
      BY <1>1, <2>1, <2>2, GoesOnKeeps
    <2> QED
      BY <2>3, InvParts DEF IInv, Shape
  <1>3. CASE stored[KeyOf(h)] # Nil
    <2>1. Goto(h, "idle") /\ Answer(h, stored[KeyOf(h)])
      BY <1>3 DEF check_idempotency_key
    <2>2. PICK kind \in {"replay", "conflict"}, i \in Tickets \union {Nil} :
             /\ Reply(h, kind, i)
             /\ ReplyFits(ticket, [id |-> KeyOf(h), body |-> req[h].body,
                                   kind |-> kind, ticket |-> i])
      BY <1>1, <1>3, <2>1, AnswerFits, InvParts
    <2>3. kind \in ReplyKinds
      BY DEF ReplyKinds
    <2> QED
      BY <1>1, <2>1, <2>2, <2>3, EndsKeeps
  <1> QED
    BY <1>2, <1>3

(* A check of admission control turns the request away. *)
LEMMA RejectKeeps ==
    ASSUME IInv, NEW h \in Handlers, pc[h] \in {"rate", "quota", "depth", "shed"},
           Goto(h, "idle"), Reply(h, "rejected", Nil),
           UNCHANGED <<tables, draft, bounds>>, hits' \in [Tenants -> Nat]
    PROVE  IInv'
  <1>1. /\ sent' \in 0 .. MaxRequests /\ faults' \in 0 .. MaxFaults
        /\ new_key[h] = Nil /\ new_ticket[h] = Nil
    BY DEF bounds, IInv, TypeOK, DraftsFollowTheCode
  <1>2. "rejected" \in ReplyKinds /\ "rejected" \notin {"created", "replay", "conflict"}
    BY DEF ReplyKinds
  <1> QED
    BY <1>1, <1>2, EndsKeeps

(* It lets the request pass. *)
LEMMA PassKeeps ==
    ASSUME IInv, NEW h \in Handlers, NEW l \in {"quota", "depth", "shed", "acquire"},
           pc[h] \in {"rate", "quota", "depth", "shed"},
           Goto(h, l), UNCHANGED <<tables, draft, req, replies, bounds>>,
           hits' \in [Tenants -> Nat]
    PROVE  Shape' /\ RepliesAgree' /\ (l = "quota" \/ pc[h] \in AdmittedLines => QuotaCount')
  <1>1. l \in Lines \ {"idle", "finalize", "commit"} /\ (l = "quota" => l \notin AdmittedLines)
    BY DEF Lines, AdmittedLines, InTransaction
  <1>2. l \notin {"lookup", "reserve", "insert", "replay"}
    OBVIOUS
  <1> QED
    BY <1>1, <1>2, GoesOnKeeps DEF bounds

LEMMA RateKeeps ==
    ASSUME IInv, NEW h \in Handlers, check_rate_limit(h)
    PROVE  IInv'
  <1>1. pc[h] = "rate" /\ UNCHANGED <<tables, draft, bounds>>
    BY DEF check_rate_limit
  <1>2. hits' \in [Tenants -> Nat]
    <2>1. TenantOf[req[h].body] \in Tenants /\ hits \in [Tenants -> Nat]
      BY <1>1, RequestType DEF IInv, TypeOK
    <2> QED
      BY <2>1 DEF check_rate_limit
  <1>3. \/ Goto(h, "idle") /\ Reply(h, "rejected", Nil)
        \/ Goto(h, "quota") /\ UNCHANGED <<req, replies>>
    BY DEF check_rate_limit
  <1>4. CASE Goto(h, "idle") /\ Reply(h, "rejected", Nil)
    BY <1>1, <1>2, <1>4, RejectKeeps
  <1>5. CASE Goto(h, "quota") /\ UNCHANGED <<req, replies>>
    <2>1. Shape' /\ RepliesAgree' /\ QuotaCount'
      BY <1>1, <1>2, <1>5, PassKeeps
    <2> QED
      BY <2>1, InvParts DEF IInv, Shape
  <1> QED
    BY <1>3, <1>4, <1>5

LEMMA QuotaKeeps ==
    ASSUME IInv, NEW h \in Handlers, check_tenant_quota(h)
    PROVE  IInv'
  <1>1. /\ pc[h] = "quota" /\ UNCHANGED <<tables, draft, bounds>> /\ hits' \in [Tenants -> Nat]
        /\ TypeOK /\ Shape /\ RepliesAgree /\ QuotaCount
    BY InvParts DEF check_tenant_quota, IInv, TypeOK
  <1>2. CASE Goto(h, "idle") /\ Reply(h, "rejected", Nil)
    BY <1>1, <1>2, RejectKeeps
  <1>3. CASE /\ Goto(h, "depth") /\ UNCHANGED <<req, replies>>
             /\ ~(Cardinality(Waiting(TenantOf[req[h].body])) >= MaxInFlight)
    <2>1. Shape' /\ RepliesAgree'
      BY <1>1, <1>3, PassKeeps
    <2>2. ASSUME NEW t \in Tenants
          PROVE  /\ IsFiniteSet(Waiting(t)')
                 /\ Cardinality(Waiting(t)') + Cardinality(Admitted(t)')
                       < MaxInFlight + Cardinality(Handlers)
      <3>1. Waiting(t)' = Waiting(t) /\ Admitted(t)' \subseteq Handlers
        BY <1>1 DEF Waiting, Admitted, tables
      <3>2. CASE t = TenantOf[req[h].body]
        <4>1. Cardinality(Waiting(t)) \in Nat
          BY <1>1, FS_CardinalityType DEF QuotaCount
        <4>2. Cardinality(Waiting(t)) < MaxInFlight
          BY <1>3, <3>2, <4>1, NumberAssumption
        <4> QED
          BY <1>1, <3>1, <4>2, QuotaAsked
      <3>3. CASE t # TenantOf[req[h].body]
        <4>1. /\ req' = req /\ \A o \in Handlers \ {h} : pc'[o] = pc[o]
          BY <1>1, <1>3 DEF Goto, TypeOK
        <4>2. Admitted(t)' \subseteq Admitted(t)
          BY <3>3, <4>1 DEF Admitted
        <4> QED
          BY <1>1, <3>1, <4>2, QuotaShrinks
      <3> QED
        BY <3>2, <3>3
    <2> QED
      BY <2>1, <2>2, InvParts DEF IInv, Shape, QuotaCount
  <1> QED
    BY <1>2, <1>3 DEF check_tenant_quota

LEMMA DepthAndLoadKeep ==
    ASSUME IInv, NEW h \in Handlers, check_partition_depth(h) \/ check_db_load_shedding(h)
    PROVE  IInv'
  <1>1. /\ pc[h] \in {"depth", "shed"} /\ UNCHANGED <<tables, draft, bounds>>
        /\ hits' \in [Tenants -> Nat]
    BY DEF check_partition_depth, check_db_load_shedding, IInv, TypeOK
  <1>2. CASE Goto(h, "idle") /\ Reply(h, "rejected", Nil)
    BY <1>1, <1>2, RejectKeeps
  <1>3. CASE \E l \in {"shed", "acquire"} : Goto(h, l) /\ UNCHANGED <<req, replies>>
    <2>1. pc[h] \in AdmittedLines
      BY <1>1 DEF AdmittedLines
    <2>2. Shape' /\ RepliesAgree' /\ QuotaCount'
      BY <1>1, <1>3, <2>1, PassKeeps
    <2> QED
      BY <2>2, InvParts DEF IInv, Shape
  <1> QED
    BY <1>2, <1>3 DEF check_partition_depth, check_db_load_shedding

LEMMA AcquireKeeps ==
    ASSUME IInv, NEW h \in Handlers, Acquire(h)
    PROVE  IInv'
  <1> DEFINE l == IF HasKey(h) THEN "reserve" ELSE "insert"
  <1>1. /\ pc[h] = "acquire" /\ Goto(h, l)
        /\ UNCHANGED <<tables, draft, req, replies, sent, faults>>
        /\ hits' \in [Tenants -> Nat]
    BY DEF Acquire, bounds, IInv, TypeOK
  <1>2. /\ l \in Lines \ {"idle", "finalize", "commit"} /\ pc[h] \in AdmittedLines
        /\ l = "reserve" => HasKey(h)
        /\ l = "insert" => ~HasKey(h)
        /\ l \notin {"lookup", "replay"}
    BY <1>1 DEF Lines, AdmittedLines, InTransaction
  <1> HIDE DEF l
  <1>3. Shape' /\ RepliesAgree' /\ QuotaCount'
    BY <1>1, <1>2, GoesOnKeeps
  <1> QED
    BY <1>3, InvParts DEF IInv, Shape

(* The transaction. *)
LEMMA ReserveKeeps ==
    ASSUME IInv, NEW h \in Handlers, reserve_idempotency_key(h)
    PROVE  IInv'
  <1>1. /\ pc[h] = "reserve" /\ UNCHANGED <<tables, req, new_ticket, hits, replies, sent, faults>>
        /\ TypeOK /\ Shape /\ RepliesAgree /\ QuotaCount
        /\ HasKey(h) /\ new_key[h] = Nil /\ new_ticket[h] = Nil
    BY InvParts DEF reserve_idempotency_key, bounds, Shape, DraftsFollowTheCode
  <1>2. CASE stored[KeyOf(h)] # Nil
    <2>1. Goto(h, "replay") /\ UNCHANGED draft /\ hits' \in [Tenants -> Nat]
      BY <1>1, <1>2 DEF reserve_idempotency_key, draft, TypeOK
    <2>2. "replay" \in Lines \ {"idle", "finalize", "commit"} /\ pc[h] \in AdmittedLines
      BY <1>1 DEF Lines, AdmittedLines, InTransaction
    <2>3. Shape' /\ RepliesAgree' /\ QuotaCount'
      BY <1>1, <1>2, <2>1, <2>2, GoesOnKeeps
    <2> QED
      BY <2>3, InvParts DEF IInv, Shape
  <1>3. CASE stored[KeyOf(h)] = Nil
    <2> DEFINE k == [hash |-> req[h].body, response |-> Nil]
    <2>1. /\ new_key' = [new_key EXCEPT ![h] = k]
          /\ pc' = [pc EXCEPT ![h] = "insert"]
      BY <1>3 DEF reserve_idempotency_key, Goto
    <2>2. k \in KeyRow /\ k # Nil /\ k.hash = req[h].body
      BY <1>1, RequestType, RowsAreNotNil DEF RequestRow, KeyRow
    <2>3. new_ticket' = [new_ticket EXCEPT ![h] = Nil]
      BY <1>1 DEF TypeOK
    <2>4. \A o \in Handlers \ {h} : new_key[o] # Nil => KeyOf(o) # KeyOf(h)
      BY DEF reserve_idempotency_key
    <2> HIDE DEF k
    <2>5. Shape'
      BY <1>1, <1>3, <2>1, <2>2, <2>3, <2>4, DraftKeepsShape
    <2>6. RepliesAgree'
      BY <1>1 DEF RepliesAgree, tables
    <2>7. QuotaCount'
      <3>1. req' = [req EXCEPT ![h] = req[h]] /\ pc[h] \in AdmittedLines /\ ticket' = ticket
        BY <1>1 DEF TypeOK, AdmittedLines, InTransaction, tables
      <3> QED
        BY <1>1, <2>1, <3>1, QuotaUnmoved
    <2> QED
      BY <2>5, <2>6, <2>7, InvParts DEF IInv, Shape
  <1> QED
    BY <1>2, <1>3

LEMMA ReplayKeeps ==
    ASSUME IInv, NEW h \in Handlers, fetch_stored_response(h)
    PROVE  IInv'
  <1>1. /\ pc[h] = "replay" /\ UNCHANGED <<tables, draft, hits, bounds>>
        /\ hits' \in [Tenants -> Nat] /\ sent' \in 0 .. MaxRequests /\ faults' \in 0 .. MaxFaults
        /\ HasKey(h) /\ stored[KeyOf(h)] # Nil /\ new_key[h] = Nil /\ new_ticket[h] = Nil
        /\ Goto(h, "idle") /\ Answer(h, stored[KeyOf(h)])
    BY DEF fetch_stored_response, bounds, IInv, TypeOK, DraftsFollowTheCode
  <1>2. PICK kind \in {"replay", "conflict"}, i \in Tickets \union {Nil} :
           /\ Reply(h, kind, i)
           /\ ReplyFits(ticket, [id |-> KeyOf(h), body |-> req[h].body,
                                 kind |-> kind, ticket |-> i])
    BY <1>1, AnswerFits, InvParts
  <1>3. kind \in ReplyKinds
    BY DEF ReplyKinds
  <1> QED
    BY <1>1, <1>2, <1>3, EndsKeeps

LEMMA InsertKeeps ==
    ASSUME IInv, NEW h \in Handlers, InsertTicket(h)
    PROVE  IInv'
  <1> DEFINE l == IF HasKey(h) THEN "finalize" ELSE "commit"
  <1>1. /\ pc[h] = "insert" /\ UNCHANGED <<tables, req, new_key, hits, replies, sent, faults>>
        /\ pc' = [pc EXCEPT ![h] = l]
        /\ TypeOK /\ Shape /\ RepliesAgree /\ QuotaCount
    <2>1. TypeOK /\ Shape /\ RepliesAgree /\ QuotaCount
      BY InvParts DEF IInv
    <2>2. pc[h] = "insert" /\ UNCHANGED <<tables, req, new_key, hits, replies, sent, faults>>
      BY DEF InsertTicket, bounds
    <2>3. pc' = [pc EXCEPT ![h] = l]
      BY DEF InsertTicket, Goto
    <2> QED
      BY <2>1, <2>2, <2>3
  <1>2. PICK n \in Tickets : /\ ticket[n] = Nil /\ \A o \in Handlers : new_ticket[o] # n
                             /\ new_ticket' = [new_ticket EXCEPT ![h] = n]
    BY DEF InsertTicket
  <1>3. /\ new_key' = [new_key EXCEPT ![h] = new_key[h]] /\ new_key[h] \in KeyRow \union {Nil}
        /\ n # Nil
    BY <1>1, RowsAreNotNil DEF TypeOK
  <1>4. /\ new_key[h] # Nil <=> HasKey(h)
        /\ new_key[h] # Nil => /\ new_key[h].hash = req[h].body
                               /\ stored[KeyOf(h)] = Nil
                               /\ \A o \in Handlers \ {h} : new_key[o] # Nil => KeyOf(o) # KeyOf(h)
    BY <1>1 DEF Shape, DraftsFollowTheCode, ReservedKeysAreFree
  <1>5. l \in {"finalize", "commit"} /\ (l = "finalize" <=> HasKey(h))
    OBVIOUS
  <1> HIDE DEF l
  <1>6. Shape'
    BY <1>1, <1>2, <1>3, <1>4, <1>5, DraftKeepsShape
  <1>7. RepliesAgree'
    BY <1>1 DEF RepliesAgree, tables
  <1>8. QuotaCount'
    <2>1. req' = [req EXCEPT ![h] = req[h]] /\ pc[h] \in AdmittedLines /\ ticket' = ticket
      BY <1>1 DEF TypeOK, AdmittedLines, InTransaction, tables
    <2> QED
      BY <1>1, <2>1, QuotaUnmoved
  <1> QED
    BY <1>6, <1>7, <1>8, InvParts DEF IInv, Shape

LEMMA RefuseKeeps ==
    ASSUME IInv, NEW h \in Handlers, RefuseTicket(h)
    PROVE  IInv'
  <1>1. /\ pc[h] = "insert" /\ Discard(h) /\ Reply(h, "duplicate", Nil) /\ Goto(h, "idle")
        /\ UNCHANGED tables /\ hits' \in [Tenants -> Nat]
        /\ sent' \in 0 .. MaxRequests /\ faults' \in 0 .. MaxFaults
    BY DEF RefuseTicket, bounds, IInv, TypeOK
  <1>2. "duplicate" \in ReplyKinds /\ "duplicate" \notin {"created", "replay", "conflict"}
    BY DEF ReplyKinds
  <1> QED
    BY <1>1, <1>2, EndsKeeps

LEMMA FinalizeKeeps ==
    ASSUME IInv, NEW h \in Handlers, finalize_idempotency_key(h)
    PROVE  IInv'
  <1> DEFINE k == [new_key[h] EXCEPT !.response = new_ticket[h]]
  <1>1. /\ pc[h] = "finalize" /\ UNCHANGED <<tables, req, new_ticket, hits, replies, sent, faults>>
        /\ pc' = [pc EXCEPT ![h] = "commit"]
        /\ new_key' = [new_key EXCEPT ![h] = k]
        /\ TypeOK /\ Shape /\ RepliesAgree /\ QuotaCount
    <2>1. TypeOK /\ Shape /\ RepliesAgree /\ QuotaCount
      BY InvParts DEF IInv
    <2>2. /\ pc[h] = "finalize"
          /\ UNCHANGED <<tables, req, new_ticket, hits, replies, sent, faults>>
          /\ pc' = [pc EXCEPT ![h] = "commit"]
      BY DEF finalize_idempotency_key, bounds, Goto
    <2>3. new_key' = [new_key EXCEPT ![h] = k]
      BY DEF finalize_idempotency_key
    <2> QED
      BY <2>1, <2>2, <2>3
  <1>2. /\ HasKey(h) /\ new_key[h] \in KeyRow /\ new_key[h].hash = req[h].body
        /\ stored[KeyOf(h)] = Nil
        /\ \A o \in Handlers \ {h} : new_key[o] # Nil => KeyOf(o) # KeyOf(h)
    BY <1>1 DEF Shape, TypeOK, DraftsFollowTheCode, ReservedKeysAreFree
  <1>3. /\ new_ticket[h] \in Tickets /\ new_ticket[h] # Nil /\ ticket[new_ticket[h]] = Nil
        /\ \A o \in Handlers \ {h} : new_ticket[o] # new_ticket[h]
    BY <1>1 DEF Shape, TypeOK, DraftsFollowTheCode, NewTicketsAreFree
  <1>4. k \in KeyRow /\ k.hash = req[h].body /\ k.response = new_ticket[h]
    BY <1>2, <1>3 DEF KeyRow
  <1>5. k # Nil /\ new_ticket' = [new_ticket EXCEPT ![h] = new_ticket[h]]
    BY <1>1, <1>4, RowsAreNotNil DEF TypeOK
  <1> HIDE DEF k
  <1>6. Shape'
    BY <1>1, <1>2, <1>3, <1>4, <1>5, DraftKeepsShape
  <1>7. RepliesAgree'
    BY <1>1 DEF RepliesAgree, tables
  <1>8. QuotaCount'
    <2>1. req' = [req EXCEPT ![h] = req[h]] /\ pc[h] \in AdmittedLines /\ ticket' = ticket
      BY <1>1 DEF TypeOK, AdmittedLines, InTransaction, tables
    <2> QED
      BY <1>1, <2>1, QuotaUnmoved
  <1> QED
    BY <1>6, <1>7, <1>8, InvParts DEF IInv, Shape

(* The transaction is applied, whatever its client is told of it. *)
LEMMA AppliedKeeps ==
    ASSUME IInv, NEW h \in Handlers, pc[h] = "commit", Apply(h), Discard(h), Goto(h, "idle"),
           NEW kind \in {"created", "error"}, NEW i \in Tickets \union {Nil}, Reply(h, kind, i),
           kind = "created" => i = new_ticket[h],
           UNCHANGED hits, sent' \in 0 .. MaxRequests, faults' \in 0 .. MaxFaults
    PROVE  IInv'
  <1> DEFINE n == new_ticket[h]
  <1>1. TypeOK /\ Shape /\ RepliesAgree /\ QuotaCount
    BY InvParts DEF IInv
  <1>2. replies' \subseteq ReplyRow /\ req' = [req EXCEPT ![h] = Nil]
        /\ hits' \in [Tenants -> Nat]
    BY <1>1, ReplyTyped DEF ReplyKinds, TypeOK
  <1>3. /\ n \in Tickets /\ ticket'[n] # Nil /\ TicketsStay
        /\ ticket'[n].body = req[h].body /\ ticket'[n].key = req[h].key
        /\ \A j \in Tickets \ {n} : ticket'[j] = ticket[j]
    <2>1. /\ n \in Tickets /\ ticket'[n] # Nil /\ TicketsStay
          /\ ticket'[n] = [status |-> "waiting", body |-> req[h].body, key |-> req[h].key]
          /\ \A j \in Tickets \ {n} : ticket'[j] = ticket[j]
      BY <1>1, ApplyLemma
    <2>2. ticket'[n].body = req[h].body /\ ticket'[n].key = req[h].key
      BY <2>1
    <2> QED
      BY <2>1, <2>2
  <1>4. Shape'
    BY <1>1, <1>2, CommitKeepsShape DEF Goto
  <1>5. RepliesAgree'
    <2> DEFINE y == [id |-> KeyOf(h), body |-> req[h].body, kind |-> kind, ticket |-> i]
    <2>1. ReplyFits(ticket', y) \/ kind \notin {"created", "replay", "conflict"}
      BY <1>3 DEF ReplyFits, KeyOf
    <2> QED
      BY <1>1, <1>3, <2>1, ReplyKeeps
  <1>6. ASSUME NEW t \in Tenants
        PROVE  /\ IsFiniteSet(Waiting(t)')
               /\ Cardinality(Waiting(t)') + Cardinality(Admitted(t)')
                     < MaxInFlight + Cardinality(Handlers)
    <2>1. /\ pc'[h] = "idle" /\ \A o \in Handlers \ {h} : pc'[o] = pc[o] /\ req'[o] = req[o]
      BY <1>1, <1>2 DEF TypeOK, Goto
    <2>2. Admitted(t)' \subseteq Admitted(t) \ {h}
      BY <2>1 DEF Admitted, InTransaction
    <2>3. CASE TenantOf[req[h].body] = t
      <3>1. h \in Admitted(t)
        BY <2>3 DEF Admitted, InTransaction
      <3>2. Waiting(t)' \subseteq Waiting(t) \union {n}
        BY <1>3 DEF Waiting
      <3> HIDE DEF n
      <3> QED
        BY <1>1, <2>2, <3>1, <3>2, QuotaPaid
    <2>4. CASE TenantOf[req[h].body] # t
      <3>1. Waiting(t)' \subseteq Waiting(t)
        BY <1>3, <2>4 DEF Waiting
      <3> QED
        BY <1>1, <2>2, <3>1, QuotaShrinks
    <2> QED
      BY <2>3, <2>4
  <1> QED
    BY <1>4, <1>5, <1>6, InvParts DEF IInv, Shape, QuotaCount

LEMMA CommitKeeps ==
    ASSUME IInv, NEW h \in Handlers, Commit(h)
    PROVE  IInv'
  <1>1. /\ pc[h] = "commit" /\ Apply(h) /\ Discard(h) /\ Goto(h, "idle")
        /\ Reply(h, "created", new_ticket[h]) /\ UNCHANGED hits
        /\ sent' \in 0 .. MaxRequests /\ faults' \in 0 .. MaxFaults
        /\ new_ticket[h] \in Tickets \union {Nil}
    BY DEF Commit, bounds, IInv, TypeOK
  <1> QED
    BY <1>1, AppliedKeeps

LEMMA FailureKeeps ==
    ASSUME IInv, NEW h \in Handlers, RequestFails(h)
    PROVE  IInv'
  <1>1. /\ pc[h] # "idle" /\ Discard(h) /\ Reply(h, "error", Nil) /\ Goto(h, "idle")
        /\ UNCHANGED hits /\ hits' \in [Tenants -> Nat]
        /\ sent' \in 0 .. MaxRequests /\ faults' \in 0 .. MaxFaults
    BY NumberAssumption DEF RequestFails, Fault, IInv, TypeOK
  <1>2. CASE UNCHANGED tables
    <2>1. "error" \in ReplyKinds /\ "error" \notin {"created", "replay", "conflict"}
      BY DEF ReplyKinds
    <2> QED
      BY <1>1, <1>2, <2>1, EndsKeeps
  <1>3. CASE pc[h] = "commit" /\ Apply(h)
    BY <1>1, <1>3, AppliedKeeps
  <1> QED
    BY <1>2, <1>3 DEF RequestFails

(* Next to the requests. *)

(* Waiting tickets leave. *)
LEMMA LeaveKeeps ==
    ASSUME IInv, UNCHANGED <<stored, pc, req, draft, hits, replies, sent, faults>>,
           ticket' \in [Tickets -> TicketRow \union {Nil}],
           \A i \in Tickets :
              /\ ticket'[i] = Nil <=> ticket[i] = Nil
              /\ ticket[i] # Nil => /\ ticket'[i].body = ticket[i].body
                                    /\ ticket'[i].key = ticket[i].key
                                    /\ ticket'[i].status = "waiting" => ticket[i].status = "waiting"
    PROVE  IInv'
  <1>1. TypeOK /\ Shape /\ RepliesAgree /\ QuotaCount
    BY InvParts DEF IInv
  <1>2. Shape'
    <2>1. /\ hits' \in [Tenants -> Nat] /\ replies' \subseteq ReplyRow
          /\ sent' \in 0 .. MaxRequests /\ faults' \in 0 .. MaxFaults
      BY <1>1 DEF TypeOK
    <2> QED
      BY <1>1, <2>1, StatusKeepsShape
  <1>3. RepliesAgree'
    <2>1. TicketsStay
      BY DEF TicketsStay
    <2>2. \A r \in replies : ReplyFits(ticket', r)
      BY <1>1, <2>1, RepliesStay
    <2> QED
      BY <2>2 DEF RepliesAgree, ReplyFits
  <1>4. ASSUME NEW t \in Tenants
        PROVE  Waiting(t)' \subseteq Waiting(t) /\ Admitted(t)' \subseteq Admitted(t)
    BY DEF Waiting, Admitted
  <1> QED
    BY <1>1, <1>2, <1>3, <1>4, QuotaShrinks, InvParts DEF IInv, Shape, QuotaCount

LEMMA CancelKeeps ==
    ASSUME IInv, NEW i \in Tickets, cancel_ticket(i)
    PROVE  IInv'
  <1> DEFINE row == [ticket[i] EXCEPT !.status = "cancelled"]
  <1>1. /\ ticket[i] \in TicketRow /\ ticket \in [Tickets -> TicketRow \union {Nil}]
        /\ ticket' = [ticket EXCEPT ![i] = row]
        /\ UNCHANGED <<stored, pc, req, draft, hits, replies, sent, faults>>
    BY DEF cancel_ticket, bounds, IInv, TypeOK
  <1>2. /\ row \in TicketRow /\ row # Nil /\ ticket[i] # Nil /\ row.body = ticket[i].body
        /\ row.key = ticket[i].key /\ row.status # "waiting"
    BY <1>1, RowsAreNotNil DEF TicketRow
  <1> HIDE DEF row
  <1> QED
    BY <1>1, <1>2, LeaveKeeps

LEMMA MatchKeeps ==
    ASSUME IInv, NEW i \in Tickets, NEW j \in Tickets, MatchTickets(i, j)
    PROVE  IInv'
  <1> DEFINE row(k) == [ticket[k] EXCEPT !.status = "matched"]
  <1>1. /\ ticket[i] \in TicketRow /\ ticket[j] \in TicketRow /\ i # j
        /\ ticket \in [Tickets -> TicketRow \union {Nil}]
        /\ UNCHANGED <<stored, pc, req, draft, hits, replies, sent, faults>>
    BY DEF MatchTickets, bounds, IInv, TypeOK
  <1>2. ticket' = [ticket EXCEPT ![i] = row(i), ![j] = row(j)]
    BY <1>1 DEF MatchTickets, IInv, TypeOK
  <1>3. ASSUME NEW k \in {i, j}
        PROVE  /\ row(k) \in TicketRow /\ row(k) # Nil /\ ticket[k] # Nil
               /\ row(k).body = ticket[k].body /\ row(k).key = ticket[k].key
               /\ row(k).status # "waiting"
    BY <1>1, RowsAreNotNil DEF TicketRow
  <1> HIDE DEF row
  <1> QED
    BY <1>1, <1>2, <1>3, LeaveKeeps

LEMMA MinuteKeeps ==
    ASSUME IInv, MinutePasses
    PROVE  IInv'
  <1>1. TypeOK /\ Shape /\ RepliesAgree /\ QuotaCount
    BY InvParts DEF IInv
  <1>2. /\ UNCHANGED <<ticket, stored, pc, req, new_key, new_ticket, replies, sent, faults>>
        /\ hits' \in [Tenants -> Nat]
    BY DEF MinutePasses, tables, draft, bounds
  <1>3. TypeOK'
    BY <1>1, <1>2 DEF TypeOK
  <1>4. DraftsFollowTheCode' /\ ReservedKeysAreFree' /\ NewTicketsAreFree'
    BY <1>1, <1>2 DEF Shape, DraftsFollowTheCode, ReservedKeysAreFree, NewTicketsAreFree, HasKey, KeyOf
  <1>5. KeysHaveTickets' /\ TicketsHaveKeys' /\ RepliesAgree'
    BY <1>1, <1>2 DEF Shape, KeysHaveTickets, TicketsHaveKeys, RepliesAgree
  <1>6. QuotaCount'
    <2>1. \A t \in Tenants : Waiting(t)' = Waiting(t) /\ Admitted(t)' = Admitted(t)
      BY <1>2 DEF Waiting, Admitted
    <2> QED
      BY <1>1, <2>1 DEF QuotaCount
  <1> QED
    BY <1>3, <1>4, <1>5, <1>6 DEF IInv

LEMMA CrashKeeps ==
    ASSUME IInv, Crash
    PROVE  IInv'
  <1>1. TypeOK /\ Shape /\ RepliesAgree /\ QuotaCount
    BY InvParts DEF IInv
  <1>2. /\ UNCHANGED <<tables, hits, replies>> /\ hits' \in [Tenants -> Nat]
        /\ replies' \subseteq ReplyRow /\ sent' \in 0 .. MaxRequests /\ faults' \in 0 .. MaxFaults
    BY <1>1, NumberAssumption DEF Crash, Fault, TypeOK
  <1>3. Shape'
    <2> DEFINE S == Handlers
    <2>1. /\ pc' = [g \in Handlers |-> IF g \in S THEN "idle" ELSE pc[g]]
          /\ req' = [g \in Handlers |-> IF g \in S THEN Nil ELSE req[g]]
          /\ new_key' = [g \in Handlers |-> IF g \in S THEN Nil ELSE new_key[g]]
          /\ new_ticket' = [g \in Handlers |-> IF g \in S THEN Nil ELSE new_ticket[g]]
      BY DEF Crash
    <2>2. S \in SUBSET Handlers
      OBVIOUS
    <2> HIDE DEF S
    <2> QED
      BY <1>1, <1>2, <2>1, <2>2, EndKeepsShape
  <1>4. RepliesAgree'
    BY <1>1, <1>2 DEF RepliesAgree, tables
  <1>5. ASSUME NEW t \in Tenants
        PROVE  Waiting(t)' \subseteq Waiting(t) /\ Admitted(t)' \subseteq Admitted(t)
    BY <1>2 DEF Crash, Waiting, Admitted, tables, InTransaction
  <1> QED
    BY <1>1, <1>3, <1>4, <1>5, QuotaShrinks, InvParts DEF IInv, Shape, QuotaCount

LEMMA StutterKeeps ==
    ASSUME IInv, UNCHANGED vars
    PROVE  IInv'
  <1>1. UNCHANGED <<ticket, stored, pc, req, new_key, new_ticket, hits, replies, sent, faults>>
    BY DEF vars, tables, draft, bounds
  <1>2. TypeOK'
    BY <1>1 DEF IInv, TypeOK
  <1>3. DraftsFollowTheCode' /\ ReservedKeysAreFree' /\ NewTicketsAreFree'
    BY <1>1 DEF IInv, DraftsFollowTheCode, ReservedKeysAreFree, NewTicketsAreFree, HasKey, KeyOf
  <1>4. KeysHaveTickets' /\ TicketsHaveKeys' /\ RepliesAgree'
    BY <1>1 DEF IInv, KeysHaveTickets, TicketsHaveKeys, RepliesAgree
  <1>5. QuotaCount'
    <2>1. \A t \in Tenants : Waiting(t)' = Waiting(t) /\ Admitted(t)' = Admitted(t)
      BY <1>1 DEF Waiting, Admitted
    <2> QED
      BY <2>1 DEF IInv, QuotaCount
  <1> QED
    BY <1>2, <1>3, <1>4, <1>5 DEF IInv

(* IInv holds at the start. *)
LEMMA InitInv == Init => IInv
  <1> SUFFICES ASSUME Init PROVE IInv
    OBVIOUS
  <1> DEFINE Old(b) == [status |-> "waiting", body |-> b, key |-> Nil]
  <1>1. PICK body \in [OldTickets -> Bodies] :
           ticket = [i \in Tickets |-> IF i \in OldTickets THEN Old(body[i]) ELSE Nil]
    BY DEF Init
  <1>2. \A i \in Tickets : /\ i \in OldTickets => ticket[i] = Old(body[i]) /\ body[i] \in Bodies
                           /\ i \notin OldTickets => ticket[i] = Nil
    BY <1>1
  <1>3. TypeOK
    <2>1. "idle" \notin InTransaction
      BY DEF InTransaction
    <2>2. ticket \in [Tickets -> TicketRow \union {Nil}]
      <3>1. \A b \in Bodies : Old(b) \in TicketRow
        BY DEF TicketRow
      <3> QED
        BY <1>1, <1>2, <3>1
    <2> QED
      BY <2>1, <2>2, NumberAssumption DEF Init, TypeOK
  <1>4. DraftsFollowTheCode /\ ReservedKeysAreFree /\ NewTicketsAreFree
    BY DEF Init, DraftsFollowTheCode, ReservedKeysAreFree, NewTicketsAreFree
  <1>5. KeysHaveTickets /\ RepliesAgree
    BY DEF Init, KeysHaveTickets, RepliesAgree
  <1>6. TicketsHaveKeys
    <2>1. \A b : Old(b).key = Nil
      OBVIOUS
    <2>2. \A i \in Tickets : ticket[i] # Nil => ticket[i].key = Nil
      BY <1>2, <2>1
    <2> QED
      BY <2>2 DEF TicketsHaveKeys
  <1>7. QuotaCount
    <2> SUFFICES ASSUME NEW t \in Tenants
                 PROVE  /\ IsFiniteSet(Waiting(t))
                        /\ Cardinality(Waiting(t)) + Cardinality(Admitted(t))
                              < MaxInFlight + Cardinality(Handlers)
      BY DEF QuotaCount
    <2>1. Waiting(t) \subseteq OldTickets
      BY <1>2 DEF Waiting
    <2>2. Admitted(t) = {}
      BY DEF Init, Admitted, InTransaction
    <2>3. IsFiniteSet(Waiting(t)) /\ Cardinality(Waiting(t)) <= Cardinality(OldTickets)
      BY <2>1, OldAssumption, FS_Subset
    <2>4. /\ Cardinality(Handlers) \in Nat /\ Cardinality(OldTickets) \in Nat
          /\ Cardinality(Waiting(t)) \in Nat
      BY <2>3, HandlerAssumption, OldAssumption, FS_CardinalityType
    <2>5. Cardinality({}) = 0
      BY FS_EmptySet
    <2> QED
      BY <2>2, <2>3, <2>4, <2>5, NumberAssumption, OldAssumption
  <1> QED
    BY <1>3, <1>4, <1>5, <1>6, <1>7 DEF IInv

LEMMA NextInv == IInv /\ [Next]_vars => IInv'
  <1> SUFFICES ASSUME IInv, [Next]_vars PROVE IInv'
    OBVIOUS
  <1>1. ASSUME NEW h \in Handlers, NEW k \in Keys \union {Nil}, NEW b \in Bodies, Request(h, k, b)
        PROVE  IInv'
    BY <1>1, RequestKeeps
  <1>2. ASSUME NEW h \in Handlers, Step(h)
        PROVE  IInv'
    BY <1>2, TenantKeeps, LookupKeeps, RateKeeps, QuotaKeeps, DepthAndLoadKeep, AcquireKeeps,
       ReserveKeeps, ReplayKeeps, InsertKeeps, RefuseKeeps, FinalizeKeeps, CommitKeeps DEF Step
  <1>3. ASSUME NEW h \in Handlers, RequestFails(h)
        PROVE  IInv'
    BY <1>3, FailureKeeps
  <1>4. ASSUME NEW i \in Tickets, cancel_ticket(i)
        PROVE  IInv'
    BY <1>4, CancelKeeps
  <1>5. ASSUME NEW i \in Tickets, NEW j \in Tickets, MatchTickets(i, j)
        PROVE  IInv'
    BY <1>5, MatchKeeps
  <1> QED
    BY <1>1, <1>2, <1>3, <1>4, <1>5, MinuteKeeps, CrashKeeps, StutterKeeps DEF Next

-----------------------------------------------------------------------------
(* The theorems. *)

(* IInv is an invariant of the API. *)
THEOREM Invariance == Spec => []IInv
  BY InitInv, NextInv, PTL DEF Spec

(* Every variable always holds a value of its type. *)
THEOREM TypeCorrect == Spec => []TypeOK
  <1>1. IInv => TypeOK
    BY DEF IInv
  <1> QED
    BY <1>1, Invariance, PTL

(* However requests with one key overlap, fail or are sent again, at most   *)
(* one ticket is created under it (create_ticket, reserve_idempotency_key): *)
(* every such ticket is the one that the key's row names.                   *)
THEOREM KeysMakeOneTicket == Spec => []OneTicketPerKey
  <1>1. IInv => OneTicketPerKey
    <2> SUFFICES ASSUME IInv, NEW i \in Tickets, NEW j \in Tickets,
                        ticket[i] # Nil, ticket[j] # Nil, ticket[i].key # Nil,
                        ticket[i].key = ticket[j].key,
                        TenantOf[ticket[i].body] = TenantOf[ticket[j].body]
                 PROVE  i = j
      BY DEF OneTicketPerKey
    <2> DEFINE row == stored[<<TenantOf[ticket[i].body], ticket[i].key>>]
    <2>1. row = [hash |-> ticket[i].body, response |-> i]
      BY DEF IInv, TicketsHaveKeys
    <2>2. row = [hash |-> ticket[j].body, response |-> j]
      BY DEF IInv, TicketsHaveKeys
    <2>3. row.response = i
      BY <2>1
    <2>4. row.response = j
      BY <2>2
    <2> QED
      BY <2>3, <2>4
  <1> QED
    BY <1>1, Invariance, PTL

(* A key is stored together with its ticket or not at all: a request that   *)
(* fails or dies at any line does not use up the key of its retry.          *)
THEOREM KeysAreNotUsedUp == Spec => []KeysHaveTickets
  <1>1. IInv => KeysHaveTickets
    BY DEF IInv
  <1> QED
    BY <1>1, Invariance, PTL

(* Replays name the ticket made under the key, for the body asked for, and  *)
(* conflicts are told to other bodies only (check_idempotency_key,          *)
(* fetch_stored_response): never what a transaction has not committed.      *)
THEOREM RepliesAreTrue == Spec => []RepliesAgree
  <1>1. IInv => RepliesAgree
    BY DEF IInv
  <1> QED
    BY <1>1, Invariance, PTL

(* The requests in progress overshoot a tenant's quota by fewer tickets     *)
(* than there are requests (check_tenant_quota counts apart from the        *)
(* INSERT), because those that wait and those admitted are bounded together. *)
THEOREM QuotaIsNearlyKept == Spec => []OvershootIsBounded
  <1>1. IInv => OvershootIsBounded
    <2> SUFFICES ASSUME IInv, NEW t \in Tenants
                 PROVE  Cardinality(Waiting(t)) < MaxInFlight + Cardinality(Handlers)
      BY DEF OvershootIsBounded
    <2>1. Cardinality(Waiting(t)) + Cardinality(Admitted(t)) < MaxInFlight + Cardinality(Handlers)
          /\ IsFiniteSet(Waiting(t))
      BY DEF IInv, QuotaCount
    <2>2. Cardinality(Waiting(t)) \in Nat
      BY <2>1, FS_CardinalityType
    <2> QED
      BY <2>1, <2>2, AdmittedFinite, NumberAssumption
  <1> QED
    BY <1>1, Invariance, PTL
=============================================================================
