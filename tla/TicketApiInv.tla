---------------------------- MODULE TicketApiInv ----------------------------
(***************************************************************************)
(* The inductive invariant of TicketApi: what the open transactions know   *)
(* of each other's keys and tickets, and the count behind the quota.       *)
(***************************************************************************)
EXTENDS TicketApi

(* What a transaction has written so far is told by where it is, and only   *)
(* requests with a key come to the lines about keys.                        *)
DraftsFollowTheCode ==
    \A h \in Handlers :
       /\ pc[h] \in {"lookup", "reserve", "replay", "finalize"} => HasKey(h)
       /\ pc[h] = "replay" => stored[KeyOf(h)] # Nil
       /\ new_ticket[h] # Nil <=> pc[h] \in {"finalize", "commit"}
       /\ new_key[h] # Nil <=> pc[h] \in {"insert", "finalize", "commit"} /\ HasKey(h)
       /\ new_key[h] # Nil =>
             /\ new_key[h].hash = req[h].body
             /\ pc[h] = "commit" => new_key[h].response = new_ticket[h]

(* A key that an open transaction has reserved is neither stored nor        *)
(* reserved by another one.                                                 *)
ReservedKeysAreFree ==
    \A h \in Handlers : new_key[h] # Nil =>
       /\ stored[KeyOf(h)] = Nil
       /\ \A o \in Handlers \ {h} : new_key[o] # Nil => KeyOf(o) # KeyOf(h)

(* A ticket that an open transaction has inserted is no other one's.        *)
NewTicketsAreFree ==
    \A h \in Handlers : new_ticket[h] # Nil =>
       /\ ticket[new_ticket[h]] = Nil
       /\ \A o \in Handlers \ {h} : new_ticket[o] # new_ticket[h]

(* A ticket created under a key is the one that the key's row names.        *)
TicketsHaveKeys ==
    \A i \in Tickets : ticket[i] # Nil /\ ticket[i].key # Nil =>
       stored[<<TenantOf[ticket[i].body], ticket[i].key>>]
          = [hash |-> ticket[i].body, response |-> i]

(* Requests of tenant t that the quota has let pass and that are not over.  *)
Admitted(t) == {h \in Handlers : /\ pc[h] \in InTransaction \union {"depth", "shed", "acquire"}
                                 /\ TenantOf[req[h].body] = t}

(* The tickets that wait and those that may yet be inserted.                *)
QuotaCount ==
    \A t \in Tenants :
       /\ IsFiniteSet(Waiting(t))
       /\ Cardinality(Waiting(t)) + Cardinality(Admitted(t))
             < MaxInFlight + Cardinality(Handlers)

(* The inductive invariant. *)
IInv ==
    /\ TypeOK
    /\ DraftsFollowTheCode
    /\ ReservedKeysAreFree
    /\ NewTicketsAreFree
    /\ KeysHaveTickets
    /\ TicketsHaveKeys
    /\ RepliesAgree
    /\ QuotaCount
=============================================================================
