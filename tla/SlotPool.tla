----------------------------- MODULE SlotPool -----------------------------
(***************************************************************************)
(* What acquire_connection() promises its callers, without contexts,       *)
(* mutex, reconnection or outages: a free slot is leased to one client,    *)
(* which holds no other, and comes back whole.  RedisClient implements it. *)
(***************************************************************************)
CONSTANTS Clients, Slots, NoSlot

VARIABLES lease,   \* per client: its slot, or NoSlot
          free     \* the slots nobody has

Init == /\ lease = [c \in Clients |-> NoSlot]
        /\ free = Slots

Lease(c, s) ==
  /\ lease[c] = NoSlot /\ s \in free
  /\ lease' = [lease EXCEPT ![c] = s]
  /\ free' = free \ {s}

Return(c) ==
  /\ lease[c] # NoSlot
  /\ lease' = [lease EXCEPT ![c] = NoSlot]
  /\ free' = free \cup {lease[c]}

Next == \E c \in Clients : Return(c) \/ \E s \in Slots : Lease(c, s)

Spec == Init /\ [][Next]_<<lease, free>>
=============================================================================
