------------------------- MODULE MCMessengerServer -------------------------
(* Instances of MessengerServer for TLC. *)
EXTENDS MessengerServer, TLC

CONSTANTS c1, c2, c3, w1, w2, ann, bob

(* c1 and c3 share a worker. *)
Pinned == [id \in Ids |-> IF id = c2 THEN w2 ELSE w1]

(* Two users on three sockets: the pool fills up, users change. *)
Presence == [ids |-> {c1, c2, c3}, names |-> {ann, bob}, words |-> {},
             messages |-> 0, calls |-> 4, faults |-> 1]
(* One user comes back again and again, on one or two connections. *)
Comeback == [ids |-> {c1, c2}, names |-> {ann}, words |-> {},
             messages |-> 0, calls |-> 6, faults |-> 1]
(* Two messages to one queue, from one connection or from two. *)
Chat     == [ids |-> {c1, c2}, names |-> {bob}, words |-> {1},
             messages |-> 2, calls |-> 4, faults |-> 1]
(* One message of any shape, to oneself or to another user. *)
Shapes   == [ids |-> {c1, c2}, names |-> {ann, bob}, words |-> {0, 1, 2},
             messages |-> 1, calls |-> 2, faults |-> 1]

AllBudgets == {Presence, Comeback, Chat, Shapes}
OneLogin   == {[ids |-> {c1, c2}, names |-> {ann}, words |-> {},
                 messages |-> 0, calls |-> 4, faults |-> 0]}
=============================================================================
