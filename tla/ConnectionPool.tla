--------------------------- MODULE ConnectionPool ---------------------------
(***************************************************************************)
(* ConnectionPool of websocket_connection.cpp: the map connections_ from   *)
(* connection ids to WebSocketConnection objects and the index             *)
(* user_to_connection_ from users to ids.  Every operation runs under the  *)
(* pool's mutex and is one action; logging in is two, because              *)
(* handle_authentication() names the connection outside the mutex and then *)
(* registers the user.  std::map::operator[] in find_by_user() inserts a   *)
(* null pointer for an id that is not there: a ghost, whose use is a fault.*)
(***************************************************************************)
EXTENDS Integers, FiniteSets

CONSTANTS Ids,              \* connection ids (truncated socket addresses)
          Users,
          NoUser,           \* the empty user_id_
          MAX_CONNECTIONS

ASSUME IdsAssumption == IsFiniteSet(Ids)
ASSUME UsersAssumption == NoUser \notin Users
ASSUME MaxAssumption == MAX_CONNECTIONS \in Nat

NoId == "no id"
ASSUME NoIdAssumption == NoId \notin Ids

VARIABLES
  connections_,         \* per id: "absent", "ghost" or "live"
  user_id_,             \* per id: the user of its live object, or NoUser
  user_to_connection_,  \* per user: an id, or NoId
  naming,               \* per id: the user about to be registered, or NoUser
  fault,                \* a null pointer was dereferenced
  delivered,            \* history: <<addressee, user of the connection>>
  closed,               \* history: users one of whose connections has gone
  used                  \* history: what callers did beyond the ordinary

vars == <<connections_, user_id_, user_to_connection_, naming, fault, delivered,
          closed, used>>

(* "reauth": a connection logs in again, perhaps as another user;          *)
(* "cleanup": some thread calls cleanup_inactive();                        *)
(* "collision": a new connection gets the id of one that is still open.    *)
Extras == {"reauth", "cleanup", "collision"}

Live  == {id \in Ids : connections_[id] = "live"}
Ghost == {id \in Ids : connections_[id] = "ghost"}

TypeOK ==
  /\ connections_ \in [Ids -> {"absent", "ghost", "live"}]
  /\ user_id_ \in [Ids -> Users \cup {NoUser}]
  /\ user_to_connection_ \in [Users -> Ids \cup {NoId}]
  /\ naming \in [Ids -> Users \cup {NoUser}]
  /\ fault \in BOOLEAN
  /\ delivered \subseteq Users \X (Users \cup {NoUser})
  /\ closed \subseteq Users
  /\ used \subseteq Extras

Init ==
  /\ connections_ = [id \in Ids |-> "absent"]
  /\ user_id_ = [id \in Ids |-> NoUser]
  /\ user_to_connection_ = [u \in Users |-> NoId]
  /\ naming = [id \in Ids |-> NoUser]
  /\ fault = FALSE
  /\ delivered = {}
  /\ closed = {}
  /\ used = {}

----------------------------------------------------------------------------
(* connections_.size() counts ghosts too. *)
Total == Cardinality(Live \cup Ghost)

(* Mutant: the limit is compared with <=.                                  *)
create_one_more(id) ==
  /\ ~fault /\ Total <= MAX_CONNECTIONS
  /\ used' = IF connections_[id] = "live" THEN used \cup {"collision"} ELSE used
  /\ connections_' = [connections_ EXCEPT ![id] = "live"]
  /\ user_id_' = [user_id_ EXCEPT ![id] = NoUser]
  /\ UNCHANGED <<user_to_connection_, naming, fault, delivered, closed>>

(* A full pool refuses; an id already there is overwritten.                *)
create_connection(id) ==
  /\ ~fault /\ Total < MAX_CONNECTIONS
  /\ used' = IF connections_[id] = "live" THEN used \cup {"collision"} ELSE used
  /\ connections_' = [connections_ EXCEPT ![id] = "live"]
  /\ user_id_' = [user_id_ EXCEPT ![id] = NoUser]
  /\ UNCHANGED <<user_to_connection_, naming, fault, delivered, closed>>

(* handle_authentication(): conn->set_user_id(user), without the mutex.    *)
set_user_id(id, u) ==
  /\ ~fault /\ id \in Live /\ naming[id] = NoUser
  /\ used' = IF user_id_[id] # NoUser THEN used \cup {"reauth"} ELSE used
  /\ user_id_' = [user_id_ EXCEPT ![id] = u]
  /\ naming' = [naming EXCEPT ![id] = u]
  /\ UNCHANGED <<connections_, user_to_connection_, fault, delivered, closed>>

(* Mutant: the user is stored where the connection id belongs; both are    *)
(* strings.                                                                *)
register_swapped(id) ==
  /\ ~fault /\ naming[id] # NoUser
  /\ user_to_connection_' = [user_to_connection_ EXCEPT ![naming[id]] = naming[id]]
  /\ naming' = [naming EXCEPT ![id] = NoUser]
  /\ UNCHANGED <<connections_, user_id_, fault, delivered, closed, used>>

(* Mutant: an entry is changed if it is there, and never inserted.         *)
register_known(id) ==
  /\ ~fault /\ naming[id] # NoUser
  /\ user_to_connection_' = [u \in Users |->
       IF u = naming[id] /\ user_to_connection_[u] # NoId THEN id ELSE user_to_connection_[u]]
  /\ naming' = [naming EXCEPT ![id] = NoUser]
  /\ UNCHANGED <<connections_, user_id_, fault, delivered, closed, used>>

register_user(id) ==
  /\ ~fault /\ naming[id] # NoUser
  /\ user_to_connection_' = [user_to_connection_ EXCEPT ![naming[id]] = id]
  /\ naming' = [naming EXCEPT ![id] = NoUser]
  /\ UNCHANGED <<connections_, user_id_, fault, delivered, closed, used>>

(* Mutant: the index is left alone.                                        *)
EraseKeepingIndex(S) ==
  /\ connections_' = [id \in Ids |-> IF id \in S THEN "absent" ELSE connections_[id]]
  /\ user_id_' = [id \in Ids |-> IF id \in S THEN NoUser ELSE user_id_[id]]
  /\ closed' = closed \cup ({user_id_[id] : id \in S} \ {NoUser})
  /\ UNCHANGED user_to_connection_

(* What erasing the connections in S, each with the index entry of its     *)
(* user, leaves behind: the entry goes whatever connection it points to.   *)
Erase(S) ==
  /\ connections_' = [id \in Ids |-> IF id \in S THEN "absent" ELSE connections_[id]]
  /\ user_id_' = [id \in Ids |-> IF id \in S THEN NoUser ELSE user_id_[id]]
  /\ user_to_connection_' =
       [u \in Users |-> IF \E id \in S : user_id_[id] = u THEN NoId ELSE user_to_connection_[u]]
  /\ closed' = closed \cup ({user_id_[id] : id \in S} \ {NoUser})

(* The socket closes; its own handlers are done by then.  The user_id of a *)
(* ghost is read through a null pointer.                                   *)
remove_connection(id) ==
  /\ ~fault /\ naming[id] = NoUser
  /\ \/ id \in Live /\ Erase({id}) /\ UNCHANGED fault
     \/ /\ id \in Ghost /\ fault' = TRUE
        /\ UNCHANGED <<connections_, user_id_, user_to_connection_, closed>>
  /\ UNCHANGED <<naming, delivered, used>>

(* The id the index gives is looked up with operator[].                    *)
FindInserts(u) ==
  connections_' = [id \in Ids |->
                     IF id = user_to_connection_[u] /\ connections_[id] = "absent"
                     THEN "ghost" ELSE connections_[id]]

(* find_by_user() of get_user_status().                                    *)
find_by_user(u) ==
  /\ ~fault
  /\ FindInserts(u)
  /\ UNCHANGED <<user_id_, user_to_connection_, naming, fault, delivered, closed, used>>

(* broadcast_to_user() and MessengerServer::send_to_user(): the message is *)
(* queued on the connection found, whoever its user is.                    *)
broadcast_to_user(u) ==
  /\ ~fault
  /\ FindInserts(u)
  /\ delivered' = delivered \cup {<<u, user_id_[id]>> : id \in Live \cap {user_to_connection_[u]}}
  /\ UNCHANGED <<user_id_, user_to_connection_, naming, fault, closed, used>>

(* broadcast_except() asks every entry but one whether it is connected.    *)
broadcast_except(id) ==
  /\ ~fault
  /\ fault' = (Ghost \ {id} # {})
  /\ UNCHANGED <<connections_, user_id_, user_to_connection_, naming, delivered, closed, used>>

(* cleanup_inactive() asks every entry for its last activity and erases    *)
(* the ones that were silent too long.                                     *)
cleanup_inactive(S) ==
  /\ ~fault /\ used' = used \cup {"cleanup"}
  /\ \/ Ghost = {} /\ Erase(S) /\ UNCHANGED fault
     \/ /\ Ghost # {} /\ fault' = TRUE
        /\ UNCHANGED <<connections_, user_id_, user_to_connection_, closed>>
  /\ UNCHANGED <<naming, delivered>>

Next ==
  \/ \E id \in Ids : \/ create_connection(id) \/ register_user(id)
                     \/ remove_connection(id) \/ broadcast_except(id)
  \/ \E id \in Ids, u \in Users : set_user_id(id, u)
  \/ \E u \in Users : find_by_user(u) \/ broadcast_to_user(u)
  \/ \E S \in SUBSET Live : cleanup_inactive(S)

Spec == Init /\ [][Next]_vars

----------------------------------------------------------------------------
(* Properties *)

(* The pool never holds more than MAX_CONNECTIONS connections, although    *)
(* ghosts inserted by find_by_user() are not checked against the limit.    *)
CapacityRespected == Cardinality(Live) <= MAX_CONNECTIONS

(* A message to a user is queued on a connection of that user, and on no   *)
(* stranger's, although connection ids are reused and the index is cleared *)
(* apart from the connections.  Holds as long as a connection logs in      *)
(* once, ids do not collide and nobody cleans up.                          *)
DeliveredToOwner == used = {} => \A d \in delivered : d[1] = d[2]

(* No operation dereferences a null entry of connections_, under the same  *)
(* discipline.                                                             *)
NoNullEntry == used = {} => ~fault

(* A user who logged in on a connection that is still open can be found,   *)
(* on that connection or on a later one, until one of the user's           *)
(* connections closes: remove_connection() then takes the index entry      *)
(* away even if it points to another connection.                           *)
FoundUntilOneCloses ==
  used = {} =>
    \A id \in Live : user_id_[id] \in Users \ closed /\ naming[id] = NoUser =>
      \E c \in Live : user_to_connection_[user_id_[id]] = c /\ user_id_[c] = user_id_[id]

----------------------------------------------------------------------------
(* Parts of the inductive invariants of ConnectionPoolProofs *)

(* The index points to live connections of the very user, a connection     *)
(* about to be registered is live, and there is no ghost.                  *)
IndexSound ==
  /\ Ghost = {}
  /\ \A u \in Users : user_to_connection_[u] # NoId =>
       user_to_connection_[u] \in Live /\ user_id_[user_to_connection_[u]] = u
  /\ \A id \in Ids : naming[id] # NoUser => id \in Live /\ user_id_[id] = naming[id]
=============================================================================
