------------------------ MODULE ConnectionPoolProofs ------------------------
(***************************************************************************)
(* Theorems about ConnectionPool for any ids, users and capacity.          *)
(***************************************************************************)
EXTENDS ConnectionPool, FiniteSetTheorems, TLAPS

(* Erasing connections leaves maps of the same types.                      *)
LEMMA EraseKeepsTypes ==
  ASSUME TypeOK, NEW S, Erase(S)
  PROVE  /\ connections_' \in [Ids -> {"absent", "ghost", "live"}]
         /\ user_id_' \in [Ids -> Users \cup {NoUser}]
         /\ user_to_connection_' \in [Users -> Ids \cup {NoId}]
         /\ S \subseteq Ids => closed' \subseteq Users
<1>1. connections_' \in [Ids -> {"absent", "ghost", "live"}]
  BY DEF TypeOK, Erase
<1>2. user_id_' \in [Ids -> Users \cup {NoUser}]
  BY DEF TypeOK, Erase
<1>3. user_to_connection_' \in [Users -> Ids \cup {NoId}]
  BY DEF TypeOK, Erase
<1>4. S \subseteq Ids => closed' \subseteq Users
  BY DEF TypeOK, Erase
<1> QED
  BY <1>1, <1>2, <1>3, <1>4

(* Every operation keeps the types of the maps.                            *)
LEMMA TypeStep ==
  ASSUME TypeOK, [Next]_vars
  PROVE  TypeOK'
<1> USE DEF TypeOK, Extras
<1>1. ASSUME NEW id \in Ids, create_connection(id) PROVE TypeOK'
  BY <1>1 DEF create_connection
<1>2. ASSUME NEW id \in Ids, register_user(id) PROVE TypeOK'
  <2>1. user_to_connection_' \in [Users -> Ids \cup {NoId}]
    BY <1>2 DEF register_user
  <2>2. naming' \in [Ids -> Users \cup {NoUser}]
    BY <1>2 DEF register_user
  <2> QED
    BY <1>2, <2>1, <2>2 DEF register_user
<1>3. ASSUME NEW id \in Ids, remove_connection(id) PROVE TypeOK'
  <2>0. {id} \subseteq Ids
    BY <1>3
  <2>1. CASE Erase({id})
    <3>1. /\ connections_' \in [Ids -> {"absent", "ghost", "live"}]
          /\ user_id_' \in [Ids -> Users \cup {NoUser}]
          /\ user_to_connection_' \in [Users -> Ids \cup {NoId}]
          /\ closed' \subseteq Users
      BY <2>0, <2>1, EraseKeepsTypes
    <3> QED
      BY <1>3, <3>1 DEF remove_connection
  <2>2. CASE ~Erase({id})
    BY <1>3, <2>2 DEF remove_connection
  <2> QED
    BY <2>1, <2>2
<1>4. ASSUME NEW id \in Ids, broadcast_except(id) PROVE TypeOK'
  BY <1>4 DEF broadcast_except
<1>5. ASSUME NEW id \in Ids, NEW u \in Users, set_user_id(id, u) PROVE TypeOK'
  BY <1>5 DEF set_user_id
<1>6. ASSUME NEW u \in Users, find_by_user(u) PROVE TypeOK'
  BY <1>6 DEF find_by_user, FindInserts
<1>7. ASSUME NEW u \in Users, broadcast_to_user(u) PROVE TypeOK'
  BY <1>7 DEF broadcast_to_user, FindInserts, Live
<1>8. ASSUME NEW S \in SUBSET Live, cleanup_inactive(S) PROVE TypeOK'
  <2>1. CASE Erase(S)
    BY <1>8, <2>1, EraseKeepsTypes DEF cleanup_inactive, Live
  <2>2. CASE ~Erase(S)
    BY <1>8, <2>2 DEF cleanup_inactive
  <2> QED
    BY <2>1, <2>2
<1>9. CASE UNCHANGED vars
  BY <1>9 DEF vars
<1> QED
  BY <1>1, <1>2, <1>3, <1>4, <1>5, <1>6, <1>7, <1>8, <1>9 DEF Next

(* The maps keep their types under every operation of the pool.            *)
THEOREM TypeCorrect == Spec => []TypeOK
<1>1. Init => TypeOK
  BY DEF Init, TypeOK
<1> QED
  BY <1>1, TypeStep, PTL DEF Spec

(* Only create_connection() adds a live connection.                        *)
LEMMA OthersAddNone ==
  ASSUME TypeOK, [Next]_vars, \A id \in Ids : ~create_connection(id)
  PROVE  Live' \subseteq Live
<1> USE DEF TypeOK, Live
<1>1. ASSUME NEW id \in Ids, remove_connection(id) PROVE Live' \subseteq Live
  BY <1>1 DEF remove_connection, Erase
<1>2. ASSUME NEW u \in Users, find_by_user(u) \/ broadcast_to_user(u) PROVE Live' \subseteq Live
  BY <1>2 DEF find_by_user, broadcast_to_user, FindInserts
<1>3. ASSUME NEW S \in SUBSET Live, cleanup_inactive(S) PROVE Live' \subseteq Live
  BY <1>3 DEF cleanup_inactive, Erase
<1>4. ASSUME NEW id \in Ids, register_user(id) \/ broadcast_except(id) PROVE Live' \subseteq Live
  BY <1>4 DEF register_user, broadcast_except
<1>5. ASSUME NEW id \in Ids, NEW u \in Users, set_user_id(id, u) PROVE Live' \subseteq Live
  BY <1>5 DEF set_user_id
<1>6. CASE UNCHANGED vars
  BY <1>6 DEF vars
<1> QED
  BY <1>1, <1>2, <1>3, <1>4, <1>5, <1>6 DEF Next

(* The pool never holds more than MAX_CONNECTIONS connections, whatever    *)
(* its callers do.                                                         *)
THEOREM CapacityHolds == Spec => []CapacityRespected
<1>0. ASSUME NEW S, S \subseteq Ids PROVE IsFiniteSet(S) /\ Cardinality(S) \in Nat
  BY <1>0, IdsAssumption, FS_Subset, FS_CardinalityType
<1>1. Init => CapacityRespected
  <2> SUFFICES ASSUME Init PROVE CapacityRespected
    OBVIOUS
  <2>1. Live = {}
    BY DEF Init, Live
  <2> QED
    BY <2>1, FS_EmptySet, MaxAssumption DEF CapacityRespected
<1>2. TypeOK /\ CapacityRespected /\ [Next]_vars => CapacityRespected'
  <2> SUFFICES ASSUME TypeOK, CapacityRespected, [Next]_vars PROVE CapacityRespected'
    OBVIOUS
  <2>0. Live \subseteq Ids /\ Live' \subseteq Ids /\ Live \cup Ghost \subseteq Ids
    BY DEF Live, Ghost
  <2>1. ASSUME NEW id \in Ids, create_connection(id) PROVE CapacityRespected'
    <3>1. Live' = Live \cup {id}
      BY <2>1 DEF create_connection, TypeOK, Live
    <3>2. Cardinality(Live) <= Cardinality(Live \cup Ghost)
      BY <1>0, <2>0, FS_Subset
    <3>3. Cardinality(Live \cup {id}) <= Cardinality(Live) + 1
      <4>1. Cardinality(Live \cup {id}) =
              IF id \in Live THEN Cardinality(Live) ELSE Cardinality(Live) + 1
        BY <1>0, <2>0, FS_AddElement
      <4> QED
        BY <1>0, <2>0, <4>1
    <3>4. Cardinality(Live \cup Ghost) < MAX_CONNECTIONS
      BY <2>1 DEF create_connection, Total
    <3>5. /\ Cardinality(Live) \in Nat /\ Cardinality(Live \cup Ghost) \in Nat
          /\ Cardinality(Live \cup {id}) \in Nat
      BY <1>0, <2>0, <3>1
    <3> QED
      BY <3>1, <3>2, <3>3, <3>4, <3>5, MaxAssumption DEF CapacityRespected
  <2>2. CASE \A id \in Ids : ~create_connection(id)
    <3>1. Live' \subseteq Live
      BY <2>2, OthersAddNone
    <3>2. Cardinality(Live') <= Cardinality(Live)
      BY <1>0, <2>0, <3>1, FS_Subset
    <3> QED
      BY <1>0, <2>0, <3>2, MaxAssumption DEF CapacityRespected
  <2> QED
    BY <2>1, <2>2
<1> QED
  BY <1>1, <1>2, TypeCorrect, PTL DEF Spec

(* With callers that log a connection in once, do not reuse the id of an   *)
(* open connection and do not clean up, every message reaches a connection *)
(* of its addressee, no operation meets a null entry, and a user is found  *)
(* until one of the user's connections closes.                             *)
LEMMA Discipline ==
  Spec => [](DeliveredToOwner /\ NoNullEntry /\ FoundUntilOneCloses)
<1> DEFINE Reached == \A d \in delivered : d[1] = d[2]
           Found == \A id \in Live :
             user_id_[id] \in Users \ closed /\ naming[id] = NoUser =>
               user_to_connection_[user_id_[id]] # NoId
           DInv == used = {} => IndexSound /\ Reached /\ ~fault /\ Found
<1>1. Init => DInv
  BY DEF Init, IndexSound, Ghost, Live
<1>2. TypeOK /\ DInv /\ [Next]_vars => DInv'
  <2> SUFFICES ASSUME TypeOK, [Next]_vars, used' = {}, DInv
               PROVE  (IndexSound /\ Reached /\ ~fault /\ Found)'
    OBVIOUS
  <2> DEFINE Goal == (IndexSound /\ Reached /\ ~fault /\ Found)'
  <2>0. used = {} /\ IndexSound /\ Reached /\ ~fault /\ Found
    <3>1. used \subseteq used'
      BY DEF Next, vars, create_connection, register_user, remove_connection, broadcast_except,
             set_user_id, find_by_user, broadcast_to_user, cleanup_inactive
    <3> QED
      BY <3>1
  <2> USE <2>0, UsersAssumption, NoIdAssumption DEF TypeOK, IndexSound, Live, Ghost
  <2>1. ASSUME NEW id \in Ids, create_connection(id) PROVE Goal
    <3>1. connections_[id] # "live"
      BY <2>1 DEF create_connection
    <3> QED
      BY <2>1, <3>1 DEF create_connection
  <2>2. ASSUME NEW id \in Ids, register_user(id) PROVE Goal
    BY <2>2 DEF register_user
  <2>3. ASSUME NEW id \in Ids, remove_connection(id) PROVE Goal
    BY <2>3 DEF remove_connection, Erase
  <2>4. ASSUME NEW id \in Ids, broadcast_except(id) PROVE Goal
    BY <2>4 DEF broadcast_except
  <2>5. ASSUME NEW id \in Ids, NEW u \in Users, set_user_id(id, u) PROVE Goal
    <3>1. user_id_[id] = NoUser
      BY <2>5 DEF set_user_id
    <3> QED
      BY <2>5, <3>1 DEF set_user_id
  <2>6. ASSUME NEW u \in Users, FindInserts(u) PROVE connections_' = connections_
    BY <2>6 DEF FindInserts
  <2>7. ASSUME NEW u \in Users, find_by_user(u) PROVE Goal
    BY <2>6, <2>7 DEF find_by_user
  <2>8. ASSUME NEW u \in Users, broadcast_to_user(u) PROVE Goal
    BY <2>6, <2>8 DEF broadcast_to_user
  <2>9. \A S : ~cleanup_inactive(S)
    BY DEF cleanup_inactive
  <2>10. CASE UNCHANGED vars
    BY <2>10 DEF vars
  <2> QED
    BY <2>1, <2>2, <2>3, <2>4, <2>5, <2>7, <2>8, <2>9, <2>10 DEF Next
<1>3. DInv => DeliveredToOwner /\ NoNullEntry
  BY DEF DeliveredToOwner, NoNullEntry
<1>4. TypeOK /\ DInv => FoundUntilOneCloses
  BY DEF TypeOK, FoundUntilOneCloses, IndexSound, Live
<1> QED
  BY <1>1, <1>2, <1>3, <1>4, TypeCorrect, PTL DEF Spec

(* What broadcast_to_user() and send_to_user() queue for a user lies on a  *)
(* connection of that user, with one login per connection, ids that do not *)
(* collide and no cleanup.                                                 *)
THEOREM DisciplinedDelivery == Spec => []DeliveredToOwner
  BY Discipline, PTL

(* Under the same discipline find_by_user() never inserts a null pointer,  *)
(* so that remove_connection() and the broadcasts dereference none.        *)
THEOREM NoNullDereferenced == Spec => []NoNullEntry
  BY Discipline, PTL

(* Under the same discipline a user is found on an open connection from    *)
(* register_user() on, until remove_connection() takes the entry away with *)
(* one of the user's connections.                                          *)
THEOREM FoundWhileOpen == Spec => []FoundUntilOneCloses
  BY Discipline, PTL
=============================================================================
