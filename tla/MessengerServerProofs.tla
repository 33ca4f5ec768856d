------------------------ MODULE MessengerServerProofs ------------------------
(***************************************************************************)
(* Theorems about MessengerServer for any sockets, users, workers, pool    *)
(* size and budget.  The server is shown to use its pool as ConnectionPool *)
(* allows, so that what ConnectionPoolProofs shows of the pool holds in    *)
(* the server too.                                                         *)
(***************************************************************************)
EXTENDS MessengerServer, FiniteSetTheorems, TLAPS

PoolProofs == INSTANCE ConnectionPoolProofs

----------------------------------------------------------------------------
(* What the helpers of the handlers do *)

LEMMA SeqElement ==
  ASSUME NEW S, NEW s \in Seq(S), NEW i \in 1..Len(s)
  PROVE  s[i] \in S /\ Len(s) \in Nat
  OBVIOUS

LEMMA GotoFacts ==
  ASSUME job \in [Workers -> Jobs], NEW w \in Workers, NEW label \in PCs, Goto(w, label)
  PROVE  /\ job' \in [Workers -> Jobs]
         /\ job'[w].at = label /\ job'[w].id = job[w].id
         /\ job'[w].user = job[w].user /\ job'[w].m = job[w].m
         /\ \A v \in Workers \ {w} : job'[v] = job[v]
  BY DEF Goto, Jobs

LEMMA EnterFacts ==
  ASSUME job \in [Workers -> Jobs], NEW id \in Ids, NEW label \in PCs,
         NEW u \in Users \cup {NoUser}, NEW m \in 0..MaxMessages, Enter(id, label, u, m)
  PROVE  /\ job' \in [Workers -> Jobs]
         /\ job'[WorkerOf[id]].at = label /\ job'[WorkerOf[id]].id = id
         /\ job'[WorkerOf[id]].user = u /\ job'[WorkerOf[id]].m = m
         /\ \A v \in Workers \ {WorkerOf[id]} : job'[v] = job[v]
  BY WorkerOfAssumption DEF Enter, Jobs

LEMMA ReturnFacts ==
  ASSUME job \in [Workers -> Jobs], NEW w \in Workers, Return(w)
  PROVE  /\ job' \in [Workers -> Jobs]
         /\ job'[w].at = "idle"
         /\ \A v \in Workers \ {w} : job'[v] = job[v]
  BY MessagesAssumption DEF Return, Jobs, Idle, PCs

LEMMA QueueFacts ==
  ASSUME outgoing_queue_ \in [Ids -> Seq(Answers)], NEW id \in Ids,
         NEW type \in {"error", "auth_success", "message_delivered"}, NEW m \in 0..MaxMessages,
         queue_message(id, type, m)
  PROVE  /\ outgoing_queue_' \in [Ids -> Seq(Answers)]
         /\ \A i \in Ids \ {id} : outgoing_queue_'[i] = outgoing_queue_[i]
<1>1. [type |-> type, m |-> m] \in Answers
  BY DEF Answers
<1>2. Append(outgoing_queue_[id], [type |-> type, m |-> m]) \in Seq(Answers)
  BY <1>1
<1> QED
  BY <1>2 DEF queue_message

Faults == [{"lost", "repeated"} -> 0..budget.faults]

(* One more fault of either kind stays within the bound.                   *)
LEMMA FaultFacts ==
  ASSUME budget \in Budgets, faults \in Faults, FaultsLeft, NEW kind \in {"lost", "repeated"},
         faults' = [faults EXCEPT ![kind] = @ + 1]
  PROVE  /\ faults' \in [{"lost", "repeated"} -> 0..budget.faults]
         /\ faults'[kind] = faults[kind] + 1
         /\ \A k \in {"lost", "repeated"} \ {kind} : faults'[k] = faults[k]
<1>1. budget.faults \in Nat
  BY BudgetsAssumption
<1>2. faults["lost"] \in Nat /\ faults["repeated"] \in Nat
  BY <1>1 DEF Faults
<1>3. faults[kind] + 1 \in 0..budget.faults
  BY <1>1, <1>2 DEF FaultsLeft, Faults
<1> QED
  BY <1>3 DEF Faults

LEMMA RedisFacts ==
  ASSUME budget \in Budgets, faults \in Faults, store \in Stores, NEW after \in Stores,
         Redis(after)
  PROVE  /\ redis = "up" /\ redis' = redis
         /\ store' \in Stores
         /\ faults' \in [{"lost", "repeated"} -> 0..budget.faults]
         /\ faults'["lost"] = 0 => faults["lost"] = 0 /\ store' = after
         /\ \/ store' = after /\ faults' = faults
            \/ store' = store /\ faults'["lost"] = faults["lost"] + 1
                              /\ faults'["repeated"] = faults["repeated"]
<1>1. CASE store' = after /\ faults' = faults
  BY <1>1 DEF Redis, Faults
<1>2. CASE ~(store' = after /\ faults' = faults)
  <2>1. FaultsLeft /\ faults' = [faults EXCEPT !["lost"] = @ + 1] /\ store' = store
    BY <1>2 DEF Redis
  <2>2. /\ faults' \in [{"lost", "repeated"} -> 0..budget.faults]
        /\ faults'["lost"] = faults["lost"] + 1
        /\ faults'["repeated"] = faults["repeated"]
    BY <2>1, FaultFacts
  <2>3. budget.faults \in Nat
    BY BudgetsAssumption
  <2>4. faults["lost"] \in Nat
    BY <2>3 DEF Faults
  <2> QED
    BY <2>1, <2>2, <2>4 DEF Redis
<1> QED
  BY <1>1, <1>2

----------------------------------------------------------------------------
(* Types, and the pool *)

(* What keeps the types inductive: a busy worker runs a handler of one of  *)
(* its own sockets, for a user and a message where the step needs one, and *)
(* the messages received stay within the bound.                            *)
JobSound ==
  /\ \A w \in Workers :
       /\ job[w].at # "idle" => job[w].id \in Ids /\ WorkerOf[job[w].id] = w
       /\ job[w].at \in {"lpush", "expire"} => job[w].user \in Users /\ job[w].m \in 1..Len(mail)
       /\ job[w].at \in {"register", "online", "offline"} => job[w].user \in Users
  /\ Len(mail) <= budget.messages

TInv == TypeOK /\ JobSound

(* The two instances of ConnectionPool are the same.                       *)
LEMMA SameStep == [Pool!Next]_Pool!vars => [PoolProofs!Next]_PoolProofs!vars
  BY DEF Pool!Next, PoolProofs!Next, Pool!vars, PoolProofs!vars, Pool!NoId, PoolProofs!NoId,
    Pool!Live, PoolProofs!Live, Pool!Ghost, PoolProofs!Ghost, Pool!Total, PoolProofs!Total,
    Pool!Cardinality, PoolProofs!Cardinality, Pool!Erase, PoolProofs!Erase,
    Pool!create_connection, PoolProofs!create_connection,
    Pool!set_user_id, PoolProofs!set_user_id, Pool!register_user, PoolProofs!register_user,
    Pool!remove_connection, PoolProofs!remove_connection,
    Pool!FindInserts, PoolProofs!FindInserts, Pool!find_by_user, PoolProofs!find_by_user,
    Pool!broadcast_to_user, PoolProofs!broadcast_to_user,
    Pool!broadcast_except, PoolProofs!broadcast_except,
    Pool!cleanup_inactive, PoolProofs!cleanup_inactive

LEMMA SameTypes == Pool!TypeOK <=> PoolProofs!TypeOK
  BY DEF Pool!TypeOK, PoolProofs!TypeOK, Pool!NoId, PoolProofs!NoId, Pool!Extras, PoolProofs!Extras

(* Every step of the server is a step of the pool or leaves it alone.      *)
LEMMA PoolStep ==
  ASSUME TInv, [Next]_vars
  PROVE  [Pool!Next]_Pool!vars
<1> USE DEF poolVars, Pool!vars
<1>0. /\ budget.ids \subseteq Ids /\ budget.names \subseteq Users
      /\ \A w \in Workers : job[w].at # "idle" => job[w].id \in Ids
  BY BudgetsAssumption DEF TInv, TypeOK, JobSound
<1>1. ASSUME NEW id \in budget.ids, on_client_connected(id) PROVE [Pool!Next]_Pool!vars
  BY <1>0, <1>1 DEF on_client_connected, Pool!Next
<1>2. ASSUME NEW id \in budget.ids, NEW u \in budget.names, handle_authentication(id, u)
      PROVE  [Pool!Next]_Pool!vars
  BY <1>0, <1>2 DEF handle_authentication, Pool!Next
<1>3. ASSUME NEW id \in budget.ids,
             \/ on_client_disconnected(id) \/ RefuseMessage(id)
             \/ handle_read_receipt(id) \/ handle_typing_indicator(id)
             \/ \E u \in budget.names, k \in budget.words : handle_message(id, u, k)
      PROVE  UNCHANGED Pool!vars
  BY <1>3 DEF on_client_disconnected, RefuseMessage, handle_read_receipt, handle_typing_indicator,
              handle_message
<1>4. ASSUME NEW w \in Workers, register_user(w) PROVE [Pool!Next]_Pool!vars
  BY <1>0, <1>4 DEF register_user, At, Pool!Next
<1>5. ASSUME NEW w \in Workers, remove_connection(w) PROVE [Pool!Next]_Pool!vars
  BY <1>0, <1>5 DEF remove_connection, At, Pool!Next
<1>6. ASSUME NEW w \in Workers,
             \/ mark_user_online(w) \/ LockRatchets(w) \/ AuthSuccess(w) \/ mark_user_offline(w)
             \/ PublishOrHset(w) \/ lpush(w) \/ expire(w) \/ Flush(w) \/ CommandOnNull(w)
      PROVE  UNCHANGED Pool!vars
  BY <1>6 DEF mark_user_online, LockRatchets, AuthSuccess, mark_user_offline, PublishOrHset,
              lpush, expire, Flush, CommandOnNull
<1>7. CASE start \/ stop \/ (\E u \in Users : PresenceLapses(u) \/ QueueLapses(u))
  BY <1>7 DEF start, stop, PresenceLapses, QueueLapses
<1>8. CASE UNCHANGED vars
  BY <1>8 DEF vars
<1> QED
  BY <1>1, <1>2, <1>3, <1>4, <1>5, <1>6, <1>7, <1>8 DEF Next, Receive, Step, Login

LEMMA PoolTypes ==
  ASSUME TInv, [Next]_vars
  PROVE  (Pool!TypeOK)'
<1>1. PoolProofs!TypeOK /\ [PoolProofs!Next]_PoolProofs!vars
  BY PoolStep, SameStep, SameTypes DEF TInv, TypeOK
<1>2. (PoolProofs!TypeOK)'
  BY <1>1, PoolProofs!TypeStep, PoolAssumption
  DEF Pool!NoId, PoolProofs!NoId, PoolProofs!IsFiniteSet, IsFiniteSet
<1>3. (Pool!TypeOK)' <=> (PoolProofs!TypeOK)'
  BY DEF Pool!TypeOK, PoolProofs!TypeOK, Pool!NoId, PoolProofs!NoId, Pool!Extras, PoolProofs!Extras
<1> QED
  BY <1>2, <1>3

(* What the handlers find in their own job, in typed form.                 *)
LEMMA JobTypes ==
  ASSUME TInv
  PROVE  /\ budget \in Budgets /\ faults \in Faults
         /\ budget.ids \subseteq Ids /\ budget.names \subseteq Users
         /\ budget.words \subseteq 0..2 /\ budget.messages \in 0..MaxMessages
         /\ budget.calls \in Nat
         /\ \A w \in Workers : /\ job[w].user \in Users \cup {NoUser}
                               /\ job[w].m \in 0..MaxMessages
                               /\ job[w].at \in PCs
         /\ \A id \in Ids : user_id_[id] \in Users \cup {NoUser} /\ WorkerOf[id] \in Workers
<1>1. budget \in Budgets /\ faults \in Faults
  BY DEF TInv, TypeOK, Faults
<1>2. /\ budget.ids \subseteq Ids /\ budget.names \subseteq Users
      /\ budget.words \subseteq 0..2 /\ budget.messages \in 0..MaxMessages /\ budget.calls \in Nat
  BY <1>1, BudgetsAssumption
<1>3. \A w \in Workers : /\ job[w].user \in Users \cup {NoUser}
                         /\ job[w].m \in 0..MaxMessages /\ job[w].at \in PCs
  BY DEF TInv, TypeOK, Jobs
<1>4. \A id \in Ids : user_id_[id] \in Users \cup {NoUser} /\ WorkerOf[id] \in Workers
  BY WorkerOfAssumption DEF TInv, TypeOK, Pool!TypeOK
<1> QED
  BY <1>1, <1>2, <1>3, <1>4

(* The arguments of LPUSH are entries of a queue.                          *)
LEMMA PushedTypes ==
  ASSUME TInv, NEW m \in 1..Len(mail)
  PROVE  Pushed(m) \in Seq(Entries)
<1>0. mail[m] \in [from : Ids, to : Users, words : budget.words] /\ Len(mail) \in Nat
      /\ Len(mail) <= budget.messages
  <2>1. mail \in Seq([from : Ids, to : Users, words : budget.words])
    BY DEF TInv, TypeOK
  <2>2. Len(mail) <= budget.messages
    BY DEF TInv, JobSound
  <2> QED
    BY <2>1, <2>2, SeqElement
<1>1. mail[m].words \in 0..2 /\ m \in 1..MaxMessages
  BY <1>0, JobTypes, MessagesAssumption
<1>2. <<m, "whole">> \in Entries /\ <<m, "piece">> \in Entries
  BY <1>1 DEF Entries
<1>3. mail[m].words = 0 \/ mail[m].words = 1 \/ mail[m].words = 2
  BY <1>1
<1>4. <<>> \in Seq(Entries) /\ <<<<m, "whole">>>> \in Seq(Entries)
      /\ <<<<m, "piece">>, <<m, "piece">>>> \in Seq(Entries)
  BY <1>2
<1>5. CASE mail[m].words = 0
  BY <1>4, <1>5 DEF Pushed
<1>6. CASE mail[m].words = 1
  BY <1>4, <1>6 DEF Pushed
<1>7. CASE mail[m].words = 2
  BY <1>4, <1>7 DEF Pushed
<1> QED
  BY <1>3, <1>5, <1>6, <1>7

(* The store after each command that changes it.                           *)
LEMMA StoreTypes ==
  ASSUME TInv, NEW u \in Users
  PROVE  /\ [store EXCEPT !.online = @ \cup {u}] \in Stores
         /\ [store EXCEPT !.expiring = IF store.queue[u] = <<>> THEN @ ELSE @ \cup {u}] \in Stores
         /\ \A q \in Seq(Entries) : [store EXCEPT !.queue[u] = q \o @] \in Stores
         /\ \A q \in Seq(Entries) : [store EXCEPT !.queue[u] = q \o q \o @] \in Stores
         /\ [store EXCEPT !.queue[u] = <<>>, !.expiring = @ \ {u}] \in Stores
         /\ \A v : [store EXCEPT !.online = @ \ {v}] \in Stores
<1>1. store \in Stores
  BY DEF TInv, TypeOK
<1>2. store.queue[u] \in Seq(Entries)
  BY <1>1 DEF Stores
<1>3. \A q \in Seq(Entries) : q \o store.queue[u] \in Seq(Entries)
                              /\ q \o q \o store.queue[u] \in Seq(Entries)
  BY <1>2
<1>4. /\ [store EXCEPT !.online = @ \cup {u}] \in Stores
      /\ \A v : [store EXCEPT !.online = @ \ {v}] \in Stores
  BY <1>1 DEF Stores
<1>5. [store EXCEPT !.expiring = IF store.queue[u] = <<>> THEN @ ELSE @ \cup {u}] \in Stores
  BY <1>1 DEF Stores
<1>6. [store EXCEPT !.queue[u] = <<>>, !.expiring = @ \ {u}] \in Stores
  <2>0. <<>> \in Seq(Entries)
    OBVIOUS
  <2>1. [store EXCEPT !.queue[u] = <<>>] \in Stores
    BY <1>1, <2>0 DEF Stores
  <2>2. [store EXCEPT !.queue[u] = <<>>, !.expiring = @ \ {u}]
          = [[store EXCEPT !.queue[u] = <<>>] EXCEPT !.expiring = @ \ {u}]
    BY Zenon
  <2> QED
    BY <2>1, <2>2 DEF Stores
<1>7. ASSUME NEW q \in Seq(Entries)
      PROVE  [store EXCEPT !.queue[u] = q \o @] \in Stores
  BY <1>1, <1>3, <1>7 DEF Stores
<1>8. ASSUME NEW q \in Seq(Entries)
      PROVE  [store EXCEPT !.queue[u] = q \o q \o @] \in Stores
  BY <1>1, <1>3, <1>8 DEF Stores
<1> QED
  BY <1>4, <1>5, <1>6, <1>7, <1>8

(* Every step of the server keeps the types and the jobs sound.            *)
LEMMA TypeStep ==
  ASSUME TInv, [Next]_vars
  PROVE  TInv'
<1>0. /\ TypeOK /\ JobSound /\ job \in [Workers -> Jobs] /\ (Pool!TypeOK)'
      /\ outgoing_queue_ \in [Ids -> Seq(Answers)] /\ store \in Stores
  BY PoolTypes DEF TInv, TypeOK
<1>a. /\ {"offline", "remove", "flush", "publish", "register", "lpush"} \subseteq PCs
      /\ 0 \in 0..MaxMessages /\ NoUser \in Users \cup {NoUser}
  BY MessagesAssumption DEF PCs, CommandPCs
<1> USE DEF poolVars, connVars, histVars, redisVars, Called
<1>1. ASSUME NEW id \in budget.ids, on_client_connected(id) PROVE TInv'
  <2>1. open' \subseteq Ids /\ calls' \in 0..budget.calls
    BY <1>0, <1>1, JobTypes DEF on_client_connected, TypeOK
  <2> QED
    BY <1>0, <1>1, <2>1 DEF on_client_connected, TInv, TypeOK, JobSound
<1>2. ASSUME NEW id \in budget.ids, on_client_disconnected(id) PROVE TInv'
  <2>1. CASE id \in Live /\ user_id_[id] # NoUser
    <3>1. Enter(id, "offline", user_id_[id], 0) /\ id \in Ids /\ user_id_[id] \in Users
      BY <1>2, <2>1, JobTypes DEF on_client_disconnected
    <3>2. /\ job' \in [Workers -> Jobs]
          /\ job'[WorkerOf[id]].at = "offline" /\ job'[WorkerOf[id]].id = id
          /\ job'[WorkerOf[id]].user = user_id_[id]
          /\ \A v \in Workers \ {WorkerOf[id]} : job'[v] = job[v]
      BY <1>0, <1>a, <3>1, EnterFacts
    <3> QED
      BY <1>0, <1>2, <3>1, <3>2, ZenonT(60) DEF on_client_disconnected, TInv, TypeOK, JobSound
  <2>2. CASE ~(id \in Live /\ user_id_[id] # NoUser)
    <3>1. Enter(id, "remove", NoUser, 0) /\ id \in Ids
      BY <1>2, <2>2, JobTypes DEF on_client_disconnected
    <3>2. /\ job' \in [Workers -> Jobs]
          /\ job'[WorkerOf[id]].at = "remove" /\ job'[WorkerOf[id]].id = id
          /\ \A v \in Workers \ {WorkerOf[id]} : job'[v] = job[v]
      BY <1>0, <1>a, <3>1, EnterFacts
    <3>3. TypeOK'
      BY <1>0, <1>2, <3>2 DEF on_client_disconnected, TypeOK
    <3>4. JobSound'
      BY <1>0, <1>2, <3>1, <3>2 DEF on_client_disconnected, JobSound
    <3> QED
      BY <3>3, <3>4 DEF TInv
  <2> QED
    BY <2>1, <2>2
<1>3. ASSUME NEW id \in budget.ids, RefuseMessage(id) PROVE TInv'
  <2>1. id \in Ids /\ Enter(id, "flush", NoUser, 0) /\ queue_message(id, "error", 0)
    BY <1>3, JobTypes DEF RefuseMessage
  <2>2. /\ job' \in [Workers -> Jobs]
        /\ job'[WorkerOf[id]].at = "flush" /\ job'[WorkerOf[id]].id = id
        /\ \A v \in Workers \ {WorkerOf[id]} : job'[v] = job[v]
    BY <1>0, <1>a, <2>1, EnterFacts
  <2>3. outgoing_queue_' \in [Ids -> Seq(Answers)]
    BY <1>0, <2>1, QueueFacts, MessagesAssumption
  <2> QED
    <3>1. TypeOK'
      BY <1>0, <1>3, <2>2, <2>3 DEF RefuseMessage, TypeOK
    <3>2. JobSound'
      BY <1>0, <1>3, <2>1, <2>2 DEF RefuseMessage, JobSound
    <3> QED
      BY <3>1, <3>2 DEF TInv
<1>4. ASSUME NEW id \in budget.ids, handle_read_receipt(id) \/ handle_typing_indicator(id)
      PROVE  TInv'
  <2>1. id \in Ids /\ Enter(id, "publish", NoUser, 0)
    BY <1>4, JobTypes DEF handle_read_receipt, handle_typing_indicator
  <2>2. /\ job' \in [Workers -> Jobs]
        /\ job'[WorkerOf[id]].at = "publish" /\ job'[WorkerOf[id]].id = id
        /\ \A v \in Workers \ {WorkerOf[id]} : job'[v] = job[v]
    BY <1>0, <1>a, <2>1, EnterFacts
  <2> QED
    <3>1. TypeOK'
      BY <1>0, <1>4, <2>2 DEF handle_read_receipt, handle_typing_indicator, TypeOK
    <3>2. JobSound'
      BY <1>0, <1>4, <2>1, <2>2 DEF handle_read_receipt, handle_typing_indicator, JobSound
    <3> QED
      BY <3>1, <3>2 DEF TInv
<1>5. ASSUME NEW id \in budget.ids, NEW u \in budget.names, handle_authentication(id, u)
      PROVE  TInv'
  <2>1. id \in Ids /\ u \in Users /\ Enter(id, "register", u, 0)
    BY <1>5, JobTypes DEF handle_authentication
  <2>2. /\ job' \in [Workers -> Jobs]
        /\ job'[WorkerOf[id]].at = "register" /\ job'[WorkerOf[id]].id = id
        /\ job'[WorkerOf[id]].user = u
        /\ \A v \in Workers \ {WorkerOf[id]} : job'[v] = job[v]
    BY <1>0, <1>a, <2>1, EnterFacts
  <2>3. authenticated_' \in [Ids -> BOOLEAN]
    BY <1>0, <1>5 DEF handle_authentication, TypeOK
  <2>4. calls' \in 0..budget.calls
    BY <1>0, <1>5, JobTypes DEF handle_authentication, TypeOK
  <2>5. TypeOK'
    BY <1>0, <1>5, <2>2, <2>3, <2>4 DEF handle_authentication, TypeOK
  <2>6. JobSound'
    BY <1>0, <1>5, <2>1, <2>2 DEF handle_authentication, JobSound
  <2> QED
    BY <2>5, <2>6 DEF TInv
<1>6. ASSUME NEW id \in budget.ids, NEW u \in budget.names, NEW k \in budget.words,
             handle_message(id, u, k)
      PROVE  TInv'
  <2> DEFINE Mails == [from : Ids, to : Users, words : budget.words]
             new == [from |-> id, to |-> u, words |-> k]
  <2>1. id \in Ids /\ u \in Users
    BY JobTypes
  <2>2. mail \in Seq(Mails) /\ Len(mail) \in Nat /\ new \in Mails
    BY <1>0, <2>1 DEF TypeOK
  <2>3. mail' = Append(mail, new) /\ Len(mail) < budget.messages /\ UNCHANGED budget
    BY <1>6 DEF handle_message
  <2> HIDE DEF Mails, new
  <2>4. mail' \in Seq(Mails) /\ Len(mail') = Len(mail) + 1
    BY <2>2, <2>3
  <2>5. Len(mail) + 1 \in 0..MaxMessages /\ Len(mail') <= budget'.messages
    BY <2>2, <2>3, <2>4, JobTypes, MessagesAssumption
  <2>6. Enter(id, "lpush", u, Len(mail) + 1)
    BY <1>6 DEF handle_message
  <2>7. /\ job' \in [Workers -> Jobs]
        /\ job'[WorkerOf[id]].at = "lpush" /\ job'[WorkerOf[id]].id = id
        /\ job'[WorkerOf[id]].user = u /\ job'[WorkerOf[id]].m = Len(mail) + 1
        /\ \A v \in Workers \ {WorkerOf[id]} : job'[v] = job[v]
    BY <1>0, <2>1, <2>5, <2>6, EnterFacts DEF PCs, CommandPCs
  <2>8. TypeOK'
    BY <1>0, <1>6, <2>3, <2>4, <2>7 DEF handle_message, TypeOK, Mails
  <2>9. JobSound'
    BY <1>0, <2>1, <2>2, <2>4, <2>5, <2>7, JobTypes DEF JobSound
  <2> QED
    BY <2>8, <2>9 DEF TInv
<1>7. ASSUME NEW w \in Workers, register_user(w) PROVE TInv'
  <2>1. /\ job' \in [Workers -> Jobs]
        /\ job'[w].at = "online" /\ job'[w].id = job[w].id /\ job'[w].user = job[w].user
        /\ \A v \in Workers \ {w} : job'[v] = job[v]
    BY <1>0, <1>7, GotoFacts DEF register_user, PCs, CommandPCs
  <2> QED
    BY <1>0, <1>7, <2>1, ZenonT(60) DEF register_user, At, TInv, TypeOK, JobSound
<1>8. ASSUME NEW w \in Workers, mark_user_online(w) PROVE TInv'
  <2>1. /\ job' \in [Workers -> Jobs]
        /\ job'[w].at = "ratchet" /\ job'[w].id = job[w].id
        /\ \A v \in Workers \ {w} : job'[v] = job[v]
    BY <1>0, <1>8, GotoFacts DEF mark_user_online, PCs
  <2>2. job[w].user \in Users /\ Redis([store EXCEPT !.online = @ \cup {job[w].user}])
    BY <1>0, <1>8 DEF mark_user_online, At, JobSound
  <2>3. /\ redis' = redis /\ store' \in Stores
        /\ faults' \in [{"lost", "repeated"} -> 0..budget.faults]
    BY <1>0, <2>2, JobTypes, StoreTypes, RedisFacts
  <2> QED
    BY <1>0, <1>8, <2>1, <2>2, <2>3 DEF mark_user_online, At, TInv, TypeOK, JobSound
<1>9. ASSUME NEW w \in Workers, LockRatchets(w) PROVE TInv'
  <2>1. PICK label \in {"relock", "stuck"} : Goto(w, label)
    BY <1>9 DEF LockRatchets
  <2>2. /\ job' \in [Workers -> Jobs]
        /\ job'[w].at = label /\ job'[w].id = job[w].id
        /\ \A v \in Workers \ {w} : job'[v] = job[v]
    BY <1>0, <2>1, GotoFacts DEF PCs
  <2> QED
    BY <1>0, <1>9, <2>2 DEF LockRatchets, At, TInv, TypeOK, JobSound
<1>10. ASSUME NEW w \in Workers, AuthSuccess(w) PROVE TInv'
  <2>1. /\ job' \in [Workers -> Jobs]
        /\ job'[w].at = "flush" /\ job'[w].id = job[w].id
        /\ \A v \in Workers \ {w} : job'[v] = job[v]
    BY <1>0, <1>10, GotoFacts DEF AuthSuccess, PCs
  <2>2. job[w].id \in Ids /\ queue_message(job[w].id, "auth_success", 0)
    BY <1>0, <1>10 DEF AuthSuccess, At, JobSound
  <2>3. outgoing_queue_' \in [Ids -> Seq(Answers)]
    BY <1>0, <2>2, QueueFacts, MessagesAssumption
  <2> QED
    BY <1>0, <1>10, <2>1, <2>3 DEF AuthSuccess, At, TInv, TypeOK, JobSound
<1>11. ASSUME NEW w \in Workers, mark_user_offline(w) PROVE TInv'
  <2>1. /\ job' \in [Workers -> Jobs]
        /\ job'[w].at = "remove" /\ job'[w].id = job[w].id
        /\ \A v \in Workers \ {w} : job'[v] = job[v]
    BY <1>0, <1>11, GotoFacts DEF mark_user_offline, PCs
  <2>2. job[w].user \in Users /\ Redis([store EXCEPT !.online = @ \ {job[w].user}])
    BY <1>0, <1>11 DEF mark_user_offline, At, JobSound
  <2>3. /\ redis' = redis /\ store' \in Stores
        /\ faults' \in [{"lost", "repeated"} -> 0..budget.faults]
    BY <1>0, <2>2, JobTypes, StoreTypes, RedisFacts
  <2> QED
    BY <1>0, <1>11, <2>1, <2>2, <2>3 DEF mark_user_offline, At, TInv, TypeOK, JobSound
<1>12. ASSUME NEW w \in Workers, remove_connection(w) PROVE TInv'
  <2>1. /\ job' \in [Workers -> Jobs] /\ job'[w].at = "idle"
        /\ \A v \in Workers \ {w} : job'[v] = job[v]
    BY <1>0, <1>12, ReturnFacts DEF remove_connection
  <2>2. authenticated_' \in [Ids -> BOOLEAN]
    BY <1>0, <1>12 DEF remove_connection, TypeOK
  <2>3. outgoing_queue_' \in [Ids -> Seq(Answers)]
    <3>1. <<>> \in Seq(Answers)
      OBVIOUS
    <3> QED
      BY <1>0, <1>12, <3>1 DEF remove_connection
  <2> QED
    BY <1>0, <1>12, <2>1, <2>2, <2>3 DEF remove_connection, TInv, TypeOK, JobSound
<1>13. ASSUME NEW w \in Workers, PublishOrHset(w) PROVE TInv'
  <2>1. /\ job' \in [Workers -> Jobs]
        /\ job'[w].at = "flush" /\ job'[w].id = job[w].id
        /\ \A v \in Workers \ {w} : job'[v] = job[v]
    BY <1>0, <1>13, GotoFacts DEF PublishOrHset, PCs
  <2>2. Redis(store)
    BY <1>13 DEF PublishOrHset
  <2>3. /\ redis' = redis /\ store' \in Stores
        /\ faults' \in [{"lost", "repeated"} -> 0..budget.faults]
    BY <1>0, <2>2, JobTypes, RedisFacts
  <2> QED
    BY <1>0, <1>13, <2>1, <2>3 DEF PublishOrHset, At, TInv, TypeOK, JobSound
<1>14. ASSUME NEW w \in Workers, lpush(w) PROVE TInv'
  <2> DEFINE u == job[w].user
             q == Pushed(job[w].m)
  <2>1. /\ job' \in [Workers -> Jobs]
        /\ job'[w].at = "expire" /\ job'[w].id = job[w].id
        /\ job'[w].user = job[w].user /\ job'[w].m = job[w].m
        /\ \A v \in Workers \ {w} : job'[v] = job[v]
    BY <1>0, <1>14, GotoFacts DEF lpush, PCs, CommandPCs
  <2>2. u \in Users /\ job[w].m \in 1..Len(mail)
    BY <1>0, <1>14 DEF lpush, At, JobSound
  <2>3. q \in Seq(Entries)
    BY <2>2, PushedTypes
  <2>4. \/ Redis([store EXCEPT !.queue[u] = q \o @])
        \/ /\ FaultsLeft /\ faults' = [faults EXCEPT !["repeated"] = @ + 1]
           /\ store' = [store EXCEPT !.queue[u] = q \o q \o @]
           /\ UNCHANGED redis
    BY <1>14 DEF lpush
  <2> HIDE DEF u, q
  <2>5. /\ redis' = redis /\ store' \in Stores
        /\ faults' \in [{"lost", "repeated"} -> 0..budget.faults]
    <3>1. CASE Redis([store EXCEPT !.queue[u] = q \o @])
      BY <1>0, <2>2, <2>3, <3>1, JobTypes, StoreTypes, RedisFacts
    <3>2. CASE ~Redis([store EXCEPT !.queue[u] = q \o @])
      <4>1. faults' \in [{"lost", "repeated"} -> 0..budget.faults]
        BY <2>4, <3>2, JobTypes, FaultFacts
      <4>2. [store EXCEPT !.queue[u] = q \o q \o @] \in Stores
        BY <2>2, <2>3, StoreTypes
      <4> QED
        BY <2>4, <3>2, <4>1, <4>2
    <3> QED
      BY <3>1, <3>2
  <2> QED
    BY <1>0, <1>14, <2>1, <2>2, <2>5, ZenonT(60) DEF lpush, At, TInv, TypeOK, JobSound, u
<1>15. ASSUME NEW w \in Workers, expire(w) PROVE TInv'
  <2>1. /\ job' \in [Workers -> Jobs]
        /\ job'[w].at = "flush" /\ job'[w].id = job[w].id
        /\ \A v \in Workers \ {w} : job'[v] = job[v]
    BY <1>0, <1>15, GotoFacts DEF expire, PCs
  <2>2. /\ job[w].user \in Users /\ job[w].id \in Ids /\ job[w].m \in 0..MaxMessages
        /\ Redis([store EXCEPT !.expiring =
                    IF store.queue[job[w].user] = <<>> THEN @ ELSE @ \cup {job[w].user}])
        /\ queue_message(job[w].id, "message_delivered", job[w].m)
    BY <1>0, <1>15, JobTypes DEF expire, At, JobSound
  <2>3. /\ redis' = redis /\ store' \in Stores
        /\ faults' \in [{"lost", "repeated"} -> 0..budget.faults]
    BY <1>0, <2>2, JobTypes, StoreTypes, RedisFacts
  <2>4. outgoing_queue_' \in [Ids -> Seq(Answers)]
    BY <1>0, <2>2, QueueFacts
  <2> QED
    BY <1>0, <1>15, <2>1, <2>3, <2>4 DEF expire, At, TInv, TypeOK, JobSound
<1>16. ASSUME NEW w \in Workers, Flush(w) PROVE TInv'
  <2>1. /\ job' \in [Workers -> Jobs] /\ job'[w].at = "idle"
        /\ \A v \in Workers \ {w} : job'[v] = job[v]
    BY <1>0, <1>16, ReturnFacts DEF Flush
  <2>2. outgoing_queue_' \in [Ids -> Seq(Answers)]
    <3>1. <<>> \in Seq(Answers)
      OBVIOUS
    <3> QED
      BY <1>0, <1>16, <3>1 DEF Flush
  <2>3. acked' \subseteq 1..MaxMessages
    <3> DEFINE q == outgoing_queue_[job[w].id]
    <3>1. q \in Seq(Answers)
      BY <1>0, <1>16 DEF Flush, At, JobSound
    <3>2. acked' = acked \cup ({q[i].m : i \in DOMAIN q} \ {0}) /\ acked \subseteq 1..MaxMessages
      BY <1>0, <1>16 DEF Flush, TypeOK
    <3> HIDE DEF q
    <3>3. \A i \in DOMAIN q : q[i] \in Answers
      BY <3>1
    <3>4. \A i \in DOMAIN q : q[i].m \in 0..MaxMessages
      BY <3>3 DEF Answers
    <3> SUFFICES ASSUME NEW x \in {q[i].m : i \in DOMAIN q} \ {0} PROVE x \in 1..MaxMessages
      BY <3>2
    <3> QED
      BY <3>4, MessagesAssumption
  <2> QED
    BY <1>0, <1>16, <2>1, <2>2, <2>3 DEF Flush, TInv, TypeOK, JobSound
<1>17. ASSUME NEW w \in Workers, CommandOnNull(w) PROVE TInv'
  BY <1>0, <1>17 DEF CommandOnNull, TInv, TypeOK, JobSound
<1>18. CASE start \/ stop
  BY <1>0, <1>18 DEF start, stop, TInv, TypeOK, JobSound
<1>19. ASSUME NEW u \in Users, PresenceLapses(u) PROVE TInv'
  <2>1. store' \in Stores
    BY <1>19, StoreTypes DEF PresenceLapses
  <2> QED
    BY <1>0, <1>19, <2>1 DEF PresenceLapses, TInv, TypeOK, JobSound
<1>20. ASSUME NEW u \in Users, QueueLapses(u) PROVE TInv'
  <2>1. store' \in Stores
    BY <1>20, StoreTypes DEF QueueLapses
  <2>2. timedOut' \subseteq 1..MaxMessages
    <3> DEFINE q == store.queue[u]
    <3>1. q \in Seq(Entries)
      BY <1>0 DEF Stores
    <3>2. timedOut' = timedOut \cup {q[i][1] : i \in DOMAIN q} /\ timedOut \subseteq 1..MaxMessages
      BY <1>0, <1>20 DEF QueueLapses, TypeOK
    <3> HIDE DEF q
    <3>3. \A i \in DOMAIN q : q[i] \in Entries
      BY <3>1
    <3> QED
      BY <3>2, <3>3 DEF Entries
  <2> QED
    BY <1>0, <1>20, <2>1, <2>2 DEF QueueLapses, TInv, TypeOK, JobSound
<1>21. CASE UNCHANGED vars
  <2>1. TypeOK'
    BY <1>0, <1>21 DEF vars, TypeOK
  <2> QED
    BY <1>0, <1>21, <2>1 DEF vars, TInv, JobSound
<1> QED
  BY <1>1, <1>2, <1>3, <1>4, <1>5, <1>6, <1>7, <1>8, <1>9, <1>10, <1>11, <1>12, <1>13, <1>14,
     <1>15, <1>16, <1>17, <1>18, <1>19, <1>20, <1>21 DEF Next, Receive, Step, Login

LEMMA InitTyped == Init => TInv
<1> SUFFICES ASSUME Init PROVE TypeOK /\ JobSound
  BY DEF TInv
<1>1. Pool!TypeOK
  BY DEF Init, Pool!Init, Pool!TypeOK
<1>2. store \in Stores
  <2>1. <<>> \in Seq(Entries)
    OBVIOUS
  <2> QED
    BY <2>1 DEF Init, Stores
<1>3. outgoing_queue_ \in [Ids -> Seq(Answers)] /\ mail \in Seq([from : Ids, to : Users, words : budget.words])
  BY DEF Init
<1>4. job \in [Workers -> Jobs] /\ \A w \in Workers : job[w].at = "idle"
  BY MessagesAssumption DEF Init, Idle, Jobs, PCs
<1>5. budget \in Budgets /\ budget.messages \in Nat /\ budget.calls \in Nat /\ budget.faults \in Nat
  BY BudgetsAssumption, MessagesAssumption DEF Init
<1>6. Len(mail) = 0
  BY DEF Init
<1>7. faults \in [{"lost", "repeated"} -> 0..budget.faults]
  BY <1>5 DEF Init
<1>8. TypeOK
  <2>1. authenticated_ \in [Ids -> BOOLEAN] /\ crashed \in BOOLEAN
    BY DEF Init
  <2>2. calls \in 0..budget.calls /\ acked \subseteq 1..MaxMessages
        /\ away \subseteq Users /\ timedOut \subseteq 1..MaxMessages
    BY <1>5 DEF Init
  <2>3. open \subseteq Ids /\ ratchet_mutex_ \in Workers \cup {NoWorker}
        /\ redis \in {"new", "up", "hung", "stopped"}
    BY DEF Init
  <2> QED
    BY <1>1, <1>2, <1>3, <1>4, <1>5, <1>7, <2>1, <2>2, <2>3 DEF TypeOK
<1>9. JobSound
  BY <1>4, <1>5, <1>6 DEF JobSound
<1> QED
  BY <1>8, <1>9

LEMMA Typing == Spec => []TInv
  BY InitTyped, TypeStep, PTL DEF Spec

(* Every handler, command, fault and expiry keeps the types of the server. *)
THEOREM TypeCorrect == Spec => []TypeOK
<1>1. TInv => TypeOK
  BY DEF TInv
<1> QED
  BY <1>1, Typing, PTL

(* MessengerServer uses its pool as ConnectionPool allows: every handler   *)
(* step, with the naming of a connection and its registration interleaved  *)
(* with other workers, is a step of the pool or leaves the pool alone.     *)
THEOREM PoolUsedAsSpecified == Spec => PoolUse
<1>1. Init => Pool!Init
  BY DEF Init
<1>2. TInv /\ [Next]_vars => [Pool!Next]_Pool!vars
  BY PoolStep
<1> QED
  BY <1>1, <1>2, Typing, PTL DEF Spec, PoolUse, Pool!Spec

----------------------------------------------------------------------------
(* What each step does to the jobs *)

Others(w) == \A v \in Workers \ {w} : job'[v] = job[v]

(* Worker w goes on in its handler, from one label to another.             *)
Moved(w, from, to) ==
  /\ job[w].at = from /\ job'[w].at = to
  /\ job'[w].id = job[w].id /\ job'[w].user = job[w].user /\ job'[w].m = job[w].m
  /\ job[w].id \in Ids /\ WorkerOf[job[w].id] = w
  /\ Others(w)

(* The worker of id starts a handler of that socket.                       *)
Entered(id, to, u, m) ==
  /\ id \in Ids /\ WorkerOf[id] \in Workers /\ id \in open
  /\ job[WorkerOf[id]].at = "idle"
  /\ job'[WorkerOf[id]].at = to /\ job'[WorkerOf[id]].id = id
  /\ job'[WorkerOf[id]].user = u /\ job'[WorkerOf[id]].m = m
  /\ Others(WorkerOf[id])

(* Worker w ends its handler.                                              *)
Returned(w, from) ==
  /\ job[w].at = from /\ job'[w].at = "idle"
  /\ job[w].id \in Ids /\ WorkerOf[job[w].id] = w
  /\ Others(w)

LEMMA MovedBy ==
  ASSUME TInv, NEW w \in Workers, NEW from \in PCs \ {"idle"}, NEW to \in PCs,
         At(w, from), Goto(w, to)
  PROVE  Moved(w, from, to)
<1>1. job \in [Workers -> Jobs] /\ job[w].id \in Ids /\ WorkerOf[job[w].id] = w
  BY DEF TInv, TypeOK, JobSound, At
<1> QED
  BY <1>1, GotoFacts DEF Moved, Others, At

LEMMA EnteredBy ==
  ASSUME TInv, NEW id \in Ids, NEW to \in PCs, NEW u \in Users \cup {NoUser},
         NEW m \in 0..MaxMessages, Free(id), Enter(id, to, u, m)
  PROVE  Entered(id, to, u, m)
<1>1. job \in [Workers -> Jobs] /\ WorkerOf[id] \in Workers
  BY WorkerOfAssumption DEF TInv, TypeOK
<1> QED
  BY <1>1, EnterFacts DEF Entered, Others, Free, At

LEMMA ReturnedBy ==
  ASSUME TInv, NEW w \in Workers, NEW from \in PCs \ {"idle"}, At(w, from), Return(w)
  PROVE  Returned(w, from)
<1>1. job \in [Workers -> Jobs] /\ job[w].id \in Ids /\ WorkerOf[job[w].id] = w
  BY DEF TInv, TypeOK, JobSound, At
<1> QED
  BY <1>1, ReturnFacts DEF Returned, Others, At

LEMMA Labels ==
  /\ PCs = {"idle", "register", "ratchet", "relock", "stuck", "remove", "flush",
            "online", "offline", "lpush", "expire", "publish"}
  /\ 0 \in 0..MaxMessages /\ NoUser \in Users \cup {NoUser}
  BY MessagesAssumption DEF PCs, CommandPCs

LEMMA Moves ==
  ASSUME TInv, NEW w \in Workers
  PROVE  /\ register_user(w) => Moved(w, "register", "online")
         /\ mark_user_online(w) => Moved(w, "online", "ratchet")
         /\ LockRatchets(w) => Moved(w, "ratchet", "relock") \/ Moved(w, "ratchet", "stuck")
         /\ AuthSuccess(w) => Moved(w, "relock", "flush")
         /\ mark_user_offline(w) => Moved(w, "offline", "remove")
         /\ remove_connection(w) => Returned(w, "remove")
         /\ PublishOrHset(w) => Moved(w, "publish", "flush")
         /\ lpush(w) => Moved(w, "lpush", "expire")
         /\ expire(w) => Moved(w, "expire", "flush")
         /\ Flush(w) => Returned(w, "flush")
         /\ CommandOnNull(w) => UNCHANGED job
<1>1. register_user(w) => Moved(w, "register", "online")
  BY MovedBy, Labels DEF register_user
<1>2. mark_user_online(w) => Moved(w, "online", "ratchet")
  BY MovedBy, Labels DEF mark_user_online
<1>3. LockRatchets(w) => Moved(w, "ratchet", "relock") \/ Moved(w, "ratchet", "stuck")
  BY MovedBy, Labels DEF LockRatchets
<1>4. AuthSuccess(w) => Moved(w, "relock", "flush")
  BY MovedBy, Labels DEF AuthSuccess
<1>5. mark_user_offline(w) => Moved(w, "offline", "remove")
  BY MovedBy, Labels DEF mark_user_offline
<1>6. remove_connection(w) => Returned(w, "remove")
  BY ReturnedBy, Labels DEF remove_connection
<1>7. PublishOrHset(w) => Moved(w, "publish", "flush")
  BY MovedBy, Labels DEF PublishOrHset
<1>8. lpush(w) => Moved(w, "lpush", "expire")
  BY MovedBy, Labels DEF lpush
<1>9. expire(w) => Moved(w, "expire", "flush")
  BY MovedBy, Labels DEF expire
<1>10. Flush(w) => Returned(w, "flush")
  BY ReturnedBy, Labels DEF Flush
<1>11. CommandOnNull(w) => UNCHANGED job
  BY DEF CommandOnNull
<1> QED
  BY <1>1, <1>2, <1>3, <1>4, <1>5, <1>6, <1>7, <1>8, <1>9, <1>10, <1>11

LEMMA Entrances ==
  ASSUME TInv, NEW id \in budget.ids
  PROVE  /\ id \in Ids /\ WorkerOf[id] \in Workers
         /\ on_client_connected(id) => UNCHANGED job /\ job[WorkerOf[id]].at = "idle"
         /\ on_client_disconnected(id) =>
              \/ /\ id \in Live /\ user_id_[id] \in Users
                 /\ Entered(id, "offline", user_id_[id], 0)
              \/ /\ id \notin Live \/ user_id_[id] = NoUser
                 /\ Entered(id, "remove", NoUser, 0)
         /\ RefuseMessage(id) => Entered(id, "flush", NoUser, 0)
         /\ handle_read_receipt(id) => Entered(id, "publish", NoUser, 0)
         /\ handle_typing_indicator(id) => Entered(id, "publish", NoUser, 0)
         /\ \A u \in budget.names :
              handle_authentication(id, u) => u \in Users /\ Entered(id, "register", u, 0)
         /\ \A u \in budget.names, k \in budget.words :
              handle_message(id, u, k) => /\ u \in Users /\ Len(mail) + 1 \in 0..MaxMessages
                                          /\ Entered(id, "lpush", u, Len(mail) + 1)
<1>0. id \in Ids /\ WorkerOf[id] \in Workers /\ user_id_[id] \in Users \cup {NoUser}
  BY JobTypes
<1>1. on_client_connected(id) => UNCHANGED job /\ job[WorkerOf[id]].at = "idle"
  BY DEF on_client_connected, At
<1>2. on_client_disconnected(id) =>
        \/ /\ id \in Live /\ user_id_[id] \in Users
           /\ Entered(id, "offline", user_id_[id], 0)
        \/ /\ id \notin Live \/ user_id_[id] = NoUser
           /\ Entered(id, "remove", NoUser, 0)
  BY <1>0, EnteredBy, Labels DEF on_client_disconnected
<1>3. RefuseMessage(id) => Entered(id, "flush", NoUser, 0)
  BY <1>0, EnteredBy, Labels DEF RefuseMessage
<1>4. handle_read_receipt(id) => Entered(id, "publish", NoUser, 0)
  BY <1>0, EnteredBy, Labels DEF handle_read_receipt, LoggedIn
<1>5. handle_typing_indicator(id) => Entered(id, "publish", NoUser, 0)
  BY <1>0, EnteredBy, Labels DEF handle_typing_indicator, LoggedIn
<1>6. \A u \in budget.names :
        handle_authentication(id, u) => u \in Users /\ Entered(id, "register", u, 0)
  BY <1>0, JobTypes, EnteredBy, Labels DEF handle_authentication
<1>7. ASSUME NEW u \in budget.names, NEW k \in budget.words, handle_message(id, u, k)
      PROVE  /\ u \in Users /\ Len(mail) + 1 \in 0..MaxMessages
             /\ Entered(id, "lpush", u, Len(mail) + 1)
  <2>1. u \in Users /\ Len(mail) < budget.messages /\ budget.messages \in 0..MaxMessages
    BY <1>7, JobTypes DEF handle_message
  <2>2. Len(mail) \in Nat
    BY DEF TInv, TypeOK
  <2>3. Len(mail) + 1 \in 0..MaxMessages
    BY <2>1, <2>2, MessagesAssumption
  <2> QED
    BY <1>0, <1>7, <2>1, <2>3, EnteredBy, Labels DEF handle_message, LoggedIn
<1> QED
  BY <1>0, <1>1, <1>2, <1>3, <1>4, <1>5, <1>6, <1>7

----------------------------------------------------------------------------
(* Connections and their handlers *)

(* The steps that change the pool or the flag of a connection.             *)
LEMMA QuietSteps ==
  ASSUME TInv, [Next]_vars,
         \A id \in budget.ids : ~on_client_connected(id),
         \A id \in budget.ids, u \in budget.names : ~handle_authentication(id, u),
         \A w \in Workers : ~register_user(w) /\ ~remove_connection(w)
  PROVE  UNCHANGED <<connections_, user_id_, naming, used, authenticated_>>
<1> USE DEF poolVars, connVars
<1>1. ASSUME NEW id \in budget.ids,
             \/ on_client_disconnected(id) \/ RefuseMessage(id)
             \/ handle_read_receipt(id) \/ handle_typing_indicator(id)
             \/ \E u \in budget.names, k \in budget.words : handle_message(id, u, k)
      PROVE  UNCHANGED <<poolVars, authenticated_>>
  BY <1>1 DEF on_client_disconnected, RefuseMessage, handle_read_receipt, handle_typing_indicator,
              handle_message
<1>2. ASSUME NEW w \in Workers,
             \/ mark_user_online(w) \/ LockRatchets(w) \/ AuthSuccess(w) \/ mark_user_offline(w)
             \/ PublishOrHset(w) \/ lpush(w) \/ expire(w) \/ Flush(w) \/ CommandOnNull(w)
      PROVE  UNCHANGED <<poolVars, authenticated_>>
  BY <1>2 DEF mark_user_online, LockRatchets, AuthSuccess, mark_user_offline, PublishOrHset,
              lpush, expire, Flush, CommandOnNull
<1>3. CASE start \/ stop \/ (\E u \in Users : PresenceLapses(u) \/ QueueLapses(u))
  BY <1>3 DEF start, stop, PresenceLapses, QueueLapses
<1>4. CASE UNCHANGED vars
  BY <1>4 DEF vars
<1> QED
  BY <1>1, <1>2, <1>3, <1>4 DEF Next, Receive, Step, Login

(* A connection with a user has logged in, and is live; the pool has no    *)
(* null entry.  A worker that is logging a connection in, or in a Redis    *)
(* command for it, has a live connection that has logged in, and works for *)
(* the user of that connection.                                            *)
ConnSound ==
  /\ \A id \in Ids :
       /\ connections_[id] # "ghost"
       /\ id \notin Live => user_id_[id] = NoUser
       /\ user_id_[id] # NoUser => authenticated_[id]
  /\ \A w \in Workers :
       /\ job[w].at \in CommandPCs \cup {"register"} =>
            job[w].id \in Live /\ authenticated_[job[w].id]
       /\ job[w].at \in {"register", "online", "offline"} => user_id_[job[w].id] = job[w].user

(* What a new connection, a login and a removal leave in the pool.         *)
LEMMA PoolEffects ==
  ASSUME TInv, NEW id \in Ids
  PROVE  /\ \A u \in Users : Pool!set_user_id(id, u) =>
              /\ id \in Live /\ UNCHANGED connections_
              /\ user_id_'[id] = u
              /\ \A i \in Ids \ {id} : user_id_'[i] = user_id_[i]
              /\ used' = {} => used = {} /\ user_id_[id] = NoUser
         /\ Pool!create_connection(id) =>
              /\ connections_'[id] = "live" /\ user_id_'[id] = NoUser
              /\ \A i \in Ids \ {id} : connections_'[i] = connections_[i] /\ user_id_'[i] = user_id_[i]
              /\ used' = {} => used = {} /\ id \notin Live
         /\ Pool!register_user(id) => UNCHANGED <<connections_, user_id_, used>>
         /\ Pool!remove_connection(id) /\ connections_[id] # "ghost" =>
              /\ connections_'[id] = "absent" /\ user_id_'[id] = NoUser
              /\ \A i \in Ids \ {id} : connections_'[i] = connections_[i] /\ user_id_'[i] = user_id_[i]
              /\ UNCHANGED used
<1>0. connections_ \in [Ids -> {"absent", "ghost", "live"}] /\ user_id_ \in [Ids -> Users \cup {NoUser}]
  BY DEF TInv, TypeOK, Pool!TypeOK
<1>1. ASSUME NEW u \in Users, Pool!set_user_id(id, u)
      PROVE  /\ id \in Live /\ UNCHANGED connections_
             /\ user_id_'[id] = u
             /\ \A i \in Ids \ {id} : user_id_'[i] = user_id_[i]
             /\ used' = {} => used = {} /\ user_id_[id] = NoUser
  BY <1>0, <1>1 DEF Pool!set_user_id, Live
<1>2. ASSUME Pool!create_connection(id)
      PROVE  /\ connections_'[id] = "live" /\ user_id_'[id] = NoUser
             /\ \A i \in Ids \ {id} : connections_'[i] = connections_[i] /\ user_id_'[i] = user_id_[i]
             /\ used' = {} => used = {} /\ id \notin Live
  BY <1>0, <1>2 DEF Pool!create_connection, Live, Pool!Live
<1>3. ASSUME Pool!register_user(id) PROVE UNCHANGED <<connections_, user_id_, used>>
  BY <1>3 DEF Pool!register_user
<1>4. ASSUME Pool!remove_connection(id), connections_[id] # "ghost"
      PROVE  /\ connections_'[id] = "absent" /\ user_id_'[id] = NoUser
             /\ \A i \in Ids \ {id} : connections_'[i] = connections_[i] /\ user_id_'[i] = user_id_[i]
             /\ UNCHANGED used
  BY <1>0, <1>4 DEF Pool!remove_connection, Pool!Ghost, Pool!Live, Pool!Erase
<1> QED
  BY <1>1, <1>2, <1>3, <1>4

LEMMA ConnStep ==
  ASSUME TInv, TInv', ConnSound, [Next]_vars
  PROVE  ConnSound'
<1>0. /\ \A w \in Workers : job[w].at # "idle" => job[w].id \in Ids /\ WorkerOf[job[w].id] = w
      /\ authenticated_ \in [Ids -> BOOLEAN]
  BY DEF TInv, TypeOK, JobSound
<1> USE DEF ConnSound, Live, Pool!Live
<1>1. ASSUME NEW id \in budget.ids, on_client_connected(id) PROVE ConnSound'
  <2>1. /\ id \in Ids /\ WorkerOf[id] \in Workers /\ UNCHANGED <<job, authenticated_>>
        /\ job[WorkerOf[id]].at = "idle"
    BY <1>1, Entrances DEF on_client_connected, connVars
  <2>2. CASE Pool!create_connection(id)
    <3>1. /\ connections_'[id] = "live" /\ user_id_'[id] = NoUser
          /\ \A i \in Ids \ {id} : connections_'[i] = connections_[i] /\ user_id_'[i] = user_id_[i]
      BY <2>1, <2>2, PoolEffects
    <3>2. \A w \in Workers : job[w].at # "idle" => job[w].id \in Ids \ {id}
      BY <1>0, <2>1
    <3> QED
      BY <2>1, <3>1, <3>2 DEF CommandPCs
  <2>3. CASE ~Pool!create_connection(id)
    BY <1>1, <2>1, <2>3 DEF on_client_connected, poolVars
  <2> QED
    BY <2>2, <2>3
<1>2. ASSUME NEW id \in budget.ids, NEW u \in budget.names, handle_authentication(id, u)
      PROVE  ConnSound'
  <2>1. u \in Users /\ Entered(id, "register", u, 0) /\ id \in Ids
    BY <1>2, Entrances
  <2>2. /\ id \in Live /\ UNCHANGED connections_ /\ user_id_'[id] = u
        /\ \A i \in Ids \ {id} : user_id_'[i] = user_id_[i]
    BY <1>2, <2>1, PoolEffects DEF handle_authentication
  <2>3. authenticated_'[id] = TRUE /\ \A i \in Ids \ {id} : authenticated_'[i] = authenticated_[i]
    BY <1>0, <1>2, <2>1 DEF handle_authentication
  <2>4. \A w \in Workers \ {WorkerOf[id]} : job'[w] = job[w] /\ (job[w].at # "idle" => job[w].id # id)
    BY <1>0, <2>1 DEF Entered, Others
  <2> QED
    BY <1>0, <2>1, <2>2, <2>3, <2>4 DEF Entered, CommandPCs
<1>3. ASSUME NEW w \in Workers, register_user(w) PROVE ConnSound'
  <2>1. Moved(w, "register", "online")
    BY <1>3, Moves
  <2>2. UNCHANGED <<connections_, user_id_, authenticated_>>
    BY <1>3, <2>1, PoolEffects DEF register_user, Moved, connVars
  <2> QED
    BY <2>1, <2>2 DEF Moved, Others, CommandPCs
<1>4. ASSUME NEW w \in Workers, remove_connection(w) PROVE ConnSound'
  <2> DEFINE id == job[w].id
  <2>1. Returned(w, "remove") /\ id \in Ids
    BY <1>4, Moves DEF Returned
  <2>2. /\ connections_'[id] # "live" /\ connections_'[id] # "ghost" /\ user_id_'[id] = NoUser
        /\ \A i \in Ids \ {id} : connections_'[i] = connections_[i] /\ user_id_'[i] = user_id_[i]
    <3>1. CASE Pool!remove_connection(id)
      BY <2>1, <3>1, PoolEffects
    <3>2. CASE ~Pool!remove_connection(id)
      BY <1>4, <2>1, <3>2 DEF remove_connection, poolVars
    <3> QED
      BY <3>1, <3>2
  <2>3. \A i \in Ids \ {id} : authenticated_'[i] = authenticated_[i]
    BY <1>0, <1>4 DEF remove_connection
  <2>4. \A v \in Workers \ {w} : job'[v] = job[v] /\ (job[v].at # "idle" => job[v].id \in Ids \ {id})
    BY <1>0, <2>1 DEF Returned, Others
  <2>5. job'[w].at = "idle"
    BY <2>1 DEF Returned
  <2> HIDE DEF id
  <2> QED
    BY <2>2, <2>3, <2>4, <2>5 DEF CommandPCs
<1>5. ASSUME UNCHANGED <<connections_, user_id_, authenticated_>>
      PROVE  ConnSound'
  <2>1. \A w \in Workers :
          /\ job'[w].at \in CommandPCs \cup {"register"} =>
               job'[w].id \in Live /\ authenticated_[job'[w].id]
          /\ job'[w].at \in {"register", "online", "offline"} => user_id_[job'[w].id] = job'[w].user
    <3> DEFINE Goal == \A w \in Workers :
                 /\ job'[w].at \in CommandPCs \cup {"register"} =>
                      job'[w].id \in Live /\ authenticated_[job'[w].id]
                 /\ job'[w].at \in {"register", "online", "offline"} =>
                      user_id_[job'[w].id] = job'[w].user
    <3>1. ASSUME NEW id \in budget.ids, on_client_connected(id) PROVE Goal
      BY <3>1, Entrances
    <3>2. ASSUME NEW id \in budget.ids, on_client_disconnected(id) PROVE Goal
      <4>1. CASE id \in Live /\ user_id_[id] \in Users /\ Entered(id, "offline", user_id_[id], 0)
        <5>1. user_id_[id] # NoUser
          BY <4>1, PoolAssumption
        <5> QED
          BY <4>1, <5>1 DEF Entered, Others, CommandPCs
      <4>2. CASE Entered(id, "remove", NoUser, 0)
        BY <4>2 DEF Entered, Others, CommandPCs
      <4> QED
        BY <3>2, <4>1, <4>2, Entrances
    <3>3. ASSUME NEW id \in budget.ids, RefuseMessage(id) PROVE Goal
      BY <3>3, Entrances DEF Entered, Others, CommandPCs
    <3>4. ASSUME NEW id \in budget.ids, handle_read_receipt(id) \/ handle_typing_indicator(id)
          PROVE  Goal
      <4>1. Entered(id, "publish", NoUser, 0) /\ id \in Live /\ authenticated_[id]
        BY <3>4, Entrances DEF handle_read_receipt, handle_typing_indicator, LoggedIn
      <4> QED
        BY <4>1 DEF Entered, Others, CommandPCs
    <3>5. ASSUME NEW id \in budget.ids, NEW u \in budget.names, handle_authentication(id, u)
          PROVE  Goal
      <4>1. ConnSound'
        BY <1>2, <3>5
      <4> QED
        BY <1>5, <4>1
    <3>6. ASSUME NEW id \in budget.ids, NEW u \in budget.names, NEW k \in budget.words,
                 handle_message(id, u, k)
          PROVE  Goal
      <4>1. Entered(id, "lpush", u, Len(mail) + 1) /\ id \in Live /\ authenticated_[id]
        BY <3>6, Entrances DEF handle_message, LoggedIn
      <4> QED
        BY <4>1 DEF Entered, Others, CommandPCs
    <3>7. ASSUME NEW w \in Workers, Step(w) PROVE Goal
      <4>1. \/ \E from \in {"register", "lpush"}, to \in {"online", "expire"} :
                 /\ Moved(w, from, to)
                 /\ to = "online" => from = "register"
            \/ \E from \in PCs, to \in PCs \ (CommandPCs \cup {"register"}) : Moved(w, from, to)
            \/ \E from \in PCs : Returned(w, from)
            \/ UNCHANGED job
        <5>1. /\ {"ratchet", "relock", "stuck", "flush", "remove"} \subseteq PCs \ (CommandPCs \cup {"register"})
              /\ {"online", "ratchet", "relock", "offline", "publish", "lpush", "expire", "remove",
                  "flush"} \subseteq PCs
          BY DEF PCs, CommandPCs
        <5> QED
          BY <3>7, <5>1, Moves DEF Step, Login
      <4> QED
        BY <4>1 DEF Moved, Returned, Others, CommandPCs
    <3>8. CASE start \/ stop \/ (\E u \in Users : PresenceLapses(u) \/ QueueLapses(u))
      BY <3>8 DEF start, stop, PresenceLapses, QueueLapses
    <3>9. CASE UNCHANGED vars
      BY <3>9 DEF vars
    <3> QED
      BY <3>1, <3>2, <3>3, <3>4, <3>5, <3>6, <3>7, <3>8, <3>9 DEF Next, Receive
  <2> QED
    BY <1>5, <2>1
<1> QED
  BY <1>1, <1>2, <1>3, <1>4, <1>5, QuietSteps

LEMMA Connections == Spec => []ConnSound
<1>1. Init => ConnSound
  BY DEF Init, Pool!Init, ConnSound, Live, Pool!Live, Idle, CommandPCs
<1> QED
  BY <1>1, ConnStep, Typing, PTL DEF Spec

(* A worker reaches Redis, and so can wait for the client's mutex or die   *)
(* on a null context while the server starts or stops, only for a live     *)
(* connection that handle_authentication() has accepted.                   *)
THEOREM StrangersKeptFromRedis == Spec => []StrangersNeverReachRedis
<1>1. ConnSound => StrangersNeverReachRedis
  BY DEF ConnSound, StrangersNeverReachRedis
<1> QED
  BY <1>1, Connections, PTL

----------------------------------------------------------------------------
(* Answers *)

(* A worker that is not about to flush may move as long as no answer is    *)
(* queued.                                                                 *)
LEMMA UnsentQuiet ==
  ASSUME TInv, NothingUnsent, UNCHANGED outgoing_queue_,
         NEW w \in Workers, job[w].at # "flush", Others(w)
  PROVE  NothingUnsent'
<1> SUFFICES ASSUME NEW id \in Ids, outgoing_queue_[id] # <<>>
             PROVE  job'[WorkerOf[id]].at = "flush" /\ job'[WorkerOf[id]].id = id
  BY DEF NothingUnsent
<1>1. job[WorkerOf[id]].at = "flush" /\ job[WorkerOf[id]].id = id /\ WorkerOf[id] \in Workers
  BY JobTypes DEF NothingUnsent
<1> QED
  BY <1>1 DEF Others

(* A worker may queue an answer on its own connection when it flushes next.*)
LEMMA UnsentQueued ==
  ASSUME TInv, NothingUnsent, NEW id \in Ids, job[WorkerOf[id]].at # "flush",
         \A i \in Ids \ {id} : outgoing_queue_'[i] = outgoing_queue_[i],
         job'[WorkerOf[id]].at = "flush", job'[WorkerOf[id]].id = id, Others(WorkerOf[id])
  PROVE  NothingUnsent'
<1> SUFFICES ASSUME NEW i \in Ids, i # id, outgoing_queue_'[i] # <<>>
             PROVE  job'[WorkerOf[i]].at = "flush" /\ job'[WorkerOf[i]].id = i
  BY DEF NothingUnsent
<1>1. job[WorkerOf[i]].at = "flush" /\ job[WorkerOf[i]].id = i /\ WorkerOf[i] \in Workers
  BY JobTypes DEF NothingUnsent
<1> QED
  BY <1>1 DEF Others

(* A worker that empties the queue of its connection may return.           *)
LEMMA UnsentCleared ==
  ASSUME TInv, NothingUnsent, NEW w \in Workers, NEW from \in PCs, Returned(w, from),
         outgoing_queue_' = [outgoing_queue_ EXCEPT ![job[w].id] = <<>>]
  PROVE  NothingUnsent'
<1>0. outgoing_queue_ \in [Ids -> Seq(Answers)] /\ job[w].id \in Ids
  BY DEF TInv, TypeOK, Returned
<1> SUFFICES ASSUME NEW i \in Ids, outgoing_queue_'[i] # <<>>
             PROVE  job'[WorkerOf[i]].at = "flush" /\ job'[WorkerOf[i]].id = i
  BY DEF NothingUnsent
<1>1. i # job[w].id /\ outgoing_queue_[i] # <<>>
  BY <1>0
<1>2. job[WorkerOf[i]].at = "flush" /\ job[WorkerOf[i]].id = i /\ WorkerOf[i] \in Workers
  BY <1>1, JobTypes DEF NothingUnsent
<1> QED
  BY <1>1, <1>2 DEF Returned, Others

LEMMA UnsentStep ==
  ASSUME TInv, NothingUnsent, [Next]_vars
  PROVE  NothingUnsent'
<1>0. outgoing_queue_ \in [Ids -> Seq(Answers)] /\ 0 \in 0..MaxMessages
  BY MessagesAssumption DEF TInv, TypeOK
<1>1. ASSUME NEW id \in budget.ids, RefuseMessage(id) PROVE NothingUnsent'
  <2>1. id \in Ids /\ Entered(id, "flush", NoUser, 0)
    BY <1>1, Entrances
  <2>2. \A i \in Ids \ {id} : outgoing_queue_'[i] = outgoing_queue_[i]
    BY <1>0, <1>1, <2>1, QueueFacts DEF RefuseMessage
  <2> QED
    BY <2>1, <2>2, UnsentQueued DEF Entered
<1>2. ASSUME NEW w \in Workers, AuthSuccess(w) PROVE NothingUnsent'
  <2>1. Moved(w, "relock", "flush")
    BY <1>2, Moves
  <2>2. \A i \in Ids \ {job[w].id} : outgoing_queue_'[i] = outgoing_queue_[i]
    BY <1>0, <1>2, <2>1, QueueFacts DEF AuthSuccess, Moved
  <2> QED
    BY <2>1, <2>2, UnsentQueued DEF Moved
<1>3. ASSUME NEW w \in Workers, expire(w) PROVE NothingUnsent'
  <2>1. Moved(w, "expire", "flush") /\ job[w].m \in 0..MaxMessages
    BY <1>3, Moves, JobTypes
  <2>2. \A i \in Ids \ {job[w].id} : outgoing_queue_'[i] = outgoing_queue_[i]
    BY <1>0, <1>3, <2>1, QueueFacts DEF expire, Moved
  <2> QED
    BY <2>1, <2>2, UnsentQueued DEF Moved
<1>4. ASSUME NEW w \in Workers, remove_connection(w) PROVE NothingUnsent'
  BY <1>4, Moves, UnsentCleared, Labels DEF remove_connection
<1>5. ASSUME NEW w \in Workers, Flush(w) PROVE NothingUnsent'
  BY <1>5, Moves, UnsentCleared, Labels DEF Flush
<1> USE DEF connVars
<1>6. ASSUME NEW id \in budget.ids, on_client_connected(id) PROVE NothingUnsent'
  BY <1>6 DEF on_client_connected, NothingUnsent
<1>7. ASSUME NEW id \in budget.ids, on_client_disconnected(id) PROVE NothingUnsent'
  <2>1. UNCHANGED outgoing_queue_
    BY <1>7 DEF on_client_disconnected
  <2> QED
    BY <1>7, <2>1, Entrances, UnsentQuiet DEF Entered
<1>8. ASSUME NEW id \in budget.ids, handle_read_receipt(id) \/ handle_typing_indicator(id)
      PROVE  NothingUnsent'
  <2>1. UNCHANGED outgoing_queue_
    BY <1>8 DEF handle_read_receipt, handle_typing_indicator
  <2> QED
    BY <1>8, <2>1, Entrances, UnsentQuiet DEF Entered
<1>9. ASSUME NEW id \in budget.ids, NEW u \in budget.names, handle_authentication(id, u)
      PROVE  NothingUnsent'
  <2>1. UNCHANGED outgoing_queue_
    BY <1>9 DEF handle_authentication
  <2> QED
    BY <1>9, <2>1, Entrances, UnsentQuiet DEF Entered
<1>10. ASSUME NEW id \in budget.ids, NEW u \in budget.names, NEW k \in budget.words,
              handle_message(id, u, k)
       PROVE  NothingUnsent'
  <2>1. UNCHANGED outgoing_queue_
    BY <1>10 DEF handle_message
  <2> QED
    BY <1>10, <2>1, Entrances, UnsentQuiet DEF Entered
<1>11. ASSUME NEW w \in Workers,
              \/ register_user(w) \/ mark_user_online(w) \/ LockRatchets(w)
              \/ mark_user_offline(w) \/ PublishOrHset(w) \/ lpush(w)
       PROVE  NothingUnsent'
  <2>1. UNCHANGED outgoing_queue_
    BY <1>11 DEF register_user, mark_user_online, LockRatchets, mark_user_offline, PublishOrHset, lpush
  <2>2. job[w].at # "flush" /\ Others(w)
    BY <1>11, Moves DEF Moved
  <2> QED
    BY <2>1, <2>2, UnsentQuiet
<1>12. ASSUME NEW w \in Workers, CommandOnNull(w) PROVE NothingUnsent'
  BY <1>12 DEF CommandOnNull, NothingUnsent
<1>13. CASE start \/ stop \/ (\E u \in Users : PresenceLapses(u) \/ QueueLapses(u))
  BY <1>13 DEF start, stop, PresenceLapses, QueueLapses, NothingUnsent
<1>14. CASE UNCHANGED vars
  BY <1>14 DEF vars, NothingUnsent
<1> QED
  BY <1>1, <1>2, <1>3, <1>4, <1>5, <1>6, <1>7, <1>8, <1>9, <1>10, <1>11, <1>12, <1>13, <1>14
  DEF Next, Receive, Step, Login

(* The answers a handler queues on its connection are sent by the same     *)
(* handler: whatever other workers do, no error, confirmation or login     *)
(* answer waits for a later message.                                       *)
THEOREM AnswersSent == Spec => []NothingUnsent
<1>1. Init => NothingUnsent
  BY DEF Init, NothingUnsent
<1> QED
  BY <1>1, UnsentStep, Typing, PTL DEF Spec

----------------------------------------------------------------------------
(* Queues with a time to live *)

(* lpush() leads to expire() in the same handler, and expire() gives the   *)
(* queue its time to live unless a command is lost: no queue that is       *)
(* there stays for ever.                                                   *)
LEMMA ExpireStep ==
  ASSUME TInv, QueuesExpire, [Next]_vars
  PROVE  QueuesExpire'
<1>0. /\ store \in Stores /\ faults \in Faults /\ budget \in Budgets
      /\ job \in [Workers -> Jobs]
  BY DEF TInv, TypeOK, Faults
<1> DEFINE Waits(u) == \E w \in Workers : job[w].at = "expire" /\ job[w].user = u
           WaitsNext(u) == \E w \in Workers : job'[w].at = "expire" /\ job'[w].user = u
<1> SUFFICES ASSUME faults'["lost"] = 0, NEW u \in Users, store'.queue[u] # <<>>
             PROVE  u \in store'.expiring \/ WaitsNext(u)
  BY DEF QueuesExpire
<1>a. faults["lost"] = 0 => (store.queue[u] # <<>> => u \in store.expiring \/ Waits(u))
  BY DEF QueuesExpire
<1> USE DEF redisVars
<1>1. ASSUME NEW w \in Workers, job[w].at # "expire", Others(w), UNCHANGED <<store, faults>>
      PROVE  u \in store'.expiring \/ WaitsNext(u)
  BY <1>1, <1>a DEF Others
<1>2. ASSUME NEW w \in Workers, job[w].at # "expire", Others(w), NEW after \in Stores,
             after.queue = store.queue, after.expiring = store.expiring, Redis(after)
      PROVE  u \in store'.expiring \/ WaitsNext(u)
  <2>1. faults["lost"] = 0 /\ store' = after
    BY <1>0, <1>2, RedisFacts
  <2> QED
    BY <1>2, <1>a, <2>1 DEF Others
<1>3. ASSUME NEW w \in Workers, lpush(w) PROVE u \in store'.expiring \/ WaitsNext(u)
  <2> DEFINE q == Pushed(job[w].m)
             a == job[w].user
  <2>1. Moved(w, "lpush", "expire") /\ a \in Users /\ job[w].m \in 1..Len(mail)
    BY <1>3, Moves DEF TInv, JobSound, lpush, At
  <2>2. q \in Seq(Entries)
    BY <2>1, PushedTypes
  <2>3. \/ Redis([store EXCEPT !.queue[a] = q \o @])
        \/ /\ FaultsLeft /\ faults' = [faults EXCEPT !["repeated"] = @ + 1]
           /\ store' = [store EXCEPT !.queue[a] = q \o q \o @]
    BY <1>3 DEF lpush
  <2>4. CASE u = a
    BY <2>1, <2>4 DEF Moved
  <2>5. CASE u # a
    <3> HIDE DEF q, a
    <3>1. /\ faults["lost"] = 0
          /\ \/ store' = [store EXCEPT !.queue[a] = q \o @]
             \/ store' = [store EXCEPT !.queue[a] = q \o q \o @]
      <4>1. CASE Redis([store EXCEPT !.queue[a] = q \o @])
        BY <1>0, <2>1, <2>2, <4>1, StoreTypes, RedisFacts
      <4>2. CASE ~Redis([store EXCEPT !.queue[a] = q \o @])
        BY <1>0, <2>3, <4>2, FaultFacts
      <4> QED
        BY <4>1, <4>2
    <3>2. store'.queue[u] = store.queue[u] /\ store'.expiring = store.expiring
      BY <1>0, <2>1, <2>5, <3>1 DEF Stores
    <3> QED
      BY <1>a, <2>1, <3>1, <3>2 DEF Moved, Others
  <2> QED
    BY <2>4, <2>5
<1>4. ASSUME NEW w \in Workers, expire(w) PROVE u \in store'.expiring \/ WaitsNext(u)
  <2> DEFINE a == job[w].user
             after == [store EXCEPT !.expiring = IF store.queue[a] = <<>> THEN @ ELSE @ \cup {a}]
  <2>1. Moved(w, "expire", "flush") /\ a \in Users /\ Redis(after)
    BY <1>4, Moves DEF TInv, JobSound, expire, At
  <2>2. after \in Stores
    BY <2>1, StoreTypes
  <2>3. /\ after.queue = store.queue
        /\ after.expiring = IF store.queue[a] = <<>> THEN store.expiring ELSE store.expiring \cup {a}
    BY <1>0 DEF Stores
  <2> HIDE DEF after
  <2>4. faults["lost"] = 0 /\ store' = after
    BY <1>0, <2>1, <2>2, RedisFacts
  <2> QED
    BY <1>a, <2>1, <2>3, <2>4 DEF Moved, Others
<1>5. ASSUME NEW v \in Users, QueueLapses(v) PROVE u \in store'.expiring \/ WaitsNext(u)
  <2>1. store' = [[store EXCEPT !.queue[v] = <<>>] EXCEPT !.expiring = @ \ {v}]
        /\ UNCHANGED <<job, faults>>
    BY <1>5 DEF QueueLapses
  <2>2. /\ store'.queue[u] = IF u = v THEN <<>> ELSE store.queue[u]
        /\ store'.expiring = store.expiring \ {v}
    BY <1>0, <2>1 DEF Stores
  <2> QED
    BY <1>a, <2>1, <2>2
<1>6. ASSUME NEW v \in Users, PresenceLapses(v) PROVE u \in store'.expiring \/ WaitsNext(u)
  <2>1. store' = [store EXCEPT !.online = @ \ {v}] /\ UNCHANGED <<job, faults>>
    BY <1>6 DEF PresenceLapses
  <2>2. store'.queue = store.queue /\ store'.expiring = store.expiring
    BY <1>0, <2>1 DEF Stores
  <2> QED
    BY <1>a, <2>1, <2>2
<1>7. ASSUME UNCHANGED <<job, store, faults>> PROVE u \in store'.expiring \/ WaitsNext(u)
  BY <1>7, <1>a
<1>8. ASSUME NEW id \in budget.ids,
             on_client_disconnected(id) \/ Receive(id)
      PROVE  u \in store'.expiring \/ WaitsNext(u)
  <2>1. UNCHANGED <<store, faults>>
    BY <1>8 DEF Receive, on_client_disconnected, RefuseMessage, handle_read_receipt,
                handle_typing_indicator, handle_authentication, handle_message
  <2>2. WorkerOf[id] \in Workers /\ job[WorkerOf[id]].at # "expire" /\ Others(WorkerOf[id])
    BY <1>8, Entrances DEF Receive, Entered
  <2> QED
    BY <1>1, <2>1, <2>2
<1>9. ASSUME NEW w \in Workers, mark_user_online(w) PROVE u \in store'.expiring \/ WaitsNext(u)
  <2> DEFINE after == [store EXCEPT !.online = @ \cup {job[w].user}]
  <2>1. Moved(w, "online", "ratchet") /\ job[w].user \in Users /\ Redis(after)
    BY <1>9, Moves DEF TInv, JobSound, mark_user_online, At
  <2>2. after \in Stores /\ after.queue = store.queue /\ after.expiring = store.expiring
    BY <1>0, <2>1, StoreTypes DEF Stores
  <2> QED
    BY <1>2, <2>1, <2>2 DEF Moved
<1>10. ASSUME NEW w \in Workers, mark_user_offline(w) PROVE u \in store'.expiring \/ WaitsNext(u)
  <2> DEFINE after == [store EXCEPT !.online = @ \ {job[w].user}]
  <2>1. Moved(w, "offline", "remove") /\ job[w].user \in Users /\ Redis(after)
    BY <1>10, Moves DEF TInv, JobSound, mark_user_offline, At
  <2>2. after \in Stores /\ after.queue = store.queue /\ after.expiring = store.expiring
    BY <1>0, <2>1, StoreTypes DEF Stores
  <2> QED
    BY <1>2, <2>1, <2>2 DEF Moved
<1>11. ASSUME NEW w \in Workers, PublishOrHset(w) PROVE u \in store'.expiring \/ WaitsNext(u)
  <2>1. Moved(w, "publish", "flush") /\ Redis(store)
    BY <1>11, Moves DEF PublishOrHset
  <2> QED
    BY <1>0, <1>2, <2>1 DEF Moved
<1>12. ASSUME NEW w \in Workers,
              \/ register_user(w) \/ LockRatchets(w) \/ AuthSuccess(w)
              \/ remove_connection(w) \/ Flush(w)
       PROVE  u \in store'.expiring \/ WaitsNext(u)
  <2>1. UNCHANGED <<store, faults>>
    BY <1>12 DEF register_user, LockRatchets, AuthSuccess, remove_connection, Flush
  <2>2. job[w].at # "expire" /\ Others(w)
    BY <1>12, Moves DEF Moved, Returned
  <2> QED
    BY <1>1, <2>1, <2>2
<1>13. ASSUME \/ \E id \in budget.ids : on_client_connected(id)
              \/ \E w \in Workers : CommandOnNull(w)
              \/ start \/ stop \/ UNCHANGED vars
       PROVE  u \in store'.expiring \/ WaitsNext(u)
  <2>1. UNCHANGED <<job, store, faults>>
    BY <1>13 DEF on_client_connected, CommandOnNull, start, stop, vars
  <2> QED
    BY <1>7, <2>1
<1> QED
  BY <1>3, <1>4, <1>5, <1>6, <1>8, <1>9, <1>10, <1>11, <1>12, <1>13 DEF Next, Step, Login

(* A message queue in Redis has a time to live whenever no handler is      *)
(* between its LPUSH and its EXPIRE, unless a command was lost.            *)
THEOREM NoQueueForEver == Spec => []QueuesExpire
<1>1. Init => QueuesExpire
  BY DEF Init, QueuesExpire
<1> QED
  BY <1>1, ExpireStep, Typing, PTL DEF Spec

----------------------------------------------------------------------------
(* Presence *)

(* The connection is past DEL online:<user> and about to be removed; it is *)
(* being logged in and not yet announced.                                  *)
Closing(id) == job[WorkerOf[id]].at = "remove" /\ job[WorkerOf[id]].id = id
Logging(id) == job[WorkerOf[id]].at \in {"register", "online"} /\ job[WorkerOf[id]].id = id

(* Stronger than OnlineHasConnection: the connection a presence key stands *)
(* for is not one that is about to be removed.                             *)
OnlineSound ==
  used = {} /\ faults["lost"] = 0 =>
    \A u \in store.online : \E id \in Live : user_id_[id] = u /\ ~Closing(id)

PresInv == OnlineSound /\ PresenceKept

(* Whether a step that leaves the pool and presence alone changes which    *)
(* connections are closing or logging in depends on the jobs only.         *)
LEMMA PresQuiet ==
  ASSUME TInv, PresInv, UNCHANGED <<connections_, user_id_, used, away>>,
         store'.online = store.online, faults'["lost"] = 0 => faults["lost"] = 0,
         \A id \in Ids : job'[WorkerOf[id]].at = "remove" /\ job'[WorkerOf[id]].id = id => Closing(id),
         \A id \in Ids : Logging(id) =>
           job'[WorkerOf[id]].at \in {"register", "online"} /\ job'[WorkerOf[id]].id = id
  PROVE  PresInv'
<1>1. OnlineSound'
  BY DEF PresInv, OnlineSound, Closing, Live, Pool!Live
<1>2. PresenceKept'
  BY DEF PresInv, PresenceKept, Logging, Live, Pool!Live
<1> QED
  BY <1>1, <1>2 DEF PresInv

(* A worker moves between labels that have nothing to do with presence.    *)
LEMMA PresMoved ==
  ASSUME TInv, NEW w \in Workers, Others(w), job[w].at \notin {"register", "online"},
         job'[w].at # "remove"
  PROVE  /\ \A id \in Ids : job'[WorkerOf[id]].at = "remove" /\ job'[WorkerOf[id]].id = id => Closing(id)
         /\ \A id \in Ids : Logging(id) =>
              job'[WorkerOf[id]].at \in {"register", "online"} /\ job'[WorkerOf[id]].id = id
  BY JobTypes DEF Others, Closing, Logging

LEMMA PresStep ==
  ASSUME TInv, ConnSound, PresInv, [Next]_vars
  PROVE  PresInv'
<1>0. /\ store \in Stores /\ store.online \subseteq Users /\ faults \in Faults /\ budget \in Budgets
      /\ \A w \in Workers : job[w].at # "idle" => job[w].id \in Ids /\ WorkerOf[job[w].id] = w
  BY DEF TInv, TypeOK, JobSound, Faults, Stores
<1> USE DEF redisVars, histVars
<1>1. ASSUME NEW id \in budget.ids, on_client_connected(id) PROVE PresInv'
  <2>1. /\ id \in Ids /\ WorkerOf[id] \in Workers /\ job[WorkerOf[id]].at = "idle"
        /\ UNCHANGED <<job, store, faults, away>>
    BY <1>1, Entrances DEF on_client_connected
  <2>2. CASE Pool!create_connection(id)
    <3>1. /\ connections_'[id] = "live" /\ user_id_'[id] = NoUser
          /\ \A i \in Ids \ {id} : connections_'[i] = connections_[i] /\ user_id_'[i] = user_id_[i]
          /\ used' = {} => used = {} /\ id \notin Live
      BY <2>1, <2>2, PoolEffects
    <3>2. OnlineSound'
      BY <2>1, <3>1 DEF PresInv, OnlineSound, Closing, Live, Pool!Live
    <3>3. PresenceKept'
      BY <2>1, <3>1, PoolAssumption DEF PresInv, PresenceKept, Live, Pool!Live
    <3> QED
      BY <3>2, <3>3 DEF PresInv
  <2>3. CASE ~Pool!create_connection(id)
    <3>1. UNCHANGED poolVars
      BY <1>1, <2>3 DEF on_client_connected
    <3> QED
      BY <2>1, <3>1, PresQuiet DEF poolVars, Closing, Logging
  <2> QED
    BY <2>2, <2>3
<1>2. ASSUME NEW id \in budget.ids, on_client_disconnected(id) PROVE PresInv'
  <2>1. UNCHANGED <<connections_, user_id_, used, away, store, faults>>
    BY <1>2 DEF on_client_disconnected, poolVars
  <2>2. CASE Entered(id, "offline", user_id_[id], 0)
    <3>1. WorkerOf[id] \in Workers /\ Others(WorkerOf[id]) /\ job[WorkerOf[id]].at = "idle"
          /\ job'[WorkerOf[id]].at = "offline"
      BY <2>2 DEF Entered
    <3> QED
      BY <2>1, <3>1, PresMoved, PresQuiet
  <2>3. CASE (id \notin Live \/ user_id_[id] = NoUser) /\ Entered(id, "remove", NoUser, 0)
    <3>1. \A i \in Ids \ {id} : /\ ~(job'[WorkerOf[i]].at = "remove" /\ job'[WorkerOf[i]].id = i)
                                   \/ Closing(i)
                                /\ Logging(i) => job'[WorkerOf[i]] = job[WorkerOf[i]]
      BY <2>3, JobTypes DEF Entered, Others, Closing, Logging
    <3>2. ~Logging(id) /\ id \in Ids
      BY <2>3 DEF Entered, Logging
    <3>3. OnlineSound'
      BY <1>0, <2>1, <2>3, <3>1, PoolAssumption
      DEF PresInv, OnlineSound, Closing, Live, Pool!Live
    <3>4. PresenceKept'
      BY <1>0, <2>1, <2>3, <3>1, <3>2, PoolAssumption
      DEF PresInv, PresenceKept, Logging, Live, Pool!Live
    <3> QED
      BY <3>3, <3>4 DEF PresInv
  <2> QED
    BY <1>2, <2>2, <2>3, Entrances
<1>3. ASSUME NEW id \in budget.ids,
             \/ RefuseMessage(id) \/ handle_read_receipt(id) \/ handle_typing_indicator(id)
             \/ \E u \in budget.names, k \in budget.words : handle_message(id, u, k)
      PROVE  PresInv'
  <2>1. UNCHANGED <<connections_, user_id_, used, away, store, faults>>
    BY <1>3 DEF RefuseMessage, handle_read_receipt, handle_typing_indicator, handle_message, poolVars
  <2>2. /\ WorkerOf[id] \in Workers /\ job[WorkerOf[id]].at = "idle" /\ Others(WorkerOf[id])
        /\ job'[WorkerOf[id]].at # "remove"
    BY <1>3, Entrances DEF Entered
  <2> QED
    BY <2>1, <2>2, PresMoved, PresQuiet
<1>4. ASSUME NEW id \in budget.ids, NEW u \in budget.names, handle_authentication(id, u)
      PROVE  PresInv'
  <2>1. u \in Users /\ Entered(id, "register", u, 0) /\ id \in Ids
        /\ UNCHANGED <<store, faults, away>>
    BY <1>4, Entrances DEF handle_authentication
  <2>2. /\ id \in Live /\ UNCHANGED connections_
        /\ user_id_'[id] = u
        /\ \A i \in Ids \ {id} : user_id_'[i] = user_id_[i]
        /\ used' = {} => used = {} /\ user_id_[id] = NoUser
    BY <1>4, <2>1, PoolEffects DEF handle_authentication
  <2>3. \A i \in Ids : ~(job'[WorkerOf[i]].at = "remove" /\ job'[WorkerOf[i]].id = i) \/ Closing(i)
    BY <2>1, JobTypes DEF Entered, Others, Closing
  <2>4. \A i \in Ids \ {id} : Logging(i) => job'[WorkerOf[i]] = job[WorkerOf[i]]
    BY <2>1, JobTypes DEF Entered, Others, Logging
  <2>5. job'[WorkerOf[id]].at = "register" /\ job'[WorkerOf[id]].id = id
    BY <2>1 DEF Entered
  <2>6. OnlineSound'
    BY <1>0, <2>1, <2>2, <2>3, PoolAssumption DEF PresInv, OnlineSound, Closing, Live, Pool!Live
  <2>7. PresenceKept'
    BY <1>0, <2>1, <2>2, <2>4, <2>5 DEF PresInv, PresenceKept, Logging, Live, Pool!Live
  <2> QED
    BY <2>6, <2>7 DEF PresInv
<1>5. ASSUME NEW w \in Workers, register_user(w) PROVE PresInv'
  <2>1. Moved(w, "register", "online") /\ UNCHANGED <<store, faults, away>>
    BY <1>5, Moves DEF register_user
  <2>2. UNCHANGED <<connections_, user_id_, used>>
    BY <1>5, <2>1, PoolEffects DEF register_user, Moved
  <2>3. /\ \A id \in Ids : job'[WorkerOf[id]].at = "remove" /\ job'[WorkerOf[id]].id = id => Closing(id)
        /\ \A id \in Ids : Logging(id) =>
             job'[WorkerOf[id]].at \in {"register", "online"} /\ job'[WorkerOf[id]].id = id
    BY <2>1, JobTypes DEF Moved, Others, Closing, Logging
  <2> QED
    BY <2>1, <2>2, <2>3, PresQuiet
<1>6. ASSUME NEW w \in Workers, mark_user_online(w) PROVE PresInv'
  <2> DEFINE u == job[w].user
             c == job[w].id
             after == [store EXCEPT !.online = @ \cup {u}]
  <2>1. /\ Moved(w, "online", "ratchet") /\ u \in Users /\ Redis(after)
        /\ away' = away \ {u} /\ UNCHANGED <<connections_, user_id_, used>>
    BY <1>6, Moves DEF TInv, JobSound, mark_user_online, At, poolVars
  <2>2. after \in Stores /\ after.online = store.online \cup {u}
    BY <1>0, <2>1, StoreTypes DEF Stores
  <2>3. faults'["lost"] = 0 => faults["lost"] = 0 /\ store' = after
    BY <1>0, <2>1, <2>2, RedisFacts
  <2>4. c \in Ids /\ c \in Live /\ user_id_[c] = u /\ WorkerOf[c] = w
    BY <2>1 DEF Moved, ConnSound, CommandPCs
  <2>5. \A i \in Ids : /\ ~(job'[WorkerOf[i]].at = "remove" /\ job'[WorkerOf[i]].id = i) \/ Closing(i)
                       /\ i # c /\ Logging(i) => job'[WorkerOf[i]] = job[WorkerOf[i]]
    BY <2>1, <2>4, JobTypes DEF Moved, Others, Closing, Logging
  <2>6. job'[w].at = "ratchet"
    BY <2>1 DEF Moved
  <2> HIDE DEF u, c, after
  <2>7. OnlineSound'
    BY <2>1, <2>2, <2>3, <2>4, <2>5, <2>6 DEF PresInv, OnlineSound, Closing, Live, Pool!Live
  <2>8. PresenceKept'
    BY <2>1, <2>2, <2>3, <2>4, <2>5 DEF PresInv, PresenceKept, Logging, Live, Pool!Live
  <2> QED
    BY <2>7, <2>8 DEF PresInv
<1>7. ASSUME NEW w \in Workers, mark_user_offline(w) PROVE PresInv'
  <2> DEFINE u == job[w].user
             c == job[w].id
             after == [store EXCEPT !.online = @ \ {u}]
  <2>1. /\ Moved(w, "offline", "remove") /\ u \in Users /\ Redis(after)
        /\ away' = away \cup {u} /\ UNCHANGED <<connections_, user_id_, used>>
    BY <1>7, Moves DEF TInv, JobSound, mark_user_offline, At, poolVars
  <2>2. after \in Stores /\ after.online = store.online \ {u}
    BY <1>0, <2>1, StoreTypes DEF Stores
  <2>3. faults'["lost"] = 0 => faults["lost"] = 0 /\ store' = after
    BY <1>0, <2>1, <2>2, RedisFacts
  <2>4. c \in Ids /\ user_id_[c] = u /\ WorkerOf[c] = w
    BY <2>1 DEF Moved, ConnSound
  <2>5. \A i \in Ids : /\ i # c => ~(job'[WorkerOf[i]].at = "remove" /\ job'[WorkerOf[i]].id = i) \/ Closing(i)
                       /\ Logging(i) => job'[WorkerOf[i]] = job[WorkerOf[i]]
    BY <2>1, <2>4, JobTypes DEF Moved, Others, Closing, Logging
  <2> HIDE DEF u, c, after
  <2>7. OnlineSound'
    BY <2>1, <2>2, <2>3, <2>4, <2>5 DEF PresInv, OnlineSound, Closing, Live, Pool!Live
  <2>8. PresenceKept'
    BY <2>1, <2>2, <2>3, <2>4, <2>5 DEF PresInv, PresenceKept, Logging, Live, Pool!Live
  <2> QED
    BY <2>7, <2>8 DEF PresInv
<1>8. ASSUME NEW w \in Workers, remove_connection(w) PROVE PresInv'
  <2> DEFINE c == job[w].id
  <2>1. Returned(w, "remove") /\ c \in Ids /\ WorkerOf[c] = w /\ UNCHANGED <<store, faults, away>>
    BY <1>8, Moves DEF Returned, remove_connection
  <2>2. /\ connections_'[c] # "live" /\ UNCHANGED used
        /\ \A i \in Ids \ {c} : connections_'[i] = connections_[i] /\ user_id_'[i] = user_id_[i]
    <3>1. CASE Pool!remove_connection(c)
      BY <2>1, <3>1, PoolEffects DEF ConnSound
    <3>2. CASE ~Pool!remove_connection(c)
      BY <1>8, <2>1, <3>2 DEF remove_connection, poolVars, Live, Pool!Live
    <3> QED
      BY <3>1, <3>2
  <2>3. Closing(c)
    BY <2>1 DEF Returned, Closing
  <2>4. \A i \in Ids : /\ ~(job'[WorkerOf[i]].at = "remove" /\ job'[WorkerOf[i]].id = i) \/ Closing(i)
                       /\ Logging(i) => job'[WorkerOf[i]] = job[WorkerOf[i]]
    BY <2>1, JobTypes DEF Returned, Others, Closing, Logging
  <2> HIDE DEF c
  <2>5. OnlineSound'
    BY <2>1, <2>2, <2>3, <2>4 DEF PresInv, OnlineSound, Closing, Live, Pool!Live
  <2>6. PresenceKept'
    BY <2>1, <2>2, <2>4 DEF PresInv, PresenceKept, Logging, Live, Pool!Live
  <2> QED
    BY <2>5, <2>6 DEF PresInv
<1>9. ASSUME NEW w \in Workers, lpush(w) PROVE PresInv'
  <2> DEFINE q == Pushed(job[w].m)
             a == job[w].user
  <2>1. /\ Moved(w, "lpush", "expire") /\ a \in Users /\ job[w].m \in 1..Len(mail)
        /\ UNCHANGED <<connections_, user_id_, used, away>>
    BY <1>9, Moves DEF TInv, JobSound, lpush, At, poolVars
  <2>2. q \in Seq(Entries)
    BY <2>1, PushedTypes
  <2>3. \/ Redis([store EXCEPT !.queue[a] = q \o @])
        \/ /\ FaultsLeft /\ faults' = [faults EXCEPT !["repeated"] = @ + 1]
           /\ store' = [store EXCEPT !.queue[a] = q \o q \o @]
    BY <1>9 DEF lpush
  <2> HIDE DEF q, a
  <2>4. store'.online = store.online /\ (faults'["lost"] = 0 => faults["lost"] = 0)
    <3>1. CASE Redis([store EXCEPT !.queue[a] = q \o @])
      <4>1. [store EXCEPT !.queue[a] = q \o @] \in Stores
            /\ [store EXCEPT !.queue[a] = q \o @].online = store.online
        BY <1>0, <2>1, <2>2, StoreTypes DEF Stores
      <4> QED
        BY <1>0, <3>1, <4>1, RedisFacts
    <3>2. CASE ~Redis([store EXCEPT !.queue[a] = q \o @])
      BY <1>0, <2>3, <3>2, FaultFacts DEF Stores
    <3> QED
      BY <3>1, <3>2
  <2> QED
    BY <2>1, <2>4, PresMoved, PresQuiet DEF Moved
<1>10. ASSUME NEW w \in Workers, expire(w) PROVE PresInv'
  <2> DEFINE a == job[w].user
             after == [store EXCEPT !.expiring = IF store.queue[a] = <<>> THEN @ ELSE @ \cup {a}]
  <2>1. /\ Moved(w, "expire", "flush") /\ a \in Users /\ Redis(after)
        /\ UNCHANGED <<connections_, user_id_, used, away>>
    BY <1>10, Moves DEF TInv, JobSound, expire, At, poolVars
  <2>2. after \in Stores /\ after.online = store.online
    BY <1>0, <2>1, StoreTypes DEF Stores
  <2> HIDE DEF after
  <2>3. store'.online = store.online /\ (faults'["lost"] = 0 => faults["lost"] = 0)
    BY <1>0, <2>1, <2>2, RedisFacts
  <2> QED
    BY <2>1, <2>3, PresMoved, PresQuiet DEF Moved
<1>11. ASSUME NEW w \in Workers, PublishOrHset(w) PROVE PresInv'
  <2>1. /\ Moved(w, "publish", "flush") /\ Redis(store)
        /\ UNCHANGED <<connections_, user_id_, used, away>>
    BY <1>11, Moves DEF PublishOrHset, poolVars
  <2>2. store'.online = store.online /\ (faults'["lost"] = 0 => faults["lost"] = 0)
    BY <1>0, <2>1, RedisFacts
  <2> QED
    BY <2>1, <2>2, PresMoved, PresQuiet DEF Moved
<1>12. ASSUME NEW w \in Workers, LockRatchets(w) \/ AuthSuccess(w) \/ Flush(w) PROVE PresInv'
  <2>1. UNCHANGED <<connections_, user_id_, used, away, store, faults>>
    BY <1>12 DEF LockRatchets, AuthSuccess, Flush, poolVars
  <2>2. job[w].at \notin {"register", "online"} /\ job'[w].at # "remove" /\ Others(w)
    BY <1>12, Moves DEF Moved, Returned
  <2> QED
    BY <2>1, <2>2, PresMoved, PresQuiet
<1>13. ASSUME NEW v \in Users, PresenceLapses(v) PROVE PresInv'
  <2>1. /\ store' = [store EXCEPT !.online = @ \ {v}] /\ away' = away \cup {v}
        /\ UNCHANGED <<job, faults, connections_, user_id_, used>>
    BY <1>13 DEF PresenceLapses, poolVars
  <2>2. store'.online = store.online \ {v}
    BY <1>0, <2>1 DEF Stores
  <2>3. OnlineSound'
    BY <2>1, <2>2 DEF PresInv, OnlineSound, Closing, Live, Pool!Live
  <2>4. PresenceKept'
    BY <2>1, <2>2 DEF PresInv, PresenceKept, Live, Pool!Live
  <2> QED
    BY <2>3, <2>4 DEF PresInv
<1>14. ASSUME NEW v \in Users, QueueLapses(v) PROVE PresInv'
  <2>1. /\ store' = [[store EXCEPT !.queue[v] = <<>>] EXCEPT !.expiring = @ \ {v}]
        /\ UNCHANGED <<job, faults, connections_, user_id_, used, away>>
    BY <1>14 DEF QueueLapses, poolVars
  <2>2. store'.online = store.online
    BY <1>0, <2>1 DEF Stores
  <2> QED
    BY <2>1, <2>2, PresQuiet DEF Closing, Logging
<1>15. ASSUME (\E w \in Workers : CommandOnNull(w)) \/ start \/ stop \/ UNCHANGED vars
       PROVE  PresInv'
  <2>1. UNCHANGED <<job, store, faults, connections_, user_id_, used, away>>
    BY <1>15 DEF CommandOnNull, start, stop, vars, poolVars
  <2> QED
    BY <2>1, PresQuiet DEF Closing, Logging
<1> QED
  BY <1>1, <1>2, <1>3, <1>4, <1>5, <1>6, <1>7, <1>8, <1>9, <1>10, <1>11, <1>12, <1>13, <1>14, <1>15
  DEF Next, Receive, Step, Login

LEMMA PresenceInvariant == Spec => []PresInv
<1>1. Init => PresInv
  BY DEF Init, Pool!Init, PresInv, OnlineSound, PresenceKept, Live, Pool!Live
<1> QED
  BY <1>1, PresStep, Typing, Connections, PTL DEF Spec

(* A presence key stands for a live connection of that user, although key  *)
(* and pool change in separate steps and the closing of one connection     *)
(* races with the login of another, unless a connection logs in twice or a *)
(* command is lost: mark_user_offline() comes before remove_connection().  *)
THEOREM OnlineIsConnected == Spec => []OnlineHasConnection
<1>1. PresInv => OnlineHasConnection
  BY DEF PresInv, OnlineSound, OnlineHasConnection
<1> QED
  BY <1>1, PresenceInvariant, PTL

(* Who has logged in on a connection that is still there is shown online   *)
(* until the key lapses or one of the user's connections closes, unless a  *)
(* connection logs in twice or a command is lost.                          *)
THEOREM ConnectedIsOnline == Spec => []PresenceKept
<1>1. PresInv => PresenceKept
  BY DEF PresInv
<1> QED
  BY <1>1, PresenceInvariant, PTL

----------------------------------------------------------------------------
(* The order of the queues *)

LEMMA ConcatIndex ==
  ASSUME NEW S, NEW p \in Seq(S), NEW q \in Seq(S)
  PROVE  /\ \A i \in DOMAIN (p \o q) :
              \/ i \in DOMAIN p /\ (p \o q)[i] = p[i]
              \/ i - Len(p) \in DOMAIN q /\ (p \o q)[i] = q[i - Len(p)] /\ i > Len(p)
         /\ \A i \in DOMAIN p : i \in DOMAIN (p \o q) /\ (p \o q)[i] = p[i] /\ i \in 1..Len(p)
         /\ \A j \in DOMAIN q : j + Len(p) \in DOMAIN (p \o q) /\ (p \o q)[j + Len(p)] = q[j]
  OBVIOUS

(* What LPUSH of message m by w put in front of the queue of w's addressee.*)
PushedBy(w, p) ==
  LET u == job[w].user  m == job[w].m IN
  /\ p \in Seq(Entries) /\ \A i \in DOMAIN p : p[i][1] = m
  /\ store'.queue = [store.queue EXCEPT ![u] = p \o @]
  /\ \/ p = <<>> /\ faults'["lost"] = faults["lost"] + 1 /\ faults'["repeated"] = faults["repeated"]
     \/ p = Pushed(m) /\ faults' = faults
     \/ /\ faults'["repeated"] = faults["repeated"] + 1 /\ faults'["lost"] = faults["lost"]
        /\ p = Pushed(m) \o Pushed(m)

LEMMA PushedFirst ==
  ASSUME TInv, NEW m \in 1..Len(mail)
  PROVE  /\ \A i \in DOMAIN Pushed(m) : Pushed(m)[i][1] = m
         /\ mail[m].words = 1 => Pushed(m) = <<<<m, "whole">>>>
<1>1. mail[m].words = 0 \/ mail[m].words = 1 \/ mail[m].words = 2
  <2>1. mail \in Seq([from : Ids, to : Users, words : budget.words])
    BY DEF TInv, TypeOK
  <2>2. mail[m] \in [from : Ids, to : Users, words : budget.words]
    BY <2>1, SeqElement
  <2>3. mail[m].words \in budget.words
    BY <2>2
  <2> QED
    BY <2>3, JobTypes
<1>2. CASE mail[m].words = 0
  BY <1>2 DEF Pushed
<1>3. CASE mail[m].words = 1
  BY <1>3 DEF Pushed
<1>4. CASE mail[m].words = 2
  BY <1>4 DEF Pushed
<1> QED
  BY <1>1, <1>2, <1>3, <1>4

LEMMA PushEffect ==
  ASSUME TInv, NEW w \in Workers, lpush(w)
  PROVE  \E p : PushedBy(w, p)
<1>0. /\ store \in Stores /\ faults \in Faults /\ budget \in Budgets
  BY DEF TInv, TypeOK, Faults
<1>1. PICK u : u = job[w].user
  OBVIOUS
<1>2. PICK m : m = job[w].m
  OBVIOUS
<1>3. u \in Users /\ m \in 1..Len(mail)
  BY <1>1, <1>2 DEF TInv, JobSound, lpush, At
<1>4. PICK q : q = Pushed(m)
  OBVIOUS
<1>5. q \in Seq(Entries) /\ \A i \in DOMAIN q : q[i][1] = m
  BY <1>3, <1>4, PushedTypes, PushedFirst
<1>6. \/ Redis([store EXCEPT !.queue[u] = q \o @])
      \/ /\ FaultsLeft /\ faults' = [faults EXCEPT !["repeated"] = @ + 1]
         /\ store' = [store EXCEPT !.queue[u] = q \o q \o @]
  BY <1>1, <1>2, <1>4 DEF lpush
<1>7. \A p \in Seq(Entries) : LET after == [store EXCEPT !.queue[u] = p \o @] IN
        after.queue = [store.queue EXCEPT ![u] = p \o @]
  BY <1>0 DEF Stores
<1>8. CASE Redis([store EXCEPT !.queue[u] = q \o @])
  <2> DEFINE after == [store EXCEPT !.queue[u] = q \o @]
  <2>1. after \in Stores /\ Redis(after) /\ after.queue = [store.queue EXCEPT ![u] = q \o @]
    BY <1>3, <1>5, <1>7, <1>8, StoreTypes
  <2> HIDE DEF after
  <2>2. \/ store' = after /\ faults' = faults
        \/ store' = store /\ faults'["lost"] = faults["lost"] + 1
                          /\ faults'["repeated"] = faults["repeated"]
    BY <1>0, <2>1, RedisFacts
  <2>3. CASE store' = after /\ faults' = faults
    <3>1. PushedBy(w, q)
      BY <1>1, <1>2, <1>4, <1>5, <2>1, <2>3 DEF PushedBy
    <3> QED
      BY <3>1
  <2>4. CASE store' = store /\ faults'["lost"] = faults["lost"] + 1 /\ faults'["repeated"] = faults["repeated"]
    <3>1. PICK none : none = <<>>
      OBVIOUS
    <3>2. none \in Seq(Entries) /\ \A i \in DOMAIN none : none[i][1] = m
      BY <3>1
    <3>3. store.queue = [store.queue EXCEPT ![u] = none \o @]
      <4>1. store.queue \in [Users -> Seq(Entries)]
        BY <1>0 DEF Stores
      <4>2. none \o store.queue[u] = store.queue[u]
        BY <1>3, <3>1, <4>1
      <4> QED
        BY <4>1, <4>2
    <3>4. PushedBy(w, none)
      BY <1>1, <1>2, <2>4, <3>1, <3>2, <3>3 DEF PushedBy
    <3> QED
      BY <3>4
  <2> QED
    BY <2>2, <2>3, <2>4
<1>9. CASE /\ FaultsLeft /\ faults' = [faults EXCEPT !["repeated"] = @ + 1]
           /\ store' = [store EXCEPT !.queue[u] = q \o q \o @]
  <2>1. PICK p : p = q \o q
    OBVIOUS
  <2>2. p \in Seq(Entries) /\ \A i \in DOMAIN p : p[i][1] = m
    <3>1. \A i \in DOMAIN (q \o q) : (q \o q)[i][1] = m
      BY <1>5, ConcatIndex
    <3> QED
      BY <1>5, <2>1, <3>1
  <2>3. faults'["repeated"] = faults["repeated"] + 1 /\ faults'["lost"] = faults["lost"]
    BY <1>0, <1>9, FaultFacts
  <2>4. store'.queue = [store.queue EXCEPT ![u] = p \o @]
    BY <1>7, <1>9, <2>1, <2>2
  <2>5. PushedBy(w, p)
    BY <1>1, <1>2, <1>4, <2>1, <2>2, <2>3, <2>4 DEF PushedBy
  <2> QED
    BY <2>5
<1> QED
  BY <1>6, <1>8, <1>9

(* Message n lies in the queue of u; a confirmation of it is not yet sent. *)
Queued(u, n) == \E i \in DOMAIN store.queue[u] : store.queue[u][i][1] = n
Unsent(n)    == \E id \in Ids : \E i \in DOMAIN outgoing_queue_[id] : outgoing_queue_[id][i].m = n

(* A message that is about to be pushed is the last one its connection     *)
(* sent, and is neither stored nor confirmed yet.                          *)
Newest(w) ==
  LET m == job[w].m IN
  /\ mail[m].from = job[w].id /\ mail[m].to = job[w].user
  /\ \A n \in 1..Len(mail) : mail[n].from = job[w].id => n <= m
  /\ m \notin acked /\ ~Unsent(m) /\ \A u \in Users : ~Queued(u, m)

MailSound ==
  /\ \A u \in Users : \A i \in DOMAIN store.queue[u] : store.queue[u][i][1] \in 1..Len(mail)
  /\ \A id \in Ids : \A i \in DOMAIN outgoing_queue_[id] : outgoing_queue_[id][i].m \in 0..Len(mail)
  /\ acked \subseteq 1..Len(mail)
  /\ \A w \in Workers : job[w].at = "lpush" => Newest(w)
  /\ \A w, v \in Workers :
       w # v /\ job[w].at = "lpush" /\ job[v].at \in {"lpush", "expire"} => job[w].m # job[v].m


(* What all steps but the receipt of a message and its LPUSH have in       *)
(* common: no worker comes to or leaves an LPUSH, none comes to an EXPIRE; *)
(* queues stay or time out; and what is confirmed had been queued.         *)
JobsQuiet ==
  \A w \in Workers : /\ job'[w].at \in {"lpush", "expire"} => job'[w] = job[w]
                     /\ job[w].at = "lpush" => job'[w] = job[w]
StoreQuiet ==
  /\ \A u \in Users : \/ store'.queue[u] = store.queue[u]
                      \/ store'.queue[u] = <<>> /\ \A n : Queued(u, n) => n \in timedOut'
  /\ timedOut \subseteq timedOut'
  /\ faults'["lost"] >= faults["lost"] /\ faults'["repeated"] >= faults["repeated"]
AnswersQuiet ==
  /\ \A n \in acked' : n \in acked \/ (Unsent(n) /\ n # 0)
  /\ \A id \in Ids : \A i \in DOMAIN outgoing_queue_'[id] :
       LET n == outgoing_queue_'[id][i].m IN
       n = 0 \/ Unsent(n) \/ \E w \in Workers : job[w].at = "expire" /\ job[w].m = n
QuietMail == mail' = mail /\ JobsQuiet /\ StoreQuiet /\ AnswersQuiet

LEMMA FaultNumbers ==
  ASSUME TInv
  PROVE  faults["lost"] \in Nat /\ faults["repeated"] \in Nat
<1>1. budget.faults \in Nat /\ faults \in [{"lost", "repeated"} -> 0..budget.faults]
  BY BudgetsAssumption, JobTypes DEF Faults
<1> QED
  BY <1>1

LEMMA JobsQuietBy ==
  /\ UNCHANGED job => JobsQuiet
  /\ \A w \in Workers : \A from, to :
       Moved(w, from, to) /\ from # "lpush" /\ to \notin {"lpush", "expire"} => JobsQuiet
  /\ \A w \in Workers : \A from : Returned(w, from) /\ from # "lpush" => JobsQuiet
  /\ \A id \in Ids : \A to, u, m :
       Entered(id, to, u, m) /\ to \notin {"lpush", "expire"} => JobsQuiet
<1>1. UNCHANGED job => JobsQuiet
  BY DEF JobsQuiet
<1>2. ASSUME NEW w \in Workers, NEW from, NEW to, Moved(w, from, to), from # "lpush",
             to \notin {"lpush", "expire"}
      PROVE  JobsQuiet
  BY <1>2 DEF JobsQuiet, Moved, Others
<1>3. ASSUME NEW w \in Workers, NEW from, Returned(w, from), from # "lpush" PROVE JobsQuiet
  BY <1>3 DEF JobsQuiet, Returned, Others
<1>4. ASSUME NEW id \in Ids, NEW to, NEW u, NEW m, Entered(id, to, u, m), to \notin {"lpush", "expire"}
      PROVE  JobsQuiet
  BY <1>4 DEF JobsQuiet, Entered, Others
<1> QED
  BY <1>1, <1>2, <1>3, <1>4

LEMMA StoreQuietBy ==
  ASSUME TInv
  PROVE  /\ UNCHANGED <<store, faults, timedOut>> => StoreQuiet
         /\ \A after \in Stores :
              Redis(after) /\ after.queue = store.queue /\ UNCHANGED timedOut => StoreQuiet
<1>0. faults["lost"] \in Nat /\ faults["repeated"] \in Nat
  BY FaultNumbers
<1>1. UNCHANGED <<store, faults, timedOut>> => StoreQuiet
  BY <1>0 DEF StoreQuiet
<1>2. ASSUME NEW after \in Stores, Redis(after), after.queue = store.queue, UNCHANGED timedOut
      PROVE  StoreQuiet
  <2>1. budget \in Budgets /\ faults \in Faults /\ store \in Stores
    BY DEF TInv, TypeOK, Faults
  <2>2. \/ store' = after /\ faults' = faults
        \/ store' = store /\ faults'["lost"] = faults["lost"] + 1
                          /\ faults'["repeated"] = faults["repeated"]
    BY <1>2, <2>1, RedisFacts
  <2> QED
    BY <1>0, <1>2, <2>2 DEF StoreQuiet
<1> QED
  BY <1>1, <1>2

LEMMA AnswersQuietBy ==
  ASSUME TInv
  PROVE  /\ UNCHANGED <<outgoing_queue_, acked>> => AnswersQuiet
         /\ \A id \in Ids : outgoing_queue_' = [outgoing_queue_ EXCEPT ![id] = <<>>] /\ UNCHANGED acked
                              => AnswersQuiet
         /\ \A id \in Ids, type \in {"error", "auth_success", "message_delivered"}, m \in 0..MaxMessages :
              /\ queue_message(id, type, m) /\ UNCHANGED acked
              /\ (m = 0 \/ \E w \in Workers : job[w].at = "expire" /\ job[w].m = m)
              => AnswersQuiet
<1>0. outgoing_queue_ \in [Ids -> Seq(Answers)]
  BY DEF TInv, TypeOK
<1>1. \A id \in Ids : \A i \in DOMAIN outgoing_queue_[id] : Unsent(outgoing_queue_[id][i].m)
  BY DEF Unsent
<1>2. UNCHANGED <<outgoing_queue_, acked>> => AnswersQuiet
  BY <1>1 DEF AnswersQuiet
<1>3. ASSUME NEW id \in Ids, outgoing_queue_' = [outgoing_queue_ EXCEPT ![id] = <<>>], UNCHANGED acked
      PROVE  AnswersQuiet
  <2>1. \A j \in Ids : outgoing_queue_'[j] = outgoing_queue_[j] \/ outgoing_queue_'[j] = <<>>
    BY <1>0, <1>3
  <2>2. ASSUME NEW j \in Ids, NEW i \in DOMAIN outgoing_queue_'[j]
        PROVE  Unsent(outgoing_queue_'[j][i].m)
    <3>1. outgoing_queue_'[j] = outgoing_queue_[j]
      BY <2>1, <2>2
    <3> QED
      BY <1>1, <2>2, <3>1
  <2> QED
    BY <1>3, <2>2 DEF AnswersQuiet
<1>4. ASSUME NEW id \in Ids, NEW type \in {"error", "auth_success", "message_delivered"},
             NEW m \in 0..MaxMessages, queue_message(id, type, m), UNCHANGED acked,
             m = 0 \/ \E w \in Workers : job[w].at = "expire" /\ job[w].m = m
      PROVE  AnswersQuiet
  <2> DEFINE e == [type |-> type, m |-> m]
  <2>1. e.m = m
    OBVIOUS
  <2>2. outgoing_queue_' = [outgoing_queue_ EXCEPT ![id] = Append(@, e)]
    BY <1>4 DEF queue_message
  <2> HIDE DEF e
  <2>3. ASSUME NEW j \in Ids, NEW i \in DOMAIN outgoing_queue_'[j]
        PROVE  Unsent(outgoing_queue_'[j][i].m) \/ outgoing_queue_'[j][i].m = m
    <3>1. CASE j # id
      <4>1. outgoing_queue_'[j] = outgoing_queue_[j]
        BY <1>0, <2>2, <3>1
      <4> QED
        BY <1>1, <2>3, <4>1
    <3>2. CASE j = id
      <4>1. outgoing_queue_'[j] = Append(outgoing_queue_[j], e) /\ outgoing_queue_[j] \in Seq(Answers)
        BY <1>0, <2>2, <3>2
      <4>2. \/ i \in DOMAIN outgoing_queue_[j] /\ outgoing_queue_'[j][i] = outgoing_queue_[j][i]
            \/ outgoing_queue_'[j][i] = e
        BY <2>3, <4>1
      <4> QED
        BY <1>1, <2>1, <4>2
    <3> QED
      BY <3>1, <3>2
  <2> QED
    BY <1>4, <2>3 DEF AnswersQuiet
<1> QED
  BY <1>2, <1>3, <1>4

(* Every step but a receipt and an LPUSH is quiet.                         *)
LEMMA MailSteps ==
  ASSUME TInv, [Next]_vars
  PROVE  \/ QuietMail
         \/ \E id \in budget.ids, u \in budget.names, k \in budget.words : handle_message(id, u, k)
         \/ \E w \in Workers : lpush(w)
<1> USE DEF connVars, redisVars, histVars
<1>0. store \in Stores /\ 0 \in 0..MaxMessages
  BY Labels DEF TInv, TypeOK
<1>1. ASSUME NEW id \in budget.ids, on_client_connected(id) PROVE QuietMail
  <2>1. /\ UNCHANGED job /\ UNCHANGED <<store, faults, timedOut>> /\ UNCHANGED <<outgoing_queue_, acked>>
        /\ mail' = mail
    BY <1>1, Entrances DEF on_client_connected
  <2> QED
    BY <2>1, JobsQuietBy, StoreQuietBy, AnswersQuietBy DEF QuietMail
<1>2. ASSUME NEW id \in budget.ids, on_client_disconnected(id) PROVE QuietMail
  <2>1. /\ UNCHANGED <<store, faults, timedOut>> /\ UNCHANGED <<outgoing_queue_, acked>> /\ mail' = mail
    BY <1>2 DEF on_client_disconnected
  <2>2. JobsQuiet
    BY <1>2, Entrances, JobsQuietBy
  <2> QED
    BY <2>1, <2>2, StoreQuietBy, AnswersQuietBy DEF QuietMail
<1>3. ASSUME NEW id \in budget.ids, RefuseMessage(id) PROVE QuietMail
  <2>1. /\ UNCHANGED <<store, faults, timedOut>> /\ UNCHANGED acked /\ mail' = mail
        /\ queue_message(id, "error", 0) /\ id \in Ids
    BY <1>3, JobTypes DEF RefuseMessage
  <2>2. JobsQuiet
    BY <1>3, <2>1, Entrances, JobsQuietBy
  <2>3. AnswersQuiet
    BY <1>0, <2>1, AnswersQuietBy
  <2> QED
    BY <2>1, <2>2, <2>3, StoreQuietBy DEF QuietMail
<1>4. ASSUME NEW id \in budget.ids, handle_read_receipt(id) \/ handle_typing_indicator(id)
      PROVE  QuietMail
  <2>1. /\ UNCHANGED <<store, faults, timedOut>> /\ UNCHANGED <<outgoing_queue_, acked>> /\ mail' = mail
    BY <1>4 DEF handle_read_receipt, handle_typing_indicator
  <2>2. JobsQuiet
    BY <1>4, Entrances, JobsQuietBy
  <2> QED
    BY <2>1, <2>2, StoreQuietBy, AnswersQuietBy DEF QuietMail
<1>5. ASSUME NEW id \in budget.ids, NEW u \in budget.names, handle_authentication(id, u)
      PROVE  QuietMail
  <2>1. /\ UNCHANGED <<store, faults, timedOut>> /\ UNCHANGED <<outgoing_queue_, acked>> /\ mail' = mail
    BY <1>5 DEF handle_authentication
  <2>2. JobsQuiet
    BY <1>5, Entrances, JobsQuietBy
  <2> QED
    BY <2>1, <2>2, StoreQuietBy, AnswersQuietBy DEF QuietMail
<1>6. ASSUME NEW w \in Workers, register_user(w) \/ LockRatchets(w) PROVE QuietMail
  <2>1. /\ UNCHANGED <<store, faults, timedOut>> /\ UNCHANGED <<outgoing_queue_, acked>> /\ mail' = mail
    BY <1>6 DEF register_user, LockRatchets
  <2>2. JobsQuiet
    BY <1>6, Moves, JobsQuietBy
  <2> QED
    BY <2>1, <2>2, StoreQuietBy, AnswersQuietBy DEF QuietMail
<1>7. ASSUME NEW w \in Workers, mark_user_online(w) \/ mark_user_offline(w) \/ PublishOrHset(w)
      PROVE  QuietMail
  <2>1. /\ UNCHANGED timedOut /\ UNCHANGED <<outgoing_queue_, acked>> /\ mail' = mail
    BY <1>7 DEF mark_user_online, mark_user_offline, PublishOrHset
  <2>2. JobsQuiet
    BY <1>7, Moves, JobsQuietBy
  <2>3. \E after \in Stores : Redis(after) /\ after.queue = store.queue
    <3>1. CASE mark_user_online(w)
      <4>1. job[w].user \in Users
        BY <3>1 DEF TInv, JobSound, mark_user_online, At
      <4>2. [store EXCEPT !.online = @ \cup {job[w].user}] \in Stores
        BY <4>1, StoreTypes
      <4>3. [store EXCEPT !.online = @ \cup {job[w].user}].queue = store.queue
        BY <1>0 DEF Stores
      <4> QED
        BY <3>1, <4>2, <4>3 DEF mark_user_online
    <3>2. CASE mark_user_offline(w)
      <4>1. job[w].user \in Users
        BY <3>2 DEF TInv, JobSound, mark_user_offline, At
      <4>2. [store EXCEPT !.online = @ \ {job[w].user}] \in Stores
        BY <4>1, StoreTypes
      <4>3. [store EXCEPT !.online = @ \ {job[w].user}].queue = store.queue
        BY <1>0 DEF Stores
      <4> QED
        BY <3>2, <4>2, <4>3 DEF mark_user_offline
    <3>3. CASE PublishOrHset(w)
      BY <1>0, <3>3 DEF PublishOrHset
    <3> QED
      BY <1>7, <3>1, <3>2, <3>3
  <2> QED
    BY <2>1, <2>2, <2>3, StoreQuietBy, AnswersQuietBy DEF QuietMail
<1>8. ASSUME NEW w \in Workers, AuthSuccess(w) PROVE QuietMail
  <2>1. /\ UNCHANGED <<store, faults, timedOut>> /\ UNCHANGED acked /\ mail' = mail
        /\ queue_message(job[w].id, "auth_success", 0) /\ Moved(w, "relock", "flush")
    BY <1>8, Moves DEF AuthSuccess
  <2>2. JobsQuiet /\ job[w].id \in Ids
    BY <2>1, JobsQuietBy DEF Moved
  <2>3. AnswersQuiet
    BY <1>0, <2>1, <2>2, AnswersQuietBy
  <2> QED
    BY <2>1, <2>2, <2>3, StoreQuietBy DEF QuietMail
<1>9. ASSUME NEW w \in Workers, remove_connection(w) PROVE QuietMail
  <2>1. /\ UNCHANGED <<store, faults, timedOut>> /\ UNCHANGED acked /\ mail' = mail
        /\ outgoing_queue_' = [outgoing_queue_ EXCEPT ![job[w].id] = <<>>] /\ Returned(w, "remove")
    BY <1>9, Moves DEF remove_connection
  <2>2. JobsQuiet /\ job[w].id \in Ids
    BY <2>1, JobsQuietBy DEF Returned
  <2>3. AnswersQuiet
    BY <2>1, <2>2, AnswersQuietBy
  <2> QED
    BY <2>1, <2>2, <2>3, StoreQuietBy DEF QuietMail
<1>10. ASSUME NEW w \in Workers, expire(w) PROVE QuietMail
  <2> DEFINE a == job[w].user
             after == [store EXCEPT !.expiring = IF store.queue[a] = <<>> THEN @ ELSE @ \cup {a}]
  <2>1. /\ UNCHANGED timedOut /\ UNCHANGED acked /\ mail' = mail /\ Redis(after) /\ a \in Users
        /\ queue_message(job[w].id, "message_delivered", job[w].m) /\ Moved(w, "expire", "flush")
    BY <1>10, Moves DEF expire, TInv, JobSound, At
  <2>2. JobsQuiet /\ job[w].id \in Ids /\ job[w].m \in 0..MaxMessages /\ job[w].at = "expire"
    BY <2>1, JobsQuietBy, JobTypes DEF Moved
  <2>3. after \in Stores /\ after.queue = store.queue
    BY <1>0, <2>1, StoreTypes DEF Stores
  <2> HIDE DEF after
  <2>4. AnswersQuiet
    BY <2>1, <2>2, AnswersQuietBy
  <2>5. StoreQuiet
    BY <2>1, <2>3, StoreQuietBy
  <2> QED
    BY <2>1, <2>2, <2>4, <2>5 DEF QuietMail
<1>11. ASSUME NEW w \in Workers, Flush(w) PROVE QuietMail
  <2>1. /\ UNCHANGED <<store, faults, timedOut>> /\ mail' = mail /\ Returned(w, "flush")
        /\ outgoing_queue_' = [outgoing_queue_ EXCEPT ![job[w].id] = <<>>]
        /\ acked' = acked \cup ({outgoing_queue_[job[w].id][i].m : i \in DOMAIN outgoing_queue_[job[w].id]} \ {0})
    BY <1>11, Moves DEF Flush
  <2>2. JobsQuiet /\ job[w].id \in Ids
    BY <2>1, JobsQuietBy DEF Returned
  <2>3. \A n \in acked' : n \in acked \/ (Unsent(n) /\ n # 0)
    BY <2>1, <2>2 DEF Unsent
  <2>4. \A id \in Ids : \A i \in DOMAIN outgoing_queue_'[id] : Unsent(outgoing_queue_'[id][i].m)
    <3>1. outgoing_queue_ \in [Ids -> Seq(Answers)]
      BY DEF TInv, TypeOK
    <3>2. \A j \in Ids : outgoing_queue_'[j] = outgoing_queue_[j] \/ outgoing_queue_'[j] = <<>>
      BY <2>1, <3>1
    <3>3. ASSUME NEW j \in Ids, NEW i \in DOMAIN outgoing_queue_'[j]
          PROVE  Unsent(outgoing_queue_'[j][i].m)
      <4>1. outgoing_queue_'[j] = outgoing_queue_[j]
        BY <3>2, <3>3
      <4> QED
        BY <3>3, <4>1 DEF Unsent
    <3> QED
      BY <3>3
  <2>5. AnswersQuiet
    BY <2>3, <2>4 DEF AnswersQuiet
  <2> QED
    BY <2>1, <2>2, <2>5, StoreQuietBy DEF QuietMail
<1>12. ASSUME NEW u \in Users, PresenceLapses(u) PROVE QuietMail
  <2>1. /\ UNCHANGED job /\ UNCHANGED <<outgoing_queue_, acked>> /\ mail' = mail /\ UNCHANGED <<faults, timedOut>>
        /\ store' = [store EXCEPT !.online = @ \ {u}]
    BY <1>12 DEF PresenceLapses
  <2>2. store'.queue = store.queue
    BY <1>0, <2>1 DEF Stores
  <2>3. StoreQuiet
    BY <2>1, <2>2, FaultNumbers DEF StoreQuiet
  <2> QED
    BY <2>1, <2>3, JobsQuietBy, AnswersQuietBy DEF QuietMail
<1>13. ASSUME NEW u \in Users, QueueLapses(u) PROVE QuietMail
  <2>1. /\ UNCHANGED job /\ UNCHANGED <<outgoing_queue_, acked>> /\ mail' = mail /\ UNCHANGED faults
        /\ store' = [[store EXCEPT !.queue[u] = <<>>] EXCEPT !.expiring = @ \ {u}]
        /\ timedOut' = timedOut \cup {store.queue[u][i][1] : i \in DOMAIN store.queue[u]}
    BY <1>13 DEF QueueLapses
  <2>2. store'.queue = [store.queue EXCEPT ![u] = <<>>] /\ store.queue \in [Users -> Seq(Entries)]
    BY <1>0, <2>1 DEF Stores
  <2>3. \A v \in Users : store'.queue[v] = IF v = u THEN <<>> ELSE store.queue[v]
    BY <2>2
  <2>4. \A n : Queued(u, n) => n \in timedOut'
    BY <2>1 DEF Queued
  <2>5. StoreQuiet
    BY <2>1, <2>3, <2>4, FaultNumbers DEF StoreQuiet
  <2> QED
    BY <2>1, <2>5, JobsQuietBy, AnswersQuietBy DEF QuietMail
<1>14. ASSUME (\E w \in Workers : CommandOnNull(w)) \/ start \/ stop \/ UNCHANGED vars PROVE QuietMail
  <2>1. /\ UNCHANGED job /\ UNCHANGED <<store, faults, timedOut>> /\ UNCHANGED <<outgoing_queue_, acked>>
        /\ mail' = mail
    BY <1>14 DEF CommandOnNull, start, stop, vars
  <2> QED
    BY <2>1, JobsQuietBy, StoreQuietBy, AnswersQuietBy DEF QuietMail
<1> QED
  BY <1>1, <1>2, <1>3, <1>4, <1>5, <1>6, <1>7, <1>8, <1>9, <1>10, <1>11, <1>12, <1>13, <1>14
  DEF Next, Receive, Step, Login

LEMMA QuietKeeps ==
  ASSUME TInv, MailSound, QueueInOrder, QuietMail
  PROVE  MailSound' /\ QueueInOrder'
<1>1. mail' = mail /\ JobsQuiet /\ StoreQuiet /\ AnswersQuiet
  BY DEF QuietMail
<1>q. \A u \in Users : store'.queue[u] = store.queue[u] \/ DOMAIN store'.queue[u] = {}
  BY <1>1 DEF StoreQuiet
<1>u. \A id \in Ids : \A i \in DOMAIN outgoing_queue_[id] : outgoing_queue_[id][i].m \in 0..Len(mail)
  BY DEF MailSound
<1>n. \A n : Unsent(n) => n \in 0..Len(mail)
  BY <1>u DEF Unsent
<1>2. \A u \in Users : \A i \in DOMAIN store'.queue[u] : store'.queue[u][i][1] \in 1..Len(mail)
  BY <1>q DEF MailSound
<1>l. Len(mail) \in Nat
  BY DEF TInv, TypeOK
<1>3. \A id \in Ids : \A i \in DOMAIN outgoing_queue_'[id] : outgoing_queue_'[id][i].m \in 0..Len(mail)
  <2> SUFFICES ASSUME NEW id \in Ids, NEW i \in DOMAIN outgoing_queue_'[id],
                      NEW n, n = outgoing_queue_'[id][i].m
               PROVE  n \in 0..Len(mail)
    OBVIOUS
  <2>1. n = 0 \/ Unsent(n) \/ \E w \in Workers : job[w].at = "expire" /\ job[w].m = n
    BY <1>1 DEF AnswersQuiet
  <2>2. ASSUME NEW w \in Workers, job[w].at = "expire" PROVE job[w].m \in 1..Len(mail)
    BY <2>2 DEF TInv, JobSound
  <2> QED
    BY <1>n, <1>l, <2>1, <2>2
<1>4. acked' \subseteq 1..Len(mail)
  <2> SUFFICES ASSUME NEW n \in acked', n \notin acked PROVE n \in 1..Len(mail)
    BY DEF MailSound
  <2>1. Unsent(n) /\ n # 0
    BY <1>1 DEF AnswersQuiet
  <2> QED
    BY <1>n, <1>l, <2>1
<1>5. ASSUME NEW w \in Workers, job'[w].at = "lpush" PROVE Newest(w)'
  <2>1. job'[w] = job[w] /\ job[w].at = "lpush"
    BY <1>1, <1>5 DEF JobsQuiet
  <2>m. PICK m : m = job[w].m
    OBVIOUS
  <2>2. /\ mail[m].from = job[w].id /\ mail[m].to = job[w].user
        /\ \A n \in 1..Len(mail) : mail[n].from = job[w].id => n <= m
        /\ m \notin acked /\ ~Unsent(m) /\ \A u \in Users : ~Queued(u, m)
        /\ m \in 1..Len(mail)
    BY <2>1, <2>m DEF MailSound, Newest, TInv, JobSound
  <2>3. m \notin acked'
    BY <1>1, <2>2 DEF AnswersQuiet
  <2>4. ASSUME NEW id \in Ids, NEW i \in DOMAIN outgoing_queue_'[id] PROVE outgoing_queue_'[id][i].m # m
    <3>1. PICK n : n = outgoing_queue_'[id][i].m
      OBVIOUS
    <3>2. n = 0 \/ Unsent(n) \/ \E v \in Workers : job[v].at = "expire" /\ job[v].m = n
      BY <1>1, <2>4, <3>1 DEF AnswersQuiet
    <3>3. \A v \in Workers : job[v].at = "expire" => job[v].m # m
      BY <2>1, <2>m DEF MailSound
    <3> QED
      BY <2>2, <3>1, <3>2, <3>3
  <2>5. ASSUME NEW u \in Users, NEW i \in DOMAIN store'.queue[u] PROVE store'.queue[u][i][1] # m
    <3>1. store'.queue[u] = store.queue[u]
      BY <1>q, <2>5
    <3> QED
      BY <2>2, <2>5, <3>1 DEF Queued
  <2> QED
    BY <1>1, <2>1, <2>m, <2>2, <2>3, <2>4, <2>5 DEF Newest, Unsent, Queued
<1>6. \A w, v \in Workers :
        w # v /\ job'[w].at = "lpush" /\ job'[v].at \in {"lpush", "expire"} => job'[w].m # job'[v].m
  BY <1>1 DEF JobsQuiet, MailSound
<1>7. QueueInOrder'
  <2> SUFFICES ASSUME NEW u \in Users, NEW i \in DOMAIN store'.queue[u], NEW j \in DOMAIN store'.queue[u],
                      mail[store'.queue[u][i][1]].from = mail[store'.queue[u][j][1]].from, i < j
               PROVE  store'.queue[u][i][1] >= store'.queue[u][j][1]
    BY <1>1 DEF QueueInOrder
  <2>1. store'.queue[u] = store.queue[u]
    BY <1>q
  <2> QED
    BY <2>1 DEF QueueInOrder
<1> QED
  BY <1>1, <1>2, <1>3, <1>4, <1>5, <1>6, <1>7 DEF MailSound

LEMMA ReceiptKeeps ==
  ASSUME TInv, MailSound, QueueInOrder, NEW id \in budget.ids, NEW u \in budget.names,
         NEW k \in budget.words, handle_message(id, u, k)
  PROVE  MailSound' /\ QueueInOrder'
<1>m. PICK m : m = Len(mail) + 1
  OBVIOUS
<1>s. PICK s : s = WorkerOf[id]
  OBVIOUS
<1>1. /\ mail' = Append(mail, [from |-> id, to |-> u, words |-> k])
      /\ UNCHANGED <<store, acked, outgoing_queue_>>
  BY DEF handle_message, redisVars, connVars
<1>2. /\ s \in Workers /\ id \in Ids /\ job[s].at = "idle"
      /\ job'[s].at = "lpush" /\ job'[s].id = id /\ job'[s].user = u /\ job'[s].m = m
      /\ \A v \in Workers \ {s} : job'[v] = job[v]
  BY <1>m, <1>s, Entrances DEF Entered, Others
<1>3. /\ Len(mail) \in Nat /\ Len(mail') = m /\ m = Len(mail) + 1
      /\ \A n \in 1..Len(mail) : mail'[n] = mail[n]
      /\ mail'[m].from = id /\ mail'[m].to = u
  <2>1. mail \in Seq([from : Ids, to : Users, words : budget.words])
    BY DEF TInv, TypeOK
  <2> QED
    BY <1>1, <1>m, <2>1
<1>4. \A v \in Users : \A i \in DOMAIN store.queue[v] : store.queue[v][i][1] \in 1..Len(mail)
  BY DEF MailSound
<1>5. \A j \in Ids : \A i \in DOMAIN outgoing_queue_[j] : outgoing_queue_[j][i].m \in 0..Len(mail)
  BY DEF MailSound
<1>6. acked \subseteq 1..Len(mail)
  BY DEF MailSound
<1>7. Newest(s)'
  <2>1. \A n \in 1..Len(mail') : n <= m
    BY <1>3
  <2>2. m \notin acked' /\ ~Unsent(m)' /\ \A v \in Users : ~Queued(v, m)'
    BY <1>1, <1>3, <1>4, <1>5, <1>6 DEF Unsent, Queued
  <2> QED
    BY <1>2, <1>3, <2>1, <2>2 DEF Newest, Unsent, Queued
<1>8. ASSUME NEW w \in Workers, w # s, job[w].at = "lpush" PROVE Newest(w)'
  <2>n. PICK n : n = job[w].m
    OBVIOUS
  <2>1. /\ mail[n].from = job[w].id /\ mail[n].to = job[w].user
        /\ \A l \in 1..Len(mail) : mail[l].from = job[w].id => l <= n
        /\ n \notin acked /\ ~Unsent(n) /\ \A v \in Users : ~Queued(v, n)
        /\ n \in 1..Len(mail) /\ WorkerOf[job[w].id] = w
    BY <1>8, <2>n DEF MailSound, Newest, TInv, JobSound
  <2>2. \A l \in 1..Len(mail') : mail'[l].from = job[w].id => l <= n
    <3>1. job[w].id # id
      BY <1>8, <1>s, <2>1
    <3>2. \A l \in 1..Len(mail') : l \in 1..Len(mail) \/ l = m
      BY <1>3
    <3> QED
      BY <1>3, <2>1, <3>1, <3>2
  <2>3. n \notin acked' /\ ~Unsent(n)' /\ \A v \in Users : ~Queued(v, n)'
    BY <1>1, <2>1 DEF Unsent, Queued
  <2>4. job'[w] = job[w] /\ mail'[n] = mail[n]
    BY <1>2, <1>3, <1>8, <2>1
  <2> QED
    BY <2>n, <2>1, <2>2, <2>3, <2>4 DEF Newest, Unsent, Queued
<1>9. \A w, v \in Workers :
        w # v /\ job'[w].at = "lpush" /\ job'[v].at \in {"lpush", "expire"} => job'[w].m # job'[v].m
  <2>1. \A w \in Workers : job[w].at \in {"lpush", "expire"} => job[w].m \in 1..Len(mail)
    BY DEF TInv, JobSound
  <2>2. \A w \in Workers : job[w].at \in {"lpush", "expire"} => job[w].m # m
    BY <1>3, <2>1
  <2> QED
    BY <1>2, <2>2 DEF MailSound
<1>10. MailSound'
  <2>1. 1..Len(mail) \subseteq 1..Len(mail') /\ 0..Len(mail) \subseteq 0..Len(mail')
    BY <1>3
  <2> QED
    BY <1>1, <1>2, <1>4, <1>5, <1>6, <1>7, <1>8, <1>9, <2>1 DEF MailSound
<1>11. QueueInOrder'
  <2> SUFFICES ASSUME NEW v \in Users, NEW i \in DOMAIN store'.queue[v], NEW j \in DOMAIN store'.queue[v],
                      mail'[store'.queue[v][i][1]].from = mail'[store'.queue[v][j][1]].from, i < j
               PROVE  store'.queue[v][i][1] >= store'.queue[v][j][1]
    BY DEF QueueInOrder
  <2>1. store'.queue[v] = store.queue[v]
    BY <1>1
  <2>2. /\ mail'[store.queue[v][i][1]] = mail[store.queue[v][i][1]]
        /\ mail'[store.queue[v][j][1]] = mail[store.queue[v][j][1]]
    BY <1>3, <1>4, <2>1
  <2> QED
    BY <2>1, <2>2 DEF QueueInOrder
<1> QED
  BY <1>10, <1>11

(* What an LPUSH finds and leaves, with what was pushed, p.                *)
Pushing(w, p, u, m, q) ==
  /\ u = job[w].user /\ m = job[w].m /\ q = store.queue[u]
  /\ u \in Users /\ m \in 1..Len(mail) /\ job[w].at = "lpush" /\ job'[w].at = "expire" /\ job'[w].m = m
  /\ Others(w) /\ Newest(w)
  /\ UNCHANGED <<mail, acked, outgoing_queue_, timedOut>>
  /\ p \in Seq(Entries) /\ q \in Seq(Entries) /\ \A i \in DOMAIN p : p[i][1] = m
  /\ store'.queue[u] = p \o q /\ \A v \in Users \ {u} : store'.queue[v] = store.queue[v]
  /\ \/ p = <<>> /\ faults'["lost"] = faults["lost"] + 1 /\ faults'["repeated"] = faults["repeated"]
     \/ p = Pushed(m) /\ faults' = faults
     \/ /\ faults'["repeated"] = faults["repeated"] + 1 /\ faults'["lost"] = faults["lost"]
        /\ p = Pushed(m) \o Pushed(m)

LEMMA PushingFacts ==
  ASSUME TInv, MailSound, NEW w \in Workers, lpush(w)
  PROVE  \E p, u, m, q : Pushing(w, p, u, m, q)
<1>1. PICK p : PushedBy(w, p)
  BY PushEffect
<1>2. PICK u : u = job[w].user
  OBVIOUS
<1>3. PICK m : m = job[w].m
  OBVIOUS
<1>4. PICK q : q = store.queue[u]
  OBVIOUS
<1>5. Moved(w, "lpush", "expire") /\ UNCHANGED <<mail, acked, outgoing_queue_, timedOut>>
  BY Moves DEF lpush, histVars, connVars
<1>6. /\ u \in Users /\ m \in 1..Len(mail) /\ job[w].at = "lpush" /\ job'[w].at = "expire" /\ job'[w].m = m
      /\ Others(w) /\ Newest(w)
  BY <1>2, <1>3, <1>5 DEF Moved, TInv, JobSound, MailSound
<1>7. store.queue \in [Users -> Seq(Entries)]
  BY DEF TInv, TypeOK, Stores
<1>8. store'.queue = [store.queue EXCEPT ![u] = p \o @] /\ p \in Seq(Entries)
      /\ \A i \in DOMAIN p : p[i][1] = m
  BY <1>1, <1>2, <1>3 DEF PushedBy
<1>9. /\ q \in Seq(Entries) /\ store'.queue[u] = p \o q
      /\ \A v \in Users \ {u} : store'.queue[v] = store.queue[v]
  BY <1>4, <1>6, <1>7, <1>8
<1>10. \/ p = <<>> /\ faults'["lost"] = faults["lost"] + 1 /\ faults'["repeated"] = faults["repeated"]
       \/ p = Pushed(m) /\ faults' = faults
       \/ /\ faults'["repeated"] = faults["repeated"] + 1 /\ faults'["lost"] = faults["lost"]
          /\ p = Pushed(m) \o Pushed(m)
  BY <1>1, <1>3 DEF PushedBy
<1>11. Pushing(w, p, u, m, q)
  BY <1>2, <1>3, <1>4, <1>5, <1>6, <1>8, <1>9, <1>10 DEF Pushing
<1> QED
  BY <1>11

LEMMA PushKeeps ==
  ASSUME TInv, MailSound, QueueInOrder, NEW w \in Workers, lpush(w)
  PROVE  MailSound' /\ QueueInOrder'
<1>1. PICK p, u, m, q : Pushing(w, p, u, m, q)
  BY PushingFacts
<1>2. /\ u = job[w].user /\ m = job[w].m /\ q = store.queue[u]
      /\ u \in Users /\ m \in 1..Len(mail) /\ job[w].at = "lpush" /\ job'[w].at = "expire" /\ job'[w].m = m
      /\ Others(w) /\ Newest(w)
      /\ UNCHANGED <<mail, acked, outgoing_queue_>>
      /\ p \in Seq(Entries) /\ q \in Seq(Entries) /\ \A i \in DOMAIN p : p[i][1] = m
      /\ store'.queue[u] = p \o q /\ \A v \in Users \ {u} : store'.queue[v] = store.queue[v]
  BY <1>1 DEF Pushing
<1>s. p \in Seq(Entries) /\ q \in Seq(Entries)
  BY <1>2
<1>n. m \in Int /\ Len(p) \in Nat
  BY <1>2
<1>w. store'.queue[u] = p \o q
  BY <1>2
<1>3. \A i \in DOMAIN store'.queue[u] :
        \/ i \in 1..Len(p) /\ store'.queue[u][i][1] = m
        \/ i - Len(p) \in DOMAIN q /\ store'.queue[u][i] = q[i - Len(p)] /\ i > Len(p)
  <2>1. \A i \in DOMAIN (p \o q) :
          \/ i \in DOMAIN p /\ (p \o q)[i] = p[i]
          \/ i - Len(p) \in DOMAIN q /\ (p \o q)[i] = q[i - Len(p)] /\ i > Len(p)
    BY <1>2, ConcatIndex
  <2>2. DOMAIN p = 1..Len(p)
    BY <1>2
  <2> QED
    BY <1>2, <2>1, <2>2
<1>e. \A v \in Users : \A i \in DOMAIN store.queue[v] : store.queue[v][i][1] \in 1..Len(mail)
  BY DEF MailSound
<1>4. \A v \in Users : \A i \in DOMAIN store'.queue[v] : store'.queue[v][i][1] \in 1..Len(mail)
  <2> SUFFICES ASSUME NEW v \in Users, NEW i \in DOMAIN store'.queue[v]
               PROVE  store'.queue[v][i][1] \in 1..Len(mail)
    OBVIOUS
  <2>1. CASE v = u
    BY <1>2, <1>3, <1>e, <2>1
  <2>2. CASE v # u
    BY <1>2, <1>e, <2>2
  <2> QED
    BY <2>1, <2>2
<1>5. ASSUME NEW v \in Workers, job'[v].at = "lpush" PROVE Newest(v)'
  <2>1. v # w /\ job'[v] = job[v] /\ job[v].at = "lpush"
    BY <1>2, <1>5 DEF Others
  <2>n. PICK n : n = job[v].m
    OBVIOUS
  <2>2. /\ mail[n].from = job[v].id /\ mail[n].to = job[v].user
        /\ \A l \in 1..Len(mail) : mail[l].from = job[v].id => l <= n
        /\ n \notin acked /\ ~Unsent(n) /\ \A a \in Users : ~Queued(a, n)
    BY <2>1, <2>n DEF MailSound, Newest
  <2>3. n # m
    BY <1>2, <2>1, <2>n DEF MailSound
  <2>4. ASSUME NEW a \in Users, NEW i \in DOMAIN store'.queue[a] PROVE store'.queue[a][i][1] # n
    <3>1. CASE a = u
      BY <1>2, <1>3, <2>2, <2>3, <2>4, <3>1, ZenonT(60) DEF Queued
    <3>2. CASE a # u
      BY <1>2, <2>2, <2>4, <3>2 DEF Queued
    <3> QED
      BY <3>1, <3>2
  <2> QED
    BY <1>2, <2>1, <2>n, <2>2, <2>4 DEF Newest, Unsent, Queued
<1>6. \A a, b \in Workers :
        a # b /\ job'[a].at = "lpush" /\ job'[b].at \in {"lpush", "expire"} => job'[a].m # job'[b].m
  BY <1>2 DEF Others, MailSound
<1>7. MailSound'
  BY <1>2, <1>4, <1>5, <1>6 DEF MailSound
<1>8. QueueInOrder'
  <2> SUFFICES ASSUME NEW v \in Users, NEW i \in DOMAIN store'.queue[v], NEW j \in DOMAIN store'.queue[v],
                      mail[store'.queue[v][i][1]].from = mail[store'.queue[v][j][1]].from, i < j
               PROVE  store'.queue[v][i][1] >= store'.queue[v][j][1]
    BY <1>2 DEF QueueInOrder
  <2>1. CASE v # u
    BY <1>2, <2>1 DEF QueueInOrder
  <2>2. CASE v = u
    <3>1. mail[m].from = job[w].id /\ \A n \in 1..Len(mail) : mail[n].from = job[w].id => n <= m
      BY <1>2 DEF Newest
    <3>2. m \in Int /\ Len(p) \in Nat /\ i \in Int /\ j \in Int /\ store'.queue[v][j][1] \in 1..Len(mail)
      <4>1. DOMAIN store'.queue[v] \subseteq Int
        <5>1. p \o q \in Seq(Entries)
          BY <1>s
        <5>2. DOMAIN (p \o q) \subseteq Int
          BY <5>1
        <5> QED
          BY <1>w, <2>2, <5>2
      <4> QED
        BY <1>n, <1>4, <4>1
    <3>3. CASE i \in 1..Len(p) /\ store'.queue[v][i][1] = m
      BY <3>1, <3>2, <3>3
    <3>4. CASE i - Len(p) \in DOMAIN q /\ store'.queue[v][i] = q[i - Len(p)] /\ i > Len(p)
      <4>1. j - Len(p) \in DOMAIN q /\ store'.queue[v][j] = q[j - Len(p)]
        BY <1>3, <2>2, <3>2, <3>4
      <4>2. i - Len(p) < j - Len(p)
        BY <3>2
      <4> QED
        BY <1>2, <3>4, <4>1, <4>2, ZenonT(60) DEF QueueInOrder
    <3> QED
      BY <1>3, <2>2, <3>3, <3>4
  <2> QED
    BY <2>1, <2>2
<1> QED
  BY <1>7, <1>8

LEMMA MailInvariant == Spec => [](MailSound /\ QueueInOrder)
<1>1. Init => MailSound /\ QueueInOrder
  <2> SUFFICES ASSUME Init PROVE MailSound /\ QueueInOrder
    OBVIOUS
  <2>1. /\ \A u \in Users : store.queue[u] = <<>>
        /\ \A id \in Ids : outgoing_queue_[id] = <<>>
        /\ acked = {} /\ \A w \in Workers : job[w].at = "idle"
    BY DEF Init, Idle
  <2>2. /\ \A u \in Users : DOMAIN store.queue[u] = {}
        /\ \A id \in Ids : DOMAIN outgoing_queue_[id] = {}
    BY <2>1
  <2> QED
    BY <2>1, <2>2 DEF MailSound, QueueInOrder
<1>2. TInv /\ MailSound /\ QueueInOrder /\ [Next]_vars => (MailSound /\ QueueInOrder)'
  BY MailSteps, QuietKeeps, ReceiptKeeps, PushKeeps
<1> QED
  BY <1>1, <1>2, Typing, PTL DEF Spec

(* What one connection sends to one user lies in that user's queue newest  *)
(* first: the handlers of a connection run one after another, so its LPUSH *)
(* of a message is done before it takes the next, whatever other workers   *)
(* push in between and whatever the client loses or sends again.           *)
THEOREM QueuesInOrder == Spec => []QueueInOrder
  BY MailInvariant, PTL

----------------------------------------------------------------------------
(* Losses *)

(* The one-word messages past their LPUSH that did not time out; those of  *)
(* them that are nowhere in their queue, and those that are there twice.   *)
Past(n) ==
  /\ n \in 1..Len(mail) /\ mail[n].words = 1 /\ n \notin timedOut
  /\ \A w \in Workers : ~(job[w].at = "lpush" /\ job[w].m = n)
Whole(n, i) == i \in DOMAIN store.queue[mail[n].to] /\ store.queue[mail[n].to][i] = <<n, "whole">>
Missing == {n \in 1..Len(mail) : Past(n) /\ \A i \in DOMAIN store.queue[mail[n].to] : ~Whole(n, i)}
Doubled ==
  {n \in 1..Len(mail) : Past(n) /\ \E i, j \in DOMAIN store.queue[mail[n].to] :
                                     i # j /\ Whole(n, i) /\ Whole(n, j)}

LossInv ==
  /\ Cardinality(Missing) <= faults["lost"]
  /\ Cardinality(Doubled) <= faults["repeated"]

LEMMA CountedSets ==
  ASSUME TInv
  PROVE  /\ IsFiniteSet(Missing) /\ Cardinality(Missing) \in Nat
         /\ IsFiniteSet(Doubled) /\ Cardinality(Doubled) \in Nat
<1>1. Len(mail) \in Nat
  BY DEF TInv, TypeOK
<1>2. IsFiniteSet(1..Len(mail))
  BY <1>1, FS_Interval
<1>3. Missing \in SUBSET (1..Len(mail)) /\ Doubled \in SUBSET (1..Len(mail))
  BY DEF Missing, Doubled
<1>4. IsFiniteSet(Missing) /\ IsFiniteSet(Doubled)
  BY <1>2, <1>3, FS_Subset
<1> QED
  BY <1>4, FS_CardinalityType

(* One element more for one fault more.                                    *)
LEMMA CountedMoves ==
  ASSUME NEW S, IsFiniteSet(S), NEW T, NEW f \in Nat, NEW g \in Nat, Cardinality(S) <= f,
         \/ T \subseteq S /\ f <= g
         \/ g = f + 1 /\ \E m : T \subseteq S \cup {m}
  PROVE  Cardinality(T) <= g
<1>1. Cardinality(S) \in Nat
  BY FS_CardinalityType
<1>2. CASE T \subseteq S /\ f <= g
  <2>1. IsFiniteSet(T) /\ Cardinality(T) <= Cardinality(S)
    BY <1>2, FS_Subset
  <2>2. Cardinality(T) \in Nat
    BY <2>1, FS_CardinalityType
  <2> QED
    BY <1>1, <1>2, <2>1, <2>2
<1>3. CASE g = f + 1 /\ \E m : T \subseteq S \cup {m}
  <2>1. PICK m : T \subseteq S \cup {m}
    BY <1>3
  <2>2. IsFiniteSet(S \cup {m}) /\ Cardinality(S \cup {m}) <= Cardinality(S) + 1
    BY <1>1, FS_AddElement
  <2>3. IsFiniteSet(T) /\ Cardinality(T) <= Cardinality(S \cup {m})
    BY <2>1, <2>2, FS_Subset
  <2>4. Cardinality(T) \in Nat /\ Cardinality(S \cup {m}) \in Nat
    BY <2>2, <2>3, FS_CardinalityType
  <2> QED
    BY <1>1, <1>3, <2>2, <2>3, <2>4
<1> QED
  BY <1>2, <1>3

LEMMA LossMoves ==
  ASSUME TInv, TInv', LossInv,
         \/ Missing' \subseteq Missing /\ faults["lost"] <= faults'["lost"]
         \/ faults'["lost"] = faults["lost"] + 1 /\ \E m : Missing' \subseteq Missing \cup {m},
         \/ Doubled' \subseteq Doubled /\ faults["repeated"] <= faults'["repeated"]
         \/ faults'["repeated"] = faults["repeated"] + 1 /\ \E m : Doubled' \subseteq Doubled \cup {m}
  PROVE  LossInv'
<1>1. faults["lost"] \in Nat /\ faults["repeated"] \in Nat
  BY FaultNumbers
<1>2. faults'["lost"] \in Nat /\ faults'["repeated"] \in Nat
  <2>1. budget' \in Budgets /\ faults' \in [{"lost", "repeated"} -> 0..budget'.faults]
    BY DEF TInv, TypeOK
  <2>2. budget'.faults \in Nat
    BY <2>1, BudgetsAssumption
  <2> QED
    BY <2>1, <2>2
<1>3. PICK A, B, f, g : /\ A = Missing' /\ B = Doubled' /\ f = faults'["lost"] /\ g = faults'["repeated"]
  OBVIOUS
<1>4. Cardinality(A) <= f
  BY <1>1, <1>2, <1>3, CountedSets, CountedMoves DEF LossInv
<1>5. Cardinality(B) <= g
  BY <1>1, <1>2, <1>3, CountedSets, CountedMoves DEF LossInv
<1> QED
  BY <1>3, <1>4, <1>5 DEF LossInv

LEMMA ToUsers ==
  ASSUME TInv
  PROVE  \A n \in 1..Len(mail) : mail[n].to \in Users
<1>1. mail \in Seq([from : Ids, to : Users, words : budget.words])
  BY DEF TInv, TypeOK
<1>2. ASSUME NEW n \in 1..Len(mail) PROVE mail[n] \in [from : Ids, to : Users, words : budget.words]
  BY <1>1, SeqElement
<1> QED
  BY <1>2

(* What a message that is missing or doubled after a step, and was past    *)
(* its LPUSH before it, was before it: one lemma per kind of step.         *)
LEMMA QuietLosses ==
  ASSUME TInv, TInv', LossInv, QuietMail
  PROVE  LossInv'
<1>1. mail' = mail /\ JobsQuiet /\ StoreQuiet
  BY DEF QuietMail
<1>2. ASSUME NEW n \in 1..Len(mail), Past(n)' PROVE Past(n) /\ n \notin timedOut'
  <2>1. n \notin timedOut /\ n \notin timedOut' /\ mail[n].words = 1
    BY <1>1, <1>2 DEF Past, StoreQuiet
  <2>2. \A w \in Workers : ~(job[w].at = "lpush" /\ job[w].m = n)
    BY <1>1, <1>2 DEF Past, JobsQuiet
  <2> QED
    BY <2>1, <2>2 DEF Past
<1>3. ASSUME NEW n \in Missing' PROVE n \in Missing
  <2>1. PICK u : u = mail[n].to
    OBVIOUS
  <2>2. /\ n \in 1..Len(mail) /\ Past(n) /\ n \notin timedOut' /\ u \in Users
        /\ \A i \in DOMAIN store'.queue[u] : store'.queue[u][i] # <<n, "whole">>
    BY <1>1, <1>2, <1>3, <2>1, ToUsers DEF Missing, Whole
  <2>3. CASE store'.queue[u] = store.queue[u]
    BY <2>1, <2>2, <2>3 DEF Missing, Whole
  <2>4. CASE \A k : Queued(u, k) => k \in timedOut'
    <3>1. ~Queued(u, n)
      BY <2>2, <2>4
    <3>2. \A i \in DOMAIN store.queue[u] : store.queue[u][i] # <<n, "whole">>
      BY <3>1 DEF Queued
    <3> QED
      BY <2>1, <2>2, <3>2 DEF Missing, Whole
  <2> QED
    BY <1>1, <2>2, <2>3, <2>4 DEF StoreQuiet
<1>4. ASSUME NEW n \in Doubled' PROVE n \in Doubled
  <2>1. PICK u : u = mail[n].to
    OBVIOUS
  <2>2. /\ n \in 1..Len(mail) /\ Past(n) /\ u \in Users
        /\ \E i, j \in DOMAIN store'.queue[u] :
             i # j /\ store'.queue[u][i] = <<n, "whole">> /\ store'.queue[u][j] = <<n, "whole">>
    BY <1>1, <1>2, <1>4, <2>1, ToUsers DEF Doubled, Whole
  <2>3. store'.queue[u] = store.queue[u]
    <3>1. store'.queue[u] # <<>>
      BY <2>2
    <3> QED
      BY <1>1, <2>2, <3>1 DEF StoreQuiet
  <2> QED
    BY <2>1, <2>2, <2>3, ZenonT(60) DEF Doubled, Whole
<1>5. faults["lost"] <= faults'["lost"] /\ faults["repeated"] <= faults'["repeated"]
  BY <1>1, FaultNumbers DEF StoreQuiet
<1> QED
  BY <1>3, <1>4, <1>5, LossMoves

LEMMA ReceiptLosses ==
  ASSUME TInv, TInv', LossInv, NEW id \in budget.ids, NEW u \in budget.names,
         NEW k \in budget.words, handle_message(id, u, k)
  PROVE  LossInv'
<1>m. PICK m : m = Len(mail) + 1
  OBVIOUS
<1>s. PICK s : s = WorkerOf[id]
  OBVIOUS
<1>1. /\ mail' = Append(mail, [from |-> id, to |-> u, words |-> k])
      /\ UNCHANGED <<store, faults, timedOut>>
  BY DEF handle_message, redisVars
<1>2. /\ s \in Workers /\ job[s].at = "idle" /\ job'[s].at = "lpush" /\ job'[s].m = m
      /\ \A v \in Workers \ {s} : job'[v] = job[v]
  BY <1>m, <1>s, Entrances DEF Entered, Others
<1>3. /\ Len(mail) \in Nat /\ Len(mail') = m /\ m = Len(mail) + 1
      /\ \A n \in 1..Len(mail) : mail'[n] = mail[n]
  <2>1. mail \in Seq([from : Ids, to : Users, words : budget.words])
    BY DEF TInv, TypeOK
  <2> QED
    BY <1>1, <1>m, <2>1
<1>4. ASSUME NEW n \in 1..Len(mail'), Past(n)' PROVE n \in 1..Len(mail) /\ Past(n) /\ mail'[n] = mail[n]
  <2>1. n # m
    BY <1>2, <1>4 DEF Past
  <2>2. n \in 1..Len(mail)
    BY <1>3, <2>1
  <2> QED
    BY <1>1, <1>2, <1>3, <1>4, <2>2 DEF Past
<1>5. ASSUME NEW n \in Missing' PROVE n \in Missing
  <2>1. n \in 1..Len(mail') /\ Past(n)' /\ \A i \in DOMAIN store'.queue[mail'[n].to] : ~Whole(n, i)'
    BY <1>5 DEF Missing
  <2>2. n \in 1..Len(mail) /\ Past(n) /\ mail'[n] = mail[n]
    BY <1>4, <2>1
  <2> QED
    BY <1>1, <2>1, <2>2 DEF Missing, Whole
<1>6. ASSUME NEW n \in Doubled' PROVE n \in Doubled
  <2>1. /\ n \in 1..Len(mail') /\ Past(n)'
        /\ \E i, j \in DOMAIN store'.queue[mail'[n].to] : i # j /\ Whole(n, i)' /\ Whole(n, j)'
    BY <1>6 DEF Doubled
  <2>2. n \in 1..Len(mail) /\ Past(n) /\ mail'[n] = mail[n]
    <3>1. n \in 1..Len(mail') /\ Past(n)'
      BY <2>1
    <3> QED
      BY <1>4, <3>1
  <2>3. PICK q : q = store.queue[mail[n].to]
    OBVIOUS
  <2>4. q = store'.queue[mail'[n].to]
    BY <1>1, <2>2, <2>3
  <2>5. \E i, j \in DOMAIN q : i # j /\ q[i] = <<n, "whole">> /\ q[j] = <<n, "whole">>
    BY <2>1, <2>4 DEF Whole
  <2> QED
    BY <2>2, <2>3, <2>5 DEF Doubled, Whole
<1>7. faults["lost"] <= faults'["lost"] /\ faults["repeated"] <= faults'["repeated"]
  BY <1>1, FaultNumbers
<1> QED
  BY <1>5, <1>6, <1>7, LossMoves

LEMMA PushLosses ==
  ASSUME TInv, TInv', MailSound, LossInv, NEW w \in Workers, lpush(w)
  PROVE  LossInv'
<1>1. PICK p, u, m, q : Pushing(w, p, u, m, q)
  BY PushingFacts
<1>2. /\ u = job[w].user /\ m = job[w].m /\ q = store.queue[u]
      /\ u \in Users /\ m \in 1..Len(mail) /\ job[w].at = "lpush" /\ job'[w].at = "expire" /\ job'[w].m = m
      /\ Others(w) /\ Newest(w)
      /\ UNCHANGED <<mail, timedOut>>
      /\ p \in Seq(Entries) /\ q \in Seq(Entries) /\ \A i \in DOMAIN p : p[i][1] = m
      /\ store'.queue[u] = p \o q /\ \A v \in Users \ {u} : store'.queue[v] = store.queue[v]
  BY <1>1 DEF Pushing
<1>f. \/ p = <<>> /\ faults'["lost"] = faults["lost"] + 1 /\ faults'["repeated"] = faults["repeated"]
      \/ p = Pushed(m) /\ faults' = faults
      \/ /\ faults'["repeated"] = faults["repeated"] + 1 /\ faults'["lost"] = faults["lost"]
         /\ p = Pushed(m) \o Pushed(m)
  BY <1>1 DEF Pushing
<1>3. ASSUME NEW n \in 1..Len(mail), n # m, Past(n)' PROVE Past(n)
  BY <1>2, <1>3 DEF Past, Others
<1>w. store'.queue[u] = p \o q /\ \A v \in Users : v # u => store'.queue[v] = store.queue[v]
  BY <1>2
<1>s. p \in Seq(Entries) /\ q \in Seq(Entries)
  BY <1>2
<1>p. \A i \in DOMAIN p : p[i][1] = m
  BY <1>2
<1>c. \A i \in DOMAIN (p \o q) :
        \/ i \in DOMAIN p /\ (p \o q)[i] = p[i]
        \/ i - Len(p) \in DOMAIN q /\ (p \o q)[i] = q[i - Len(p)] /\ i > Len(p)
  BY <1>s, ConcatIndex
<1>d. \A i \in DOMAIN p : i \in DOMAIN (p \o q) /\ (p \o q)[i] = p[i]
  BY <1>s, ConcatIndex
<1>e. \A j \in DOMAIN q : j + Len(p) \in DOMAIN (p \o q) /\ (p \o q)[j + Len(p)] = q[j]
  BY <1>s, ConcatIndex
<1>4. ASSUME NEW n \in Missing', n # m PROVE n \in Missing
  <2>1. PICK t : t = mail[n].to
    OBVIOUS
  <2>2. /\ n \in 1..Len(mail) /\ Past(n) /\ t \in Users
        /\ \A i \in DOMAIN store'.queue[t] : store'.queue[t][i] # <<n, "whole">>
    BY <1>2, <1>3, <1>4, <2>1, ToUsers DEF Missing, Whole
  <2>3. \A i \in DOMAIN store.queue[t] : store.queue[t][i] # <<n, "whole">>
    <3>1. CASE t # u
      BY <1>w, <2>2, <3>1
    <3>2. CASE t = u
      <4>1. \A i \in DOMAIN (p \o q) : (p \o q)[i] # <<n, "whole">>
        BY <1>w, <2>2, <3>2
      <4>2. q = store.queue[t]
        BY <1>2, <3>2
      <4> QED
        BY <1>e, <4>1, <4>2
    <3> QED
      BY <3>1, <3>2
  <2> QED
    BY <2>1, <2>2, <2>3 DEF Missing, Whole
<1>5. ASSUME NEW n \in Doubled', n # m PROVE n \in Doubled
  <2>1. PICK t : t = mail[n].to
    OBVIOUS
  <2>2. /\ n \in 1..Len(mail) /\ Past(n) /\ t \in Users
        /\ \E i, j \in DOMAIN store'.queue[t] :
             i # j /\ store'.queue[t][i] = <<n, "whole">> /\ store'.queue[t][j] = <<n, "whole">>
    BY <1>2, <1>3, <1>5, <2>1, ToUsers DEF Doubled, Whole
  <2>3. \E i, j \in DOMAIN store.queue[t] :
          i # j /\ store.queue[t][i] = <<n, "whole">> /\ store.queue[t][j] = <<n, "whole">>
    <3>1. CASE t # u
      BY <1>w, <2>2, <3>1
    <3>2. CASE t = u
      <4>r. PICK r : r = p \o q
        OBVIOUS
      <4>0. r = store'.queue[t]
        BY <1>w, <3>2, <4>r
      <4>1. PICK i, j \in DOMAIN r : i # j /\ r[i] = <<n, "whole">> /\ r[j] = <<n, "whole">>
        BY <2>2, <4>0
      <4>2. \A h \in DOMAIN (p \o q) : (p \o q)[h] = <<n, "whole">> =>
              h - Len(p) \in DOMAIN q /\ q[h - Len(p)] = <<n, "whole">>
        BY <1>p, <1>5, <1>c
      <4>3. i - Len(p) # j - Len(p)
        <5>1. DOMAIN (p \o q) \subseteq Int /\ Len(p) \in Nat
          <6>1. p \o q \in Seq(Entries)
            BY <1>2
          <6> QED
            BY <1>2, <6>1
        <5> QED
          BY <4>r, <4>1, <5>1
      <4> QED
        BY <1>2, <3>2, <4>r, <4>1, <4>2, <4>3
    <3> QED
      BY <3>1, <3>2
  <2> QED
    BY <2>1, <2>2, <2>3 DEF Doubled, Whole
<1>6. mail[m].to = u /\ \A j \in DOMAIN q : q[j][1] # m
  BY <1>2 DEF Newest, Queued
<1>7. faults["lost"] \in Nat /\ faults["repeated"] \in Nat
  BY FaultNumbers
<1>8. m \in Missing' => mail[m].words = 1 /\ \A i \in DOMAIN (p \o q) : (p \o q)[i] # <<m, "whole">>
  BY <1>2, <1>6, ZenonT(60) DEF Missing, Whole, Past
<1>9. m \in Doubled' => /\ mail[m].words = 1
                        /\ \E i, j \in DOMAIN p : i # j
  <2> SUFFICES ASSUME m \in Doubled' PROVE mail[m].words = 1 /\ \E i, j \in DOMAIN p : i # j
    OBVIOUS
  <2>1. /\ mail[m].words = 1
        /\ \E i, j \in DOMAIN (p \o q) : i # j /\ (p \o q)[i] = <<m, "whole">> /\ (p \o q)[j] = <<m, "whole">>
    <3>1. mail' = mail
      BY <1>2
    <3>2. /\ mail[m].words = 1
          /\ \E i, j \in DOMAIN store'.queue[mail[m].to] :
               /\ i # j /\ store'.queue[mail[m].to][i] = <<m, "whole">>
               /\ store'.queue[mail[m].to][j] = <<m, "whole">>
      BY <3>1 DEF Doubled, Whole, Past
    <3> QED
      BY <1>6, <1>w, <3>2
  <2>2. \A i \in DOMAIN (p \o q) : (p \o q)[i] = <<m, "whole">> => i \in DOMAIN p
    BY <1>6, <1>c
  <2> QED
    BY <2>1, <2>2
<1>10. CASE p = <<>> /\ faults'["lost"] = faults["lost"] + 1 /\ faults'["repeated"] = faults["repeated"]
  <2>1. m \notin Doubled'
    BY <1>9, <1>10
  <2>2. Missing' \subseteq Missing \cup {m} /\ Doubled' \subseteq Doubled
    BY <1>4, <1>5, <2>1
  <2> QED
    BY <1>7, <1>10, <2>2, LossMoves
<1>11. CASE p = Pushed(m) /\ faults' = faults
  <2>1. mail[m].words = 1 => p = <<<<m, "whole">>>>
    BY <1>2, <1>11, PushedFirst
  <2>2. m \notin Doubled'
    BY <1>9, <2>1
  <2>3. m \notin Missing'
    <3>1. mail[m].words = 1 => 1 \in DOMAIN p /\ p[1] = <<m, "whole">>
      BY <2>1
    <3> QED
      BY <1>8, <1>d, <3>1
  <2>4. Missing' \subseteq Missing /\ Doubled' \subseteq Doubled
    BY <1>4, <1>5, <2>2, <2>3
  <2> QED
    BY <1>7, <1>11, <2>4, LossMoves
<1>12. CASE /\ faults'["repeated"] = faults["repeated"] + 1 /\ faults'["lost"] = faults["lost"]
            /\ p = Pushed(m) \o Pushed(m)
  <2>1. ASSUME mail[m].words = 1 PROVE 1 \in DOMAIN p /\ p[1] = <<m, "whole">>
    <3>1. Pushed(m) = <<<<m, "whole">>>>
      BY <1>2, <2>1, PushedFirst
    <3>2. PICK e : e = <<m, "whole">>
      OBVIOUS
    <3>3. p = <<e>> \o <<e>>
      BY <1>12, <3>1, <3>2
    <3> QED
      BY <3>2, <3>3
  <2>3. m \notin Missing'
    BY <1>8, <1>d, <2>1
  <2>4. Missing' \subseteq Missing
    BY <1>4, <2>3
  <2>5. Doubled' \subseteq Doubled \cup {m}
    BY <1>5
  <2> QED
    <3>1. Missing' \subseteq Missing /\ faults["lost"] <= faults'["lost"]
      BY <1>7, <1>12, <2>4
    <3>2. faults'["repeated"] = faults["repeated"] + 1 /\ \E k : Doubled' \subseteq Doubled \cup {k}
      BY <1>12, <2>5
    <3> QED
      BY <3>1, <3>2, LossMoves
<1> QED
  BY <1>f, <1>10, <1>11, <1>12

LEMMA LossInvariant == Spec => []LossInv
<1>1. Init => LossInv
  <2> SUFFICES ASSUME Init PROVE LossInv
    OBVIOUS
  <2>1. mail = <<>> /\ faults["lost"] = 0 /\ faults["repeated"] = 0
    BY DEF Init
  <2>2. 1..Len(mail) = {}
    BY <2>1
  <2>3. Missing = {} /\ Doubled = {}
    BY <2>2 DEF Missing, Doubled
  <2> QED
    BY <2>1, <2>3, FS_EmptySet DEF LossInv
<1>2. TInv /\ TInv' /\ MailSound /\ LossInv /\ [Next]_vars => LossInv'
  BY MailSteps, QuietLosses, ReceiptLosses, PushLosses
<1> QED
  BY <1>1, <1>2, Typing, MailInvariant, PTL DEF Spec

LEMMA Copies ==
  ASSUME TInv, NEW m \in 1..Len(mail)
  PROVE  /\ StoredCopies(m) = 0 => \A i \in DOMAIN store.queue[mail[m].to] : ~Whole(m, i)
         /\ StoredCopies(m) > 1 => \E i, j \in DOMAIN store.queue[mail[m].to] :
                                     i # j /\ Whole(m, i) /\ Whole(m, j)
<1>q. PICK q : q = store.queue[mail[m].to]
  OBVIOUS
<1> DEFINE S == {i \in DOMAIN q : q[i] = <<m, "whole">>}
<1>1. q \in Seq(Entries)
  BY <1>q, ToUsers DEF TInv, TypeOK, Stores
<1>2. IsFiniteSet(S)
  <2>1. DOMAIN q = 1..Len(q) /\ Len(q) \in Nat
    BY <1>1
  <2>2. IsFiniteSet(1..Len(q))
    BY <2>1, FS_Interval
  <2>3. S \in SUBSET (1..Len(q))
    BY <2>1
  <2> QED
    BY <2>2, <2>3, FS_Subset
<1>3. StoredCopies(m) = Cardinality(S)
  BY <1>q DEF StoredCopies
<1>4. \A i \in DOMAIN q : Whole(m, i) <=> i \in S
  BY <1>q DEF Whole
<1>5. \A i \in S : i \in DOMAIN q
  OBVIOUS
<1> HIDE DEF S
<1>6. Cardinality(S) = 0 => S = {}
  BY <1>2, FS_EmptySet
<1>7. Cardinality(S) > 1 => \E i, j \in S : i # j
  <2> SUFFICES ASSUME Cardinality(S) > 1, ~\E i, j \in S : i # j PROVE FALSE
    OBVIOUS
  <2>0. \A i, j \in S : i = j
    OBVIOUS
  <2>1. CASE S = {}
    BY <2>1, FS_EmptySet
  <2>2. CASE S # {}
    <3>1. \E x : S = {x}
      <4>1. PICK x : x \in S
        BY <2>2
      <4>2. S = {x}
        BY <2>0, <4>1
      <4> QED
        BY <4>2
    <3>2. Cardinality(S) = 1
      BY <1>2, <3>1, FS_Singleton
    <3> QED
      BY <3>2
  <2> QED
    BY <2>1, <2>2
<1> QED
  BY <1>q, <1>3, <1>4, <1>5, <1>6, <1>7

(* The confirmed one-word messages that are neither in their queue nor     *)
(* timed out are no more than the commands that were lost, and those that  *)
(* are there twice no more than the commands that were sent again: the     *)
(* handlers lose and double nothing themselves, although "queued" is said  *)
(* without looking at Redis's reply.                                       *)
THEOREM LossesExplained == Spec => []LossesAccounted
<1>1. TInv /\ MailSound /\ LossInv => LossesAccounted
  <2> SUFFICES ASSUME TInv, MailSound, LossInv PROVE LossesAccounted
    OBVIOUS
  <2> DEFINE kept == {m \in acked : mail[m].words = 1 /\ m \notin timedOut}
             A == {m \in kept : StoredCopies(m) = 0}
             B == {m \in kept : StoredCopies(m) > 1}
  <2>1. ASSUME NEW m \in kept PROVE m \in 1..Len(mail) /\ Past(m)
    <3>1. m \in 1..Len(mail)
      BY DEF MailSound
    <3>2. \A w \in Workers : ~(job[w].at = "lpush" /\ job[w].m = m)
      BY DEF MailSound, Newest
    <3> QED
      BY <3>1, <3>2 DEF Past
  <2>2. A \subseteq Missing
    BY <2>1, Copies DEF Missing
  <2>3. B \subseteq Doubled
    BY <2>1, Copies DEF Doubled
  <2>4. Cardinality(A) <= faults["lost"] /\ Cardinality(B) <= faults["repeated"]
    <3> HIDE DEF A, B
    <3>1. /\ IsFiniteSet(Missing) /\ Cardinality(Missing) <= faults["lost"] /\ faults["lost"] \in Nat
          /\ IsFiniteSet(Doubled) /\ Cardinality(Doubled) <= faults["repeated"] /\ faults["repeated"] \in Nat
      BY CountedSets, FaultNumbers DEF LossInv
    <3>2. Cardinality(A) <= faults["lost"]
      BY <2>2, <3>1, CountedMoves
    <3>3. Cardinality(B) <= faults["repeated"]
      BY <2>3, <3>1, CountedMoves
    <3> QED
      BY <3>2, <3>3
  <2> QED
    BY <2>4 DEF LossesAccounted
<1> QED
  BY <1>1, Typing, MailInvariant, LossInvariant, PTL
=============================================================================
