--------------------------- MODULE MessengerServer ---------------------------
(***************************************************************************)
(* MessengerServer of messenger_server.cpp on top of the ConnectionPool,   *)
(* driven by the web framework's worker threads through the /ws route of   *)
(* http_api.cpp.  The framework binds every socket to one worker, which    *)
(* runs the socket's handlers one after another; handlers of different     *)
(* workers interleave at every call into the pool, Redis and the mutex     *)
(* ratchet_mutex_.                                                         *)
(*                                                                         *)
(* The Redis server is a store of presence keys and message queues; of the *)
(* client, which RedisClient models in full, only what the handlers meet   *)
(* is kept: a command is carried out, is lost without a word (no slot, no  *)
(* reply), is carried out twice (the reply was lost and the command sent   *)
(* again), waits for pool_mutex_, or dies on a null context.  PUBLISH      *)
(* changes nothing: no thread of this program ever subscribes, because     *)
(* subscriber_loop() only sleeps.  A message whose fields have the wrong   *)
(* JSON type leaves the handler by an exception before it changed anything *)
(* and is not a step.  State that is written and never read is left out:   *)
(* session ids, is_typing_, the callbacks of subscribe() and the ratchets. *)
(***************************************************************************)
EXTENDS Integers, Sequences, FiniteSets

CONSTANTS Ids, Users, NoUser, MAX_CONNECTIONS,  \* those of ConnectionPool
          Workers,
          WorkerOf,        \* per id: the worker that runs its handlers
          RelockOutcomes,  \* what lock() of a mutex one owns does: "wait" or "pass"
          MaxMessages,     \* bound: chat messages received
          Budgets          \* bounds on what the clients and Redis do, see budget

ASSUME WorkerOfAssumption == WorkerOf \in [Ids -> Workers]
ASSUME RelockAssumption == RelockOutcomes \subseteq {"wait", "pass"}
ASSUME MessagesAssumption == MaxMessages \in Nat
ASSUME BudgetsAssumption ==
  Budgets \subseteq [ids : SUBSET Ids, names : SUBSET Users, words : SUBSET (0..2),
                    messages : 0..MaxMessages, calls : Nat, faults : Nat]

NoWorker == "no worker"
ASSUME NoWorkerAssumption == NoWorker \notin Workers

VARIABLES
  connections_, user_id_, user_to_connection_, naming, fault, delivered,
  closed, used,      \* those of ConnectionPool
  open,              \* ids of the sockets the framework has open
  authenticated_,    \* per id: the flag of its connection object
  outgoing_queue_,   \* per id: the answers queued on its connection object
  ratchet_mutex_,    \* its owner, or NoWorker
  job,               \* per worker: the handler it is in
  redis,             \* the client: "new", "up", "hung", "stopped"
  store,             \* the server: presence keys, queues, queues with a TTL
  crashed,           \* the process died on a null context
  budget,            \* bounds of this behaviour: sockets, names that log
                     \* in and are written to, words of a message,
                     \* numbers of messages, of calls and of Redis commands
                     \* lost or repeated
  calls,             \* sockets opened and logins so far
  mail,              \* history: chat messages received
  acked,             \* history: messages whose sender was told "queued"
  faults,            \* history: commands lost and repeated
  away,              \* history: users whose presence key was deleted or was
                     \* due since they last logged in
  timedOut           \* history: messages in a queue that was due

Pool == INSTANCE ConnectionPool

(* What ConnectionPool assumes of its constants.                           *)
ASSUME PoolAssumption ==
  IsFiniteSet(Ids) /\ NoUser \notin Users /\ MAX_CONNECTIONS \in Nat /\ Pool!NoId \notin Ids

poolVars  == <<connections_, user_id_, user_to_connection_, naming, fault, delivered, closed, used>>
connVars  == <<authenticated_, outgoing_queue_>>
histVars  == <<budget, mail, acked, away, timedOut>>
redisVars == <<redis, store, faults>>
vars == <<poolVars, open, connVars, ratchet_mutex_, job, redisVars, crashed, calls, histVars>>

Live == Pool!Live

(* The content of a chat message is pasted into the LPUSH command: it is   *)
(* one argument only if it is one word.                                    *)
Entries == (1..MaxMessages) \X {"whole", "piece"}

CommandPCs == {"online", "offline", "lpush", "expire", "publish"}
PCs == {"idle", "register", "ratchet", "relock", "stuck", "remove", "flush"} \cup CommandPCs

Idle == [at |-> "idle", id |-> Pool!NoId, user |-> NoUser, m |-> 0]

Jobs == [at : PCs, id : Ids \cup {Pool!NoId}, user : Users \cup {NoUser}, m : 0..MaxMessages]
Answers == [type : {"error", "auth_success", "message_delivered"}, m : 0..MaxMessages]
Stores == [online : SUBSET Users, queue : [Users -> Seq(Entries)], expiring : SUBSET Users]

TypeOK ==
  /\ Pool!TypeOK
  /\ open \subseteq Ids
  /\ authenticated_ \in [Ids -> BOOLEAN]
  /\ outgoing_queue_ \in [Ids -> Seq(Answers)]
  /\ ratchet_mutex_ \in Workers \cup {NoWorker}
  /\ job \in [Workers -> Jobs]
  /\ redis \in {"new", "up", "hung", "stopped"}
  /\ store \in Stores
  /\ crashed \in BOOLEAN
  /\ budget \in Budgets
  /\ calls \in 0..budget.calls
  /\ mail \in Seq([from : Ids, to : Users, words : budget.words])
  /\ acked \subseteq 1..MaxMessages
  /\ faults \in [{"lost", "repeated"} -> 0..budget.faults]
  /\ away \subseteq Users /\ timedOut \subseteq 1..MaxMessages

(* main(): the object is made and served before its thread calls start().  *)
Init ==
  /\ Pool!Init
  /\ open = {}
  /\ authenticated_ = [id \in Ids |-> FALSE]
  /\ outgoing_queue_ = [id \in Ids |-> <<>>]
  /\ ratchet_mutex_ = NoWorker
  /\ job = [w \in Workers |-> Idle]
  /\ redis = "new"
  /\ store = [online |-> {}, queue |-> [u \in Users |-> <<>>], expiring |-> {}]
  /\ crashed = FALSE
  /\ budget \in Budgets
  /\ calls = 0 /\ mail = <<>> /\ acked = {} /\ away = {} /\ timedOut = {}
  /\ faults = [kind \in {"lost", "repeated"} |-> 0]

----------------------------------------------------------------------------
(* Steps of a worker *)

At(w, label) == job[w].at = label /\ ~crashed
Goto(w, label) == job' = [job EXCEPT ![w].at = label]
Return(w) == job' = [job EXCEPT ![w] = Idle]

(* The worker of socket id is free to run a handler of it; opening one and *)
(* logging in count towards the bound.                                     *)
Free(id) == At(WorkerOf[id], "idle") /\ id \in open
Called == calls < budget.calls /\ calls' = calls + 1
Enter(id, label, u, m) ==
  job' = [job EXCEPT ![WorkerOf[id]] = [at |-> label, id |-> id, user |-> u, m |-> m]]

queue_message(id, type, m) ==
  outgoing_queue_' = [outgoing_queue_ EXCEPT ![id] = Append(@, [type |-> type, m |-> m])]

FaultsLeft == faults["lost"] + faults["repeated"] < budget.faults

(* One command of the client, with the store it leaves behind: carried out *)
(* or lost.  No handler looks at the reply.                                *)
Redis(after) ==
  /\ redis = "up"
  /\ \/ store' = after /\ UNCHANGED faults
     \/ FaultsLeft /\ faults' = [faults EXCEPT !["lost"] = @ + 1] /\ UNCHANGED store
  /\ UNCHANGED redis

(* pool_[i]->context is null before connect() and after disconnect().      *)
CommandOnNull(w) ==
  /\ job[w].at \in CommandPCs /\ ~crashed
  /\ redis \in {"new", "stopped"}
  /\ crashed' = TRUE
  /\ UNCHANGED <<poolVars, open, connVars, ratchet_mutex_, job, redisVars, histVars, calls>>

----------------------------------------------------------------------------
(* Sockets open and close *)

(* onopen and on_client_connected(): with a full pool the socket stays     *)
(* open without a connection object.                                       *)
on_client_connected(id) ==
  /\ At(WorkerOf[id], "idle") /\ id \notin open /\ Called
  /\ open' = open \cup {id}
  /\ \/ Pool!create_connection(id)
     \/ Pool!Total >= MAX_CONNECTIONS /\ UNCHANGED poolVars
  /\ UNCHANGED <<connVars, ratchet_mutex_, job, redisVars, crashed, histVars>>

(* onclose and on_client_disconnected(), up to the first Redis command.    *)
on_client_disconnected(id) ==
  /\ Free(id)
  /\ open' = open \ {id}
  /\ IF id \in Live /\ user_id_[id] # NoUser
     THEN Enter(id, "offline", user_id_[id], 0)
     ELSE Enter(id, "remove", NoUser, 0)
  /\ UNCHANGED <<poolVars, connVars, ratchet_mutex_, redisVars, crashed, histVars, calls>>

(* Mutant: a user is marked offline only after the connection was removed, *)
(* from the index, which has forgotten the user by then.                   *)
mark_nobody_offline(w) ==
  /\ At(w, "offline")
  /\ Redis(store)
  /\ away' = away \cup {job[w].user}
  /\ Goto(w, "remove")
  /\ UNCHANGED <<poolVars, open, connVars, ratchet_mutex_, crashed, calls, budget, mail, acked, timedOut>>

(* Mutant: the handler gives up when the key could not be deleted.         *)
mark_offline_or_return(w) ==
  /\ At(w, "offline")
  /\ Redis([store EXCEPT !.online = @ \ {job[w].user}])
  /\ away' = away \cup {job[w].user}
  /\ IF faults' = faults THEN Goto(w, "remove") ELSE Return(w)
  /\ UNCHANGED <<poolVars, open, connVars, ratchet_mutex_, crashed, calls, budget, mail, acked, timedOut>>

(* DEL online:<user>, whatever other connections the user has.             *)
mark_user_offline(w) ==
  /\ At(w, "offline")
  /\ Redis([store EXCEPT !.online = @ \ {job[w].user}])
  /\ away' = away \cup {job[w].user}
  /\ Goto(w, "remove")
  /\ UNCHANGED <<poolVars, open, connVars, ratchet_mutex_, crashed, calls, budget, mail, acked, timedOut>>

(* The connection object goes with its flags and queued answers.           *)
remove_connection(w) ==
  /\ At(w, "remove")
  /\ \/ Pool!remove_connection(job[w].id)
     \/ job[w].id \notin Live /\ UNCHANGED poolVars
  /\ authenticated_' = [authenticated_ EXCEPT ![job[w].id] = FALSE]
  /\ outgoing_queue_' = [outgoing_queue_ EXCEPT ![job[w].id] = <<>>]
  /\ Return(w)
  /\ UNCHANGED <<open, ratchet_mutex_, redisVars, crashed, histVars, calls>>

----------------------------------------------------------------------------
(* on_client_message() and handle_message(); a socket without a connection *)
(* object gets no answer.                                                  *)

(* Mutant: the handler returns before the queued answers are sent.         *)
RefuseUnflushed(id) ==
  /\ Free(id) /\ id \in Live
  /\ queue_message(id, "error", 0)
  /\ UNCHANGED <<poolVars, open, authenticated_, ratchet_mutex_, job, redisVars, crashed,
                 histVars, calls>>

(* json::parse fails, or a chat message comes before a login.              *)
RefuseMessage(id) ==
  /\ Free(id) /\ id \in Live
  /\ queue_message(id, "error", 0)
  /\ Enter(id, "flush", NoUser, 0)
  /\ UNCHANGED <<poolVars, open, authenticated_, ratchet_mutex_, redisVars, crashed,
                 histVars, calls>>

(* The handlers of the messages that need a login; without one, typing and *)
(* read return at once.                                                    *)
LoggedIn(id) == Free(id) /\ id \in Live /\ authenticated_[id]

(* "message": m is its number in mail.                                     *)
handle_message(id, u, k) ==
  /\ LoggedIn(id) /\ Len(mail) < budget.messages
  /\ mail' = Append(mail, [from |-> id, to |-> u, words |-> k])
  /\ Enter(id, "lpush", u, Len(mail) + 1)
  /\ UNCHANGED <<poolVars, open, connVars, ratchet_mutex_, redisVars, crashed, calls, budget, acked, away,
                 timedOut>>

(* Mutant: the login is not asked for.                                     *)
handle_any_typing(id) ==
  /\ Free(id) /\ id \in Live
  /\ Enter(id, "publish", NoUser, 0)
  /\ UNCHANGED <<poolVars, open, authenticated_, outgoing_queue_, ratchet_mutex_, redisVars, crashed,
                 histVars, calls>>

handle_typing_indicator(id) ==
  /\ LoggedIn(id)
  /\ Enter(id, "publish", NoUser, 0)
  /\ UNCHANGED <<poolVars, open, authenticated_, outgoing_queue_, ratchet_mutex_, redisVars, crashed,
                 histVars, calls>>

handle_read_receipt(id) ==
  /\ LoggedIn(id)
  /\ Enter(id, "publish", NoUser, 0)
  /\ UNCHANGED <<poolVars, open, connVars, ratchet_mutex_, redisVars, crashed, histVars, calls>>

(* PUBLISH of typing and HSET of read: nobody reads message_status back.   *)
PublishOrHset(w) ==
  /\ At(w, "publish")
  /\ Redis(store)
  /\ Goto(w, "flush")
  /\ UNCHANGED <<poolVars, open, connVars, ratchet_mutex_, crashed, histVars, calls>>

(* The arguments LPUSH gets: none is an error, and nothing is stored.      *)
Pushed(m) ==
  CASE mail[m].words = 0 -> <<>>
    [] mail[m].words = 1 -> <<<<m, "whole">>>>
    [] mail[m].words = 2 -> <<<<m, "piece">>, <<m, "piece">>>>

(* Mutant: RPUSH.                                                          *)
rpush(w) ==
  LET u == job[w].user  m == job[w].m IN
  /\ At(w, "lpush")
  /\ Redis([store EXCEPT !.queue[u] = @ \o Pushed(m)])
  /\ Goto(w, "expire")
  /\ UNCHANGED <<poolVars, open, connVars, ratchet_mutex_, crashed, histVars, calls>>

(* Mutant: the key is set to the new message.                              *)
lpush_over(w) ==
  /\ At(w, "lpush")
  /\ Redis([store EXCEPT !.queue[job[w].user] = Pushed(job[w].m)])
  /\ Goto(w, "expire")
  /\ UNCHANGED <<poolVars, open, connVars, ratchet_mutex_, crashed, histVars, calls>>

(* Mutant: a message that could not be stored is not answered.             *)
lpush_checked(w) ==
  LET u == job[w].user  m == job[w].m IN
  /\ At(w, "lpush")
  /\ Redis([store EXCEPT !.queue[u] = Pushed(m) \o @])
  /\ Goto(w, IF faults' = faults THEN "expire" ELSE "flush")
  /\ UNCHANGED <<poolVars, open, connVars, ratchet_mutex_, crashed, histVars, calls>>

(* LPUSH keeps the time to live of a queue that is there.                  *)
lpush(w) ==
  LET u == job[w].user  m == job[w].m IN
  /\ At(w, "lpush")
  /\ \/ Redis([store EXCEPT !.queue[u] = Pushed(m) \o @])
     \/ /\ redis = "up" /\ FaultsLeft
        /\ faults' = [faults EXCEPT !["repeated"] = @ + 1]
        /\ store' = [store EXCEPT !.queue[u] = Pushed(m) \o Pushed(m) \o @]
        /\ UNCHANGED redis
  /\ Goto(w, "expire")
  /\ UNCHANGED <<poolVars, open, connVars, ratchet_mutex_, crashed, histVars, calls>>

(* Mutant: the queue is not given a time to live.                          *)
expire_never(w) ==
  /\ At(w, "expire")
  /\ Redis(store)
  /\ queue_message(job[w].id, "message_delivered", job[w].m)
  /\ Goto(w, "flush")
  /\ UNCHANGED <<poolVars, open, authenticated_, ratchet_mutex_, crashed, histVars, calls>>

(* EXPIRE of a queue that is there, PUBLISH, and the confirmation to the   *)
(* sender.                                                                 *)
expire(w) ==
  LET u == job[w].user IN
  /\ At(w, "expire")
  /\ Redis([store EXCEPT !.expiring = IF store.queue[u] = <<>> THEN @ ELSE @ \cup {u}])
  /\ queue_message(job[w].id, "message_delivered", job[w].m)
  /\ Goto(w, "flush")
  /\ UNCHANGED <<poolVars, open, authenticated_, ratchet_mutex_, crashed, histVars, calls>>

(* The end of onmessage: every queued answer goes out on the socket.       *)
Flush(w) ==
  LET answers == outgoing_queue_[job[w].id] IN
  /\ At(w, "flush")
  /\ acked' = acked \cup ({answers[i].m : i \in DOMAIN answers} \ {0})
  /\ outgoing_queue_' = [outgoing_queue_ EXCEPT ![job[w].id] = <<>>]
  /\ Return(w)
  /\ UNCHANGED <<poolVars, open, authenticated_, ratchet_mutex_, redisVars, crashed, calls, budget, mail,
                 away, timedOut>>

----------------------------------------------------------------------------
(* handle_authentication(): authenticate_user() accepts every name, so the *)
(* branch that answers auth_failed is never taken.                         *)

handle_authentication(id, u) ==
  /\ Free(id) /\ id \in Live /\ Called
  /\ Pool!set_user_id(id, u)
  /\ authenticated_' = [authenticated_ EXCEPT ![id] = TRUE]
  /\ Enter(id, "register", u, 0)
  /\ UNCHANGED <<open, outgoing_queue_, ratchet_mutex_, redisVars, crashed, histVars>>

(* Mutant: the connection that is already registered for the user is kept. *)
register_first(w) ==
  /\ At(w, "register")
  /\ user_to_connection_' = [user_to_connection_ EXCEPT ![job[w].user] =
       IF @ = Pool!NoId THEN job[w].id ELSE @]
  /\ naming' = [naming EXCEPT ![job[w].id] = NoUser]
  /\ Goto(w, "online")
  /\ UNCHANGED <<connections_, user_id_, fault, delivered, closed, used, open, connVars, ratchet_mutex_,
                 redisVars, crashed, histVars, calls>>

register_user(w) ==
  /\ At(w, "register")
  /\ Pool!register_user(job[w].id)
  /\ Goto(w, "online")
  /\ UNCHANGED <<open, connVars, ratchet_mutex_, redisVars, crashed, histVars, calls>>

(* Mutant: the key names the connection.                                   *)
mark_id_online(w) ==
  /\ At(w, "online")
  /\ Redis([store EXCEPT !.online = @ \cup {job[w].id}])
  /\ away' = away \ {job[w].user}
  /\ Goto(w, "ratchet")
  /\ UNCHANGED <<poolVars, open, connVars, ratchet_mutex_, crashed, calls, budget, mail, acked, timedOut>>

(* Mutant: a user who was here before is not announced again.              *)
mark_once_online(w) ==
  /\ At(w, "online")
  /\ Redis([store EXCEPT !.online = @ \cup ({job[w].user} \ closed)])
  /\ away' = away \ {job[w].user}
  /\ Goto(w, "ratchet")
  /\ UNCHANGED <<poolVars, open, connVars, ratchet_mutex_, crashed, calls, budget, mail, acked, timedOut>>

(* SET online:<user> with five minutes to live, once per login.            *)
mark_user_online(w) ==
  /\ At(w, "online")
  /\ Redis([store EXCEPT !.online = @ \cup {job[w].user}])
  /\ away' = away \ {job[w].user}
  /\ Goto(w, "ratchet")
  /\ UNCHANGED <<poolVars, open, connVars, ratchet_mutex_, crashed, calls, budget, mail, acked, timedOut>>

(* std::lock_guard lock(ratchet_mutex_), and ratchet_mutex_.lock() by the  *)
(* worker that owns it by then.  glibc's mutex makes the owner wait for    *)
(* ever ("wait").  "pass" is a recursive native mutex, and also what is    *)
(* left once line 238 and its unlock() are taken out.                      *)
LockRatchets(w) ==
  /\ At(w, "ratchet") /\ ratchet_mutex_ = NoWorker
  /\ ratchet_mutex_' = w
  /\ \/ "pass" \in RelockOutcomes /\ Goto(w, "relock")
     \/ "wait" \in RelockOutcomes /\ Goto(w, "stuck")
  /\ UNCHANGED <<poolVars, open, connVars, redisVars, crashed,
                 histVars, calls>>

(* The rest of the handler; the mutex is free when lock_guard is destroyed.*)
AuthSuccess(w) ==
  /\ At(w, "relock")
  /\ ratchet_mutex_' = NoWorker
  /\ queue_message(job[w].id, "auth_success", 0)
  /\ Goto(w, "flush")
  /\ UNCHANGED <<poolVars, open, authenticated_, redisVars, crashed,
                 histVars, calls>>

----------------------------------------------------------------------------
(* The life of the Redis client, and time *)

(* start(), three seconds after main() began to serve: connect() succeeds, *)
(* or fails and waits for ever in disconnect() for the mutex it holds, as  *)
(* RedisClient shows; then every command waits for that mutex too.         *)
start ==
  /\ redis = "new" /\ ~crashed
  /\ redis' \in {"up", "hung"}
  /\ UNCHANGED <<poolVars, open, connVars, ratchet_mutex_, job, store, faults, crashed, histVars,
                 calls>>

(* signal_handler() calls stop(), which frees the contexts, while the      *)
(* workers still run; the process exits some time later.                   *)
stop ==
  /\ redis = "up" /\ ~crashed
  /\ redis' = "stopped"
  /\ UNCHANGED <<poolVars, open, connVars, ratchet_mutex_, job, store, faults, crashed, histVars, calls>>

(* External: keys of the Redis server reach the end of their life.         *)
PresenceLapses(u) ==
  /\ u \in store.online /\ ~crashed
  /\ store' = [store EXCEPT !.online = @ \ {u}]
  /\ away' = away \cup {u}
  /\ UNCHANGED <<poolVars, open, connVars, ratchet_mutex_, job, redis, faults, crashed, calls, budget, mail, acked,
                 timedOut>>

QueueLapses(u) ==
  /\ u \in store.expiring /\ ~crashed
  /\ store' = [store EXCEPT !.queue[u] = <<>>, !.expiring = @ \ {u}]
  /\ timedOut' = timedOut \cup {store.queue[u][i][1] : i \in DOMAIN store.queue[u]}
  /\ UNCHANGED <<poolVars, open, connVars, ratchet_mutex_, job, redis, faults, crashed, calls, budget, mail, acked,
                 away>>

Login(w) ==
  \/ register_user(w) \/ mark_user_online(w) \/ LockRatchets(w) \/ AuthSuccess(w)

Step(w) ==
  \/ Login(w) \/ mark_user_offline(w) \/ remove_connection(w) \/ PublishOrHset(w)
  \/ lpush(w) \/ expire(w) \/ Flush(w) \/ CommandOnNull(w)

Receive(id) ==
  \/ RefuseMessage(id) \/ handle_read_receipt(id)
  \/ handle_typing_indicator(id)
  \/ \E u \in budget.names : handle_authentication(id, u)
  \/ \E u \in budget.names, k \in budget.words : handle_message(id, u, k)

Next ==
  \/ \E id \in budget.ids : on_client_connected(id) \/ on_client_disconnected(id) \/ Receive(id)
  \/ \E w \in Workers : Step(w)
  \/ start \/ stop
  \/ \E u \in Users : PresenceLapses(u) \/ QueueLapses(u)

Spec == Init /\ [][Next]_vars

(* The scheduler runs every worker and the thread that calls start();      *)
(* sockets, signals and keys need do nothing.                              *)
Fairness == (\A w \in Workers : WF_vars(Step(w))) /\ WF_vars(start)

FairSpec == Spec /\ Fairness

----------------------------------------------------------------------------
(* Properties *)

(* The answers a handler queues leave with the same handler: no error,     *)
(* confirmation or login answer is left behind for a later message.        *)
NothingUnsent ==
  \A id \in Ids : outgoing_queue_[id] # <<>> =>
    job[WorkerOf[id]].at = "flush" /\ job[WorkerOf[id]].id = id

(* A worker reaches Redis, and so can wait for the client's mutex or die   *)
(* on a null context while the server starts or stops, only for a          *)
(* connection that has logged in: strangers are served at any time.        *)
StrangersNeverReachRedis ==
  \A w \in Workers : job[w].at \in CommandPCs =>
    job[w].id \in Live /\ authenticated_[job[w].id]

StoredCopies(m) ==
  LET q == store.queue[mail[m].to] IN Cardinality({i \in DOMAIN q : q[i] = <<m, "whole">>})

(* "queued" is said without looking at Redis's reply.  Yet the confirmed   *)
(* one-word messages that are not in their addressee's queue, and did not  *)
(* time out there, are no more than the commands that were lost, and the   *)
(* surplus copies no more than the commands that were sent again.          *)
LossesAccounted ==
  LET kept == {m \in acked : mail[m].words = 1 /\ m \notin timedOut} IN
  /\ Cardinality({m \in kept : StoredCopies(m) = 0}) <= faults["lost"]
  /\ Cardinality({m \in kept : StoredCopies(m) > 1}) <= faults["repeated"]

(* What one connection sends to one user lies in that user's queue newest  *)
(* first, also when other workers push in between and commands are lost or *)
(* repeated.                                                               *)
QueueInOrder ==
  \A u \in Users : \A i, j \in DOMAIN store.queue[u] :
    LET m == store.queue[u][i][1]  n == store.queue[u][j][1] IN
    mail[m].from = mail[n].from /\ i < j => m >= n

(* A queue has a time to live whenever no handler is between its LPUSH and *)
(* its EXPIRE, unless a command was lost or Redis went away in between.    *)
QueuesExpire ==
  faults["lost"] = 0 =>
    \A u \in Users : store.queue[u] # <<>> =>
      u \in store.expiring \/ \E w \in Workers : job[w].at = "expire" /\ job[w].user = u

(* A presence key stands for a live connection of that user, although the  *)
(* key and the pool change in separate steps and the closing of one        *)
(* connection races with the login of another.  Holds unless a connection  *)
(* logs in twice or a command is lost.                                     *)
OnlineHasConnection ==
  used = {} /\ faults["lost"] = 0 =>
    \A u \in store.online : \E id \in Live : user_id_[id] = u

(* Who has logged in on a connection that is still there is shown online   *)
(* until five minutes pass or one of the user's connections closes,        *)
(* because the key is not refreshed and the other connections do not count.*)
PresenceKept ==
  used = {} /\ faults["lost"] = 0 =>
    \A id \in Live :
      LET j == job[WorkerOf[id]] IN
      user_id_[id] \in Users \ away /\ ~(j.id = id /\ j.at \in {"register", "online"})
        => user_id_[id] \in store.online

(* The server uses the pool only as ConnectionPool allows: every step of   *)
(* it, with the naming of a connection and its registration interleaved    *)
(* with other workers, is a step of the pool or leaves the pool alone.     *)
PoolUse == Pool!Spec

Halted == crashed \/ redis = "hung"

(* Every chat message that is accepted is confirmed, although workers may  *)
(* be stuck in logins, unless the process died or the Redis client hangs.  *)
MessagesAnswered ==
  \A m \in 1..MaxMessages : Len(mail) >= m ~> (m \in acked \/ Halted)

(* A connection whose socket has closed leaves the pool, even when Redis   *)
(* commands fail: the pool does not fill up with the dead.                 *)
ClosedLeavePool ==
  \A id \in Ids : id \in Live \ open ~> (id \notin Live \/ Halted)

(* Every login is answered.                                                *)
AuthAnswered ==
  \A w \in Workers : job[w].at = "register" ~> (job[w].at = "flush" \/ Halted)
=============================================================================
