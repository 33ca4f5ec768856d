---------------------------- MODULE RedisClient ----------------------------
(***************************************************************************)
(* The pooled Redis client of redis_client.cpp: a fixed vector of slots,   *)
(* each with a hiredis context, shared by the worker threads of the two    *)
(* servers.  pool_mutex_ guards the scan for a free slot and the writes of *)
(* the contexts; running_ is atomic; commands run on a context outside the *)
(* mutex; one subscriber thread lives between connect() and disconnect().  *)
(*                                                                         *)
(* Every step that another thread can observe is an action of its own.  A  *)
(* std::mutex is not recursive: on the deployment's libstdc++/glibc a      *)
(* second lock by its owner waits for ever, as LockPool says.              *)
(***************************************************************************)
EXTENDS Integers, FiniteSets

CONSTANTS Threads,      \* the threads that call into the client
          NoThread,     \* "pool_mutex_ is free"
          PoolSize,     \* config_.pool_size
          MaxOutages,   \* bound: how often the Redis server goes away
          MaxOps,       \* bound: operations started by all threads together
          Guarded       \* threads that ask is_connected() before a command

ASSUME ThreadsAssumption == NoThread \notin Threads
ASSUME PoolSizeAssumption == PoolSize \in Nat \ {0}
ASSUME BoundsAssumption == MaxOutages \in Nat /\ MaxOps \in Nat
ASSUME GuardedAssumption == Guarded \subseteq Threads

Slots  == 1..PoolSize
NoSlot == 0

VARIABLES
  pool_mutex,   \* the owner of pool_mutex_, or NoThread
  running_,     \* the atomic flag behind is_connected()
  context,      \* per slot: "null", "live", "dead" (peer gone, not yet
                \* noticed) or "err" (context->err is set)
  in_use,       \* per slot: Connection::in_use
  held,         \* per thread: the slot its shared_ptr points to, or NoSlot
  subscriber,   \* subscriber_thread_: "none" (not joinable), "alive", "exited"
  pc,           \* per thread: where it is in the client's code
  slot,         \* per thread: the loop variable of connect() and disconnect()
  stale,        \* threads inside redisCommand() on a context since freed
  fault,        \* how the process died, or "none"
  serverUp,     \* the Redis server accepts connections of this client
  outages,      \* outages so far
  ops,          \* operations started so far
  callers       \* history: the threads that started one

poolVars == <<pool_mutex, context, in_use, held, stale>>
lifeVars == <<running_, subscriber>>
envVars  == <<serverUp, outages, ops, callers>>
vars     == <<poolVars, lifeVars, pc, slot, fault, envVars>>

(* connect() between taking and releasing the mutex *)
ConnectPCs == {"free", "open", "publish", "spawn"}
(* disconnect() before it takes the mutex *)
DiscardPCs == {"flag", "joinable", "join", "joining", "relock"}
CommandPCs == {"acquire", "send", "reply", "judge", "resend", "rereply"}
PCs == {"idle", "lock", "clear"} \cup ConnectPCs \cup DiscardPCs \cup CommandPCs

TypeOK ==
  /\ pool_mutex \in Threads \cup {NoThread}
  /\ running_ \in BOOLEAN
  /\ context \in [Slots -> {"null", "live", "dead", "err"}]
  /\ in_use \in [Slots -> BOOLEAN]
  /\ held \in [Threads -> Slots \cup {NoSlot}]
  /\ subscriber \in {"none", "alive", "exited"}
  /\ pc \in [Threads -> PCs]
  /\ slot \in [Threads -> Slots]
  /\ stale \subseteq Threads
  /\ fault \in {"none", "null_deref", "use_after_free", "terminate"}
  /\ serverUp \in BOOLEAN
  /\ outages \in 0..MaxOutages
  /\ ops \in 0..MaxOps
  /\ callers \subseteq Threads

(* The constructor: pool_size slots without a context, nothing running. *)
Init ==
  /\ pool_mutex = NoThread
  /\ running_ = FALSE
  /\ context = [s \in Slots |-> "null"]
  /\ in_use = [s \in Slots |-> FALSE]
  /\ held = [t \in Threads |-> NoSlot]
  /\ subscriber = "none"
  /\ pc = [t \in Threads |-> "idle"]
  /\ slot = [t \in Threads |-> 1]
  /\ stale = {}
  /\ fault = "none"
  /\ serverUp = TRUE
  /\ outages = 0
  /\ ops = 0
  /\ callers = {}

----------------------------------------------------------------------------
(* Steps of a thread. *)

At(t, label) == pc[t] = label /\ fault = "none"
Goto(t, label) == pc' = [pc EXCEPT ![t] = label]

LockPool(t)   == pool_mutex = NoThread /\ pool_mutex' = t
UnlockPool(t) == pool_mutex' = IF pool_mutex = t THEN NoThread ELSE pool_mutex

(* The shared_ptr deleter: the slot is marked free without the mutex. *)
DropSlot(t) ==
  /\ held' = [held EXCEPT ![t] = NoSlot]
  /\ in_use' = [s \in Slots |-> in_use[s] /\ s # held[t]]

(* redisFree(slot's context); context = nullptr.  A thread that is inside   *)
(* redisCommand() on that context now works on freed memory.               *)
FreeContext(s) ==
  /\ context' = [context EXCEPT ![s] = "null"]
  /\ stale' = IF context[s] = "null" THEN stale
              ELSE stale \cup {u \in Threads : held[u] = s /\ pc[u] \in {"reply", "rereply"}}

Die(how) == fault' = how

----------------------------------------------------------------------------
(* Callers.  Start-up and authenticate_request() call connect();           *)
(* MessengerServer::stop() and the destructor call disconnect();           *)
(* everything else is a command, after an is_connected() test in HttpApi   *)
(* and without one in MessengerServer.                                     *)

CallConnect(t) ==
  /\ At(t, "idle") /\ ops < MaxOps
  /\ ops' = ops + 1 /\ callers' = callers \cup {t}
  /\ Goto(t, "lock")
  /\ UNCHANGED <<poolVars, lifeVars, slot, fault, serverUp, outages>>

CallDisconnect(t) ==
  /\ At(t, "idle") /\ ops < MaxOps /\ t \notin Guarded
  /\ ops' = ops + 1 /\ callers' = callers \cup {t}
  /\ Goto(t, "flag")
  /\ UNCHANGED <<poolVars, lifeVars, slot, fault, serverUp, outages>>

(* Mutant: the caller does not ask is_connected().                         *)
CallCommandUnasked(t) ==
  /\ At(t, "idle") /\ ops < MaxOps
  /\ ops' = ops + 1 /\ callers' = callers \cup {t}
  /\ Goto(t, "acquire")
  /\ UNCHANGED <<poolVars, lifeVars, slot, fault, serverUp, outages>>

CallCommand(t) ==
  /\ At(t, "idle") /\ ops < MaxOps
  /\ t \in Guarded => running_
  /\ ops' = ops + 1 /\ callers' = callers \cup {t}
  /\ Goto(t, "acquire")
  /\ UNCHANGED <<poolVars, lifeVars, slot, fault, serverUp, outages>>

----------------------------------------------------------------------------
(* connect() *)

(* connect() returns true: to the command that reconnects, or to a caller  *)
(* that stops there or goes on with a command (authenticate_request).      *)
ReturnConnected(t) ==
  \/ held[t] # NoSlot /\ Goto(t, "resend")
  \/ held[t] = NoSlot /\ Goto(t, "idle")
  \/ held[t] = NoSlot /\ Goto(t, "acquire")

(* Mutant: the early return leaves the mutex locked.                       *)
ConnectAlreadyLocked(t) ==
  /\ At(t, "lock") /\ LockPool(t) /\ running_
  /\ ReturnConnected(t)
  /\ UNCHANGED <<context, in_use, held, stale, lifeVars, slot, fault, envVars>>

ConnectAlready(t) ==
  /\ At(t, "lock") /\ pool_mutex = NoThread /\ running_
  /\ ReturnConnected(t)
  /\ UNCHANGED <<poolVars, lifeVars, slot, fault, envVars>>

ConnectBegin(t) ==
  /\ At(t, "lock") /\ LockPool(t) /\ ~running_
  /\ slot' = [slot EXCEPT ![t] = 1]
  /\ Goto(t, "free")
  /\ UNCHANGED <<context, in_use, held, stale, lifeVars, fault, envVars>>

ConnectFreeOld(t) ==
  /\ At(t, "free")
  /\ FreeContext(slot[t])
  /\ Goto(t, "open")
  /\ UNCHANGED <<pool_mutex, in_use, held, lifeVars, slot, fault, envVars>>

(* Mutant: the loop runs one slot too far.                                 *)
ConnectOpenPast(t) ==
  /\ At(t, "open") /\ serverUp
  /\ context' = [context EXCEPT ![slot[t]] = "live"]
  /\ IF slot[t] > PoolSize
     THEN Goto(t, "publish") /\ UNCHANGED slot
     ELSE Goto(t, "free") /\ slot' = [slot EXCEPT ![t] = slot[t] + 1]
  /\ UNCHANGED <<pool_mutex, in_use, held, stale, lifeVars, fault, envVars>>

(* redisConnectWithTimeout, AUTH and PING all succeed. *)
ConnectOpen(t) ==
  /\ At(t, "open") /\ serverUp
  /\ context' = [context EXCEPT ![slot[t]] = "live"]
  /\ IF slot[t] = PoolSize
     THEN Goto(t, "publish") /\ UNCHANGED slot
     ELSE Goto(t, "free") /\ slot' = [slot EXCEPT ![t] = slot[t] + 1]
  /\ UNCHANGED <<pool_mutex, in_use, held, stale, lifeVars, fault, envVars>>

(* One of the three fails: the context is freed, except after a PING that  *)
(* got no reply (err is set) or an error reply (the context stays good),   *)
(* and disconnect() is called with the mutex still held.                   *)
ConnectFail(t) ==
  /\ At(t, "open") /\ ~serverUp
  /\ \E left \in {"null", "err", "live"} : context' = [context EXCEPT ![slot[t]] = left]
  /\ Goto(t, "flag")
  /\ UNCHANGED <<pool_mutex, in_use, held, stale, lifeVars, slot, fault, envVars>>

ConnectPublish(t) ==
  /\ At(t, "publish")
  /\ running_' = TRUE
  /\ Goto(t, "spawn")
  /\ UNCHANGED <<poolVars, subscriber, slot, fault, envVars>>

(* Move assignment to a std::thread that is still joinable terminates.     *)
ConnectSpawn(t) ==
  /\ At(t, "spawn") /\ subscriber = "none"
  /\ subscriber' = "alive"
  /\ UnlockPool(t)
  /\ ReturnConnected(t)
  /\ UNCHANGED <<context, in_use, held, stale, running_, slot, fault, envVars>>

(* Mutant: a thread that is still joinable is kept instead of replaced.    *)
ConnectKeepOld(t) ==
  /\ At(t, "spawn") /\ subscriber # "none"
  /\ UnlockPool(t)
  /\ ReturnConnected(t)
  /\ UNCHANGED <<context, in_use, held, stale, lifeVars, slot, fault, envVars>>

ConnectTerminate(t) ==
  /\ At(t, "spawn") /\ subscriber # "none"
  /\ Die("terminate")
  /\ UNCHANGED <<poolVars, lifeVars, pc, slot, envVars>>

----------------------------------------------------------------------------
(* disconnect() *)

DisconnectFlag(t) ==
  /\ At(t, "flag")
  /\ running_' = FALSE
  /\ Goto(t, "joinable")
  /\ UNCHANGED <<poolVars, subscriber, slot, fault, envVars>>

(* Mutant: the subscriber thread is not joined.                            *)
DisconnectUnjoined(t) ==
  /\ At(t, "joinable")
  /\ Goto(t, "relock")
  /\ UNCHANGED <<poolVars, lifeVars, slot, fault, envVars>>

DisconnectJoinable(t) ==
  /\ At(t, "joinable")
  /\ Goto(t, IF subscriber = "none" THEN "relock" ELSE "join")
  /\ UNCHANGED <<poolVars, lifeVars, slot, fault, envVars>>

BeingJoined == \E u \in Threads : pc[u] = "joining"

DisconnectJoin(t) ==
  /\ At(t, "join") /\ subscriber # "none" /\ ~BeingJoined
  /\ Goto(t, "joining")
  /\ UNCHANGED <<poolVars, lifeVars, slot, fault, envVars>>

(* join() of a thread that another caller joins, or has joined, throws     *)
(* std::system_error; unwinding releases the mutex and the slot, and the   *)
(* web framework's worker catches it.                                      *)
DisconnectThrow(t) ==
  /\ At(t, "join") /\ (subscriber = "none" \/ BeingJoined)
  /\ UnlockPool(t)
  /\ DropSlot(t)
  /\ Goto(t, "idle")
  /\ UNCHANGED <<context, stale, lifeVars, slot, fault, envVars>>

DisconnectJoined(t) ==
  /\ At(t, "joining") /\ subscriber = "exited"
  /\ subscriber' = "none"
  /\ Goto(t, "relock")
  /\ UNCHANGED <<poolVars, running_, slot, fault, envVars>>

(* Mutant: the contexts are freed without the mutex.                       *)
DisconnectUnlocked(t) ==
  /\ At(t, "relock")
  /\ slot' = [slot EXCEPT ![t] = 1]
  /\ Goto(t, "clear")
  /\ UNCHANGED <<poolVars, lifeVars, fault, envVars>>

DisconnectLock(t) ==
  /\ At(t, "relock") /\ LockPool(t)
  /\ slot' = [slot EXCEPT ![t] = 1]
  /\ Goto(t, "clear")
  /\ UNCHANGED <<context, in_use, held, stale, lifeVars, fault, envVars>>

(* Frees one slot per step; after the last one the mutex is released and   *)
(* reconnect() goes on to connect().                                       *)
DisconnectFree(t) ==
  /\ At(t, "clear")
  /\ FreeContext(slot[t])
  /\ IF slot[t] = PoolSize
     THEN /\ UnlockPool(t)
          /\ Goto(t, IF held[t] = NoSlot THEN "idle" ELSE "lock")
          /\ UNCHANGED slot
     ELSE /\ slot' = [slot EXCEPT ![t] = slot[t] + 1]
          /\ UNCHANGED <<pool_mutex, pc>>
  /\ UNCHANGED <<in_use, held, lifeVars, fault, envVars>>

----------------------------------------------------------------------------
(* Commands *)

FreeSlots == {s \in Slots : ~in_use[s]}

(* Mutant: the slot is handed out without being marked.                    *)
AcquireUnmarked(t) ==
  /\ At(t, "acquire") /\ pool_mutex = NoThread
  /\ \E s \in FreeSlots :
       (\A r \in FreeSlots : s <= r) /\ held' = [held EXCEPT ![t] = s]
  /\ Goto(t, "send")
  /\ UNCHANGED <<pool_mutex, context, in_use, stale, lifeVars, slot, fault, envVars>>

(* acquire_connection(): the first free slot, in one critical section.     *)
Acquire(t) ==
  /\ At(t, "acquire") /\ pool_mutex = NoThread
  /\ \E s \in FreeSlots :
       /\ \A r \in FreeSlots : s <= r
       /\ in_use' = [in_use EXCEPT ![s] = TRUE]
       /\ held' = [held EXCEPT ![t] = s]
  /\ Goto(t, "send")
  /\ UNCHANGED <<pool_mutex, context, stale, lifeVars, slot, fault, envVars>>

(* No slot is free: the command returns its empty value at once.           *)
AcquireNothing(t) ==
  /\ At(t, "acquire") /\ pool_mutex = NoThread
  /\ FreeSlots = {}
  /\ Goto(t, "idle")
  /\ UNCHANGED <<poolVars, lifeVars, slot, fault, envVars>>

(* redisCommand(conn.context, ...) dereferences the context it is given.   *)
Send(t) ==
  /\ (At(t, "send") \/ At(t, "resend")) /\ context[held[t]] # "null"
  /\ Goto(t, IF pc[t] = "send" THEN "reply" ELSE "rereply")
  /\ UNCHANGED <<poolVars, lifeVars, slot, fault, envVars>>

SendOnNull(t) ==
  /\ (At(t, "send") \/ At(t, "resend")) /\ context[held[t]] = "null"
  /\ Die("null_deref")
  /\ UNCHANGED <<poolVars, lifeVars, pc, slot, envVars>>

Waiting(t) == At(t, "reply") \/ At(t, "rereply")

(* A reply arrives: the value is returned and the slot released.           *)
ReplyOK(t) ==
  /\ Waiting(t) /\ t \notin stale /\ context[held[t]] = "live"
  /\ DropSlot(t)
  /\ Goto(t, "idle")
  /\ UNCHANGED <<pool_mutex, context, stale, lifeVars, slot, fault, envVars>>

(* The connection is gone: hiredis sets err and returns NULL.              *)
ReplyNull(t) ==
  /\ At(t, "reply") /\ t \notin stale /\ context[held[t]] \in {"dead", "err"}
  /\ context' = [context EXCEPT ![held[t]] = "err"]
  /\ Goto(t, "judge")
  /\ UNCHANGED <<pool_mutex, in_use, held, stale, lifeVars, slot, fault, envVars>>

(* The retry fails too: the command returns its empty value.               *)
ReplyNullAgain(t) ==
  /\ At(t, "rereply") /\ t \notin stale /\ context[held[t]] \in {"dead", "err"}
  /\ context' = [context EXCEPT ![held[t]] = "err"]
  /\ DropSlot(t)
  /\ Goto(t, "idle")
  /\ UNCHANGED <<pool_mutex, stale, lifeVars, slot, fault, envVars>>

ReplyOnFreed(t) ==
  /\ Waiting(t) /\ t \in stale
  /\ Die("use_after_free")
  /\ UNCHANGED <<poolVars, lifeVars, pc, slot, envVars>>

(* Mutant: the retry takes another slot, if there is one, and no lock.     *)
JudgeElsewhere(t) ==
  /\ At(t, "judge")
  /\ \E s \in FreeSlots \cup {held[t]} :
       /\ s = held[t] => FreeSlots = {}
       /\ held' = [held EXCEPT ![t] = s]
       /\ in_use' = [r \in Slots |-> r = s \/ (in_use[r] /\ r # held[t])]
  /\ Goto(t, "resend")
  /\ UNCHANGED <<pool_mutex, context, stale, lifeVars, slot, fault, envVars>>

(* reply == nullptr && conn.context && conn.context->err: the context is   *)
(* read again, and may have been freed or replaced since.                  *)
Judge(t) ==
  /\ At(t, "judge")
  /\ IF context[held[t]] = "err"
     THEN Goto(t, "flag") /\ UNCHANGED <<held, in_use>>
     ELSE Goto(t, "idle") /\ DropSlot(t)
  /\ UNCHANGED <<pool_mutex, context, stale, lifeVars, slot, fault, envVars>>

----------------------------------------------------------------------------
(* The subscriber thread and the Redis server *)

(* subscriber_loop() leaves its loop once it sees running_ false.          *)
SubscriberExit ==
  /\ fault = "none" /\ subscriber = "alive" /\ ~running_
  /\ subscriber' = "exited"
  /\ UNCHANGED <<poolVars, running_, pc, slot, fault, envVars>>

(* External: the server goes away and every open connection with it.       *)
Outage ==
  /\ fault = "none" /\ serverUp /\ outages < MaxOutages
  /\ serverUp' = FALSE
  /\ outages' = outages + 1
  /\ context' = [s \in Slots |-> IF context[s] = "live" THEN "dead" ELSE context[s]]
  /\ UNCHANGED <<pool_mutex, in_use, held, stale, lifeVars, pc, slot, fault, ops, callers>>

Recovery ==
  /\ fault = "none" /\ ~serverUp
  /\ serverUp' = TRUE
  /\ UNCHANGED <<poolVars, lifeVars, pc, slot, fault, outages, ops, callers>>

Call(t) == CallConnect(t) \/ CallDisconnect(t) \/ CallCommand(t)

Connect(t) ==
  \/ ConnectAlready(t) \/ ConnectBegin(t) \/ ConnectFreeOld(t) \/ ConnectOpen(t)
  \/ ConnectFail(t) \/ ConnectPublish(t) \/ ConnectSpawn(t) \/ ConnectTerminate(t)

Disconnect(t) ==
  \/ DisconnectFlag(t) \/ DisconnectJoinable(t) \/ DisconnectJoin(t)
  \/ DisconnectThrow(t) \/ DisconnectJoined(t) \/ DisconnectLock(t)
  \/ DisconnectFree(t)

Command(t) ==
  \/ Acquire(t) \/ AcquireNothing(t) \/ Send(t) \/ SendOnNull(t) \/ ReplyOK(t)
  \/ ReplyNull(t) \/ ReplyNullAgain(t) \/ ReplyOnFreed(t) \/ Judge(t)

Next ==
  \/ \E t \in Threads : Call(t) \/ Connect(t) \/ Disconnect(t) \/ Command(t)
  \/ SubscriberExit
  \/ Outage
  \/ Recovery

Spec == Init /\ [][Next]_vars

(* The scheduler runs every thread that can run; callers need not call and *)
(* the server need not come back.                                          *)
Fairness ==
  /\ \A t \in Threads : WF_vars(Connect(t) \/ Disconnect(t) \/ Command(t))
  /\ WF_vars(SubscriberExit)

FairSpec == Spec /\ Fairness

----------------------------------------------------------------------------
(* Properties *)

(* A slot is marked in_use exactly while one thread, and only one, holds   *)
(* it, although the deleter clears the mark without the mutex: two         *)
(* commands never write to one hiredis context at the same time, and no    *)
(* path out of a command, the exceptional one of join() included, leaks a  *)
(* slot.                                                                   *)
SlotOwnership ==
  /\ \A s \in Slots : in_use[s] <=> \E t \in Threads : held[t] = s
  /\ \A t, u \in Threads : held[t] = held[u] /\ held[t] # NoSlot => t = u
  /\ \A t \in Threads : held[t] # NoSlot => pc[t] \notin {"idle", "acquire"}

(* The client implements the slot pool its callers rely on, through every  *)
(* outage, reconnection and exception: the slots without in_use are the    *)
(* free ones and the shared_ptrs the leases.  A thread gets one slot at a  *)
(* time, keeps it over the whole of a command, its reconnection and its    *)
(* retry included, and no other thread's step takes it away.               *)
Leases == INSTANCE SlotPool WITH Clients <- Threads, lease <- held, free <- FreeSlots
LeasesSlots == Leases!Spec

(* connect() announces a connection (running_ becomes true) only when      *)
(* every slot of the pool has a context, although disconnect() of another  *)
(* thread may be under way at the same time.                               *)
PublishedPoolComplete ==
  [][~running_ /\ running_' => \A s \in Slots : context'[s] # "null"]_vars

(* A client that is connected, and not inside the last step of connect(),  *)
(* has a live subscriber thread: the loop that ended because an earlier    *)
(* disconnect() cleared running_ is never mistaken for the new one.        *)
SubscriberRunsWhileConnected ==
  fault = "none" /\ running_ /\ (\A t \in Threads : pc[t] # "spawn") => subscriber = "alive"

(* The process does not die inside the client: no null or freed context    *)
(* is used and no joinable std::thread is overwritten.  Holds while the    *)
(* server stays up and callers ask is_connected() first.                   *)
NoFault == fault = "none"

(* Threads that ask is_connected() first kill the process only together    *)
(* and only after an outage: one such thread survives any outage, at any   *)
(* point of its connect(), disconnect() or retry, and any number of them   *)
(* survives without one.                                                   *)
FaultNeedsRivalAndOutage ==
  fault # "none" /\ callers \subseteq Guarded => outages > 0 /\ Cardinality(callers) > 1

(* Every operation that was started returns to its caller, with its value, *)
(* its empty value or an exception.                                        *)
OperationsReturn == \A t \in Threads : pc[t] # "idle" ~> pc[t] = "idle"

(* connect() returns, true or false, also while the server is away.        *)
ConnectReturns ==
  \A t \in Threads : pc[t] = "lock" ~> (pc[t] \in {"idle", "acquire", "resend"} \/ fault # "none")

----------------------------------------------------------------------------
(* Parts of the inductive invariants of RedisClientProofs *)

(* Whoever is inside a critical section of connect() or disconnect() owns  *)
(* pool_mutex_.                                                            *)
MutexDiscipline ==
  \A t \in Threads : pc[t] \in ConnectPCs \cup {"clear"} => pool_mutex = t

(* connect() has opened the slots its loop has passed.                     *)
OpenedPrefix ==
  \A t \in Threads :
    /\ pc[t] \in {"free", "open"} => \A s \in Slots : s < slot[t] => context[s] # "null"
    /\ pc[t] = "publish" => \A s \in Slots : context[s] # "null"

(* The client while the server stays up and every caller asks              *)
(* is_connected() first: nothing disconnects, commands run only after the  *)
(* pool was published, and connect() works on a pool nobody uses yet.      *)
SteadyUse ==
  /\ fault = "none" /\ serverUp /\ stale = {}
  /\ running_ => \A s \in Slots : context[s] = "live"
  /\ ~running_ => subscriber = "none"
  /\ \A s \in Slots : context[s] \in {"null", "live"}
  /\ \A t \in Threads :
       /\ pc[t] \in {"idle", "lock", "acquire", "send", "reply"} \cup ConnectPCs
       /\ pc[t] \in {"lock"} \cup ConnectPCs => held[t] = NoSlot
       /\ pc[t] \in {"send", "reply"} => held[t] \in Slots
       /\ pc[t] \in {"acquire", "send", "reply"} => running_
       /\ pc[t] \in {"free", "open", "publish"} => ~running_
       /\ pc[t] = "spawn" => running_ /\ subscriber = "none"
=============================================================================
