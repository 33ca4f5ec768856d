------------------------- MODULE RedisClientProofs -------------------------
(***************************************************************************)
(* Theorems about RedisClient for any set of threads, any pool size and    *)
(* any bounds.  The argument is the mutex discipline: contexts are written *)
(* only by the owner of pool_mutex_, so the prefix of the pool that        *)
(* connect() has opened stays open until running_ is published.            *)
(***************************************************************************)
EXTENDS RedisClient, FiniteSetTheorems, TLAPS

USE ThreadsAssumption, PoolSizeAssumption, BoundsAssumption DEF NoSlot, Slots

(* The loops of connect() and disconnect() stay within the pool. *)
LEMMA NextSlot ==
  ASSUME NEW i \in Slots, i # PoolSize
  PROVE  i + 1 \in Slots
OBVIOUS

(* The variables keep their types: every step of every caller, of the      *)
(* subscriber thread and of the server leaves slots, marks and control     *)
(* points within the code's ranges.                                        *)
THEOREM TypeCorrect == Spec => []TypeOK
<1>1. Init => TypeOK
  <2> SUFFICES ASSUME Init PROVE TypeOK
    OBVIOUS
  <2>1. context \in [Slots -> {"null", "live", "dead", "err"}] /\ in_use \in [Slots -> BOOLEAN]
    BY DEF Init
  <2>2. held \in [Threads -> Slots \cup {NoSlot}] /\ pc \in [Threads -> PCs]
    BY DEF Init, PCs
  <2>3. slot \in [Threads -> Slots]
    BY DEF Init
  <2>4. outages \in 0..MaxOutages /\ ops \in 0..MaxOps
    BY DEF Init
  <2> QED
    BY <2>1, <2>2, <2>3, <2>4 DEF Init, TypeOK
<1>2. TypeOK /\ [Next]_vars => TypeOK'
  <2> SUFFICES ASSUME TypeOK, [Next]_vars PROVE TypeOK'
    OBVIOUS
  <2> USE DEF TypeOK, PCs, ConnectPCs, DiscardPCs, CommandPCs, At, Goto,
              poolVars, lifeVars, envVars
  <2>1. ASSUME NEW t \in Threads, Call(t) PROVE TypeOK'
    <3>1. ops' \in 0..MaxOps
      BY <2>1 DEF Call, CallConnect, CallDisconnect, CallCommand
    <3>2. pc' \in [Threads -> PCs]
      BY <2>1 DEF Call, CallConnect, CallDisconnect, CallCommand
    <3> QED
      BY <2>1, <3>1, <3>2 DEF Call, CallConnect, CallDisconnect, CallCommand
  <2>2. ASSUME NEW t \in Threads, Connect(t) PROVE TypeOK'
    <3>1. CASE ConnectAlready(t)
      BY <3>1 DEF ConnectAlready, ReturnConnected
    <3>2. CASE ConnectBegin(t)
      BY <3>2 DEF ConnectBegin, LockPool
    <3>3. CASE ConnectFreeOld(t)
      BY <3>3 DEF ConnectFreeOld, FreeContext
    <3>4. CASE ConnectOpen(t)
      <4>1. slot' \in [Threads -> Slots]
        BY <3>4, NextSlot DEF ConnectOpen
      <4> QED
        BY <3>4, <4>1 DEF ConnectOpen
    <3>5. CASE ConnectFail(t)
      BY <3>5 DEF ConnectFail
    <3>6. CASE ConnectPublish(t)
      BY <3>6 DEF ConnectPublish
    <3>7. CASE ConnectSpawn(t)
      BY <3>7 DEF ConnectSpawn, UnlockPool, ReturnConnected
    <3>8. CASE ConnectTerminate(t)
      BY <3>8 DEF ConnectTerminate, Die
    <3> QED
      BY <2>2, <3>1, <3>2, <3>3, <3>4, <3>5, <3>6, <3>7, <3>8 DEF Connect
  <2>3. ASSUME NEW t \in Threads, Disconnect(t) PROVE TypeOK'
    <3>1. CASE DisconnectFlag(t)
      BY <3>1 DEF DisconnectFlag
    <3>2. CASE DisconnectJoinable(t)
      BY <3>2 DEF DisconnectJoinable
    <3>3. CASE DisconnectJoin(t)
      BY <3>3 DEF DisconnectJoin
    <3>4. CASE DisconnectThrow(t)
      BY <3>4 DEF DisconnectThrow, UnlockPool, DropSlot
    <3>5. CASE DisconnectJoined(t)
      BY <3>5 DEF DisconnectJoined
    <3>6. CASE DisconnectLock(t)
      BY <3>6 DEF DisconnectLock, LockPool
    <3>7. CASE DisconnectFree(t)
      <4>1. slot' \in [Threads -> Slots]
        BY <3>7, NextSlot DEF DisconnectFree
      <4> QED
        BY <3>7, <4>1 DEF DisconnectFree, FreeContext, UnlockPool
    <3> QED
      BY <2>3, <3>1, <3>2, <3>3, <3>4, <3>5, <3>6, <3>7 DEF Disconnect
  <2>4. ASSUME NEW t \in Threads, Command(t) PROVE TypeOK'
    <3>1. CASE Acquire(t)
      BY <3>1 DEF Acquire, FreeSlots
    <3>2. CASE AcquireNothing(t)
      BY <3>2 DEF AcquireNothing
    <3>3. CASE Send(t) \/ SendOnNull(t) \/ ReplyOnFreed(t)
      BY <3>3 DEF Send, SendOnNull, ReplyOnFreed, Waiting, Die
    <3>4. CASE ReplyOK(t)
      BY <3>4 DEF ReplyOK, DropSlot
    <3>5. CASE ReplyNull(t)
      BY <3>5 DEF ReplyNull
    <3>6. CASE ReplyNullAgain(t)
      BY <3>6 DEF ReplyNullAgain, DropSlot
    <3>7. CASE Judge(t)
      <4>1. /\ in_use' = in_use \/ in_use' = [s \in Slots |-> in_use[s] /\ s # held[t]]
            /\ held' = held \/ held' = [held EXCEPT ![t] = NoSlot]
        BY <3>7 DEF Judge, DropSlot
      <4>2. pc' \in [Threads -> PCs]
        BY <3>7 DEF Judge, PCs
      <4>3. in_use' \in [Slots -> BOOLEAN]
        BY <4>1
      <4>4. held' \in [Threads -> Slots \cup {NoSlot}]
        BY <4>1
      <4> QED
        BY <3>7, <4>2, <4>3, <4>4 DEF Judge
    <3> QED
      BY <2>4, <3>1, <3>2, <3>3, <3>4, <3>5, <3>6, <3>7 DEF Command
  <2>5. CASE SubscriberExit
    BY <2>5 DEF SubscriberExit
  <2>6. CASE Outage
    <3>1. outages' \in 0..MaxOutages
      BY <2>6 DEF Outage
    <3>2. context' \in [Slots -> {"null", "live", "dead", "err"}]
      BY <2>6 DEF Outage
    <3> QED
      BY <2>6, <3>1, <3>2 DEF Outage
  <2>7. CASE Recovery
    BY <2>7 DEF Recovery
  <2>8. CASE UNCHANGED vars
    BY <2>8 DEF vars
  <2> QED
    BY <2>1, <2>2, <2>3, <2>4, <2>5, <2>6, <2>7, <2>8 DEF Next
<1> QED
  BY <1>1, <1>2, PTL DEF Spec

(* The deleter of the shared_ptr frees exactly the slot of its thread:     *)
(* ownership survives whenever the thread gives up its slot and goes idle. *)
LEMMA DropSlotKeepsOwnership ==
  ASSUME TypeOK, SlotOwnership, NEW t \in Threads, DropSlot(t), Goto(t, "idle")
  PROVE  SlotOwnership'
<1> USE DEF TypeOK, SlotOwnership, DropSlot, Goto
<1>1. \A s \in Slots : in_use'[s] <=> in_use[s] /\ s # held[t]
  OBVIOUS
<1>2. \A u \in Threads : held'[u] = IF u = t THEN NoSlot ELSE held[u]
  OBVIOUS
<1>3. \A u \in Threads : u # t => pc'[u] = pc[u]
  OBVIOUS
<1>4. \A s \in Slots : in_use'[s] <=> \E u \in Threads : held'[u] = s
  BY <1>1, <1>2
<1> QED
  BY <1>2, <1>3, <1>4

(* A slot is marked in_use exactly while one thread holds it, on every     *)
(* path through acquire_connection(), the commands and the exception of    *)
(* join().                                                                 *)
THEOREM SlotsOwned == Spec => []SlotOwnership
<1>1. Init => SlotOwnership
  BY DEF Init, SlotOwnership
<1>2. TypeOK /\ SlotOwnership /\ [Next]_vars => SlotOwnership'
  <2> SUFFICES ASSUME TypeOK, SlotOwnership, [Next]_vars PROVE SlotOwnership'
    OBVIOUS
  <2> USE DEF At, poolVars, lifeVars, envVars
  <2>1. ASSUME NEW t \in Threads, Call(t) PROVE SlotOwnership'
    BY <2>1 DEF Call, CallConnect, CallDisconnect, CallCommand, Goto, SlotOwnership, TypeOK
  <2>2. ASSUME NEW t \in Threads, Connect(t) PROVE SlotOwnership'
    BY <2>2 DEF Connect, ConnectAlready, ConnectBegin, ConnectFreeOld, ConnectOpen,
         ConnectFail, ConnectPublish, ConnectSpawn, ConnectTerminate, ReturnConnected,
         Goto, SlotOwnership, TypeOK
  <2>3. ASSUME NEW t \in Threads, Disconnect(t) PROVE SlotOwnership'
    <3>1. CASE DisconnectThrow(t)
      BY <3>1, DropSlotKeepsOwnership DEF DisconnectThrow
    <3>2. CASE DisconnectFree(t)
      BY <3>2 DEF DisconnectFree, Goto, SlotOwnership, TypeOK
    <3>3. CASE DisconnectFlag(t) \/ DisconnectJoinable(t) \/ DisconnectJoin(t)
               \/ DisconnectJoined(t) \/ DisconnectLock(t)
      BY <3>3 DEF DisconnectFlag, DisconnectJoinable, DisconnectJoin, DisconnectJoined,
           DisconnectLock, Goto, SlotOwnership, TypeOK
    <3> QED
      BY <2>3, <3>1, <3>2, <3>3 DEF Disconnect
  <2>4. ASSUME NEW t \in Threads, Command(t) PROVE SlotOwnership'
    <3>1. CASE Acquire(t)
      <4>1. PICK s \in FreeSlots : /\ in_use' = [in_use EXCEPT ![s] = TRUE]
                                   /\ held' = [held EXCEPT ![t] = s]
        BY <3>1 DEF Acquire
      <4>2. \A u \in Threads : held[u] # s
        BY <4>1 DEF SlotOwnership, FreeSlots
      <4>3. held[t] = NoSlot
        BY <3>1 DEF Acquire, SlotOwnership
      <4>4. \A r \in Slots : in_use'[r] <=> in_use[r] \/ r = s
        BY <4>1 DEF TypeOK, FreeSlots
      <4>5. \A u \in Threads : held'[u] = IF u = t THEN s ELSE held[u]
        BY <4>1 DEF TypeOK
      <4>6. \A u \in Threads : pc'[u] = IF u = t THEN "send" ELSE pc[u]
        BY <3>1 DEF Acquire, Goto, TypeOK
      <4>7. \A r \in Slots : in_use'[r] <=> \E u \in Threads : held'[u] = r
        BY <4>3, <4>4, <4>5 DEF SlotOwnership
      <4> QED
        BY <4>2, <4>5, <4>6, <4>7 DEF SlotOwnership
    <3>2. CASE AcquireNothing(t) \/ Send(t) \/ SendOnNull(t) \/ ReplyNull(t) \/ ReplyOnFreed(t)
      BY <3>2 DEF AcquireNothing, Send, SendOnNull, ReplyNull, ReplyOnFreed, Waiting,
           Goto, SlotOwnership, TypeOK
    <3>3. CASE ReplyOK(t)
      BY <3>3, DropSlotKeepsOwnership DEF ReplyOK
    <3>4. CASE ReplyNullAgain(t)
      BY <3>4, DropSlotKeepsOwnership DEF ReplyNullAgain
    <3>5. CASE Judge(t) /\ context[held[t]] = "err"
      BY <3>5 DEF Judge, Goto, SlotOwnership, TypeOK
    <3>6. CASE Judge(t) /\ context[held[t]] # "err"
      BY <3>6, DropSlotKeepsOwnership DEF Judge
    <3> QED
      BY <2>4, <3>1, <3>2, <3>3, <3>4, <3>5, <3>6 DEF Command
  <2>5. CASE SubscriberExit \/ Outage \/ Recovery \/ UNCHANGED vars
    BY <2>5 DEF SubscriberExit, Outage, Recovery, vars, SlotOwnership
  <2> QED
    BY <2>1, <2>2, <2>3, <2>4, <2>5 DEF Next
<1> QED
  BY <1>1, <1>2, TypeCorrect, PTL DEF Spec

(* Giving up a slot is the Return of the slot pool, and nothing for a      *)
(* thread without one.                                                     *)
LEMMA DropSlotReturns ==
  ASSUME TypeOK, NEW t \in Threads, DropSlot(t)
  PROVE  [Leases!Next]_<<held, FreeSlots>>
<1> USE DEF TypeOK, DropSlot, FreeSlots
<1>1. CASE held[t] = NoSlot
  <2>1. held' = held
    BY <1>1
  <2>2. \A s \in Slots : in_use'[s] = in_use[s]
    BY <1>1 DEF Slots, NoSlot
  <2> QED
    BY <2>1, <2>2
<1>2. CASE held[t] # NoSlot
  <2>1. FreeSlots' = FreeSlots \cup {held[t]}
    BY <1>2
  <2>2. Leases!Return(t)
    BY <1>2, <2>1 DEF Leases!Return
  <2> QED
    BY <2>2 DEF Leases!Next
<1> QED
  BY <1>1, <1>2

(* The client implements the slot pool: its first state is the pool's, a   *)
(* thread's acquire_connection() is a lease, every way out of a command is *)
(* a return, and no other step of any thread, the subscriber or the server *)
(* moves a slot.                                                           *)
THEOREM ImplementsSlotPool == Spec => LeasesSlots
<1>1. Init => Leases!Init
  BY DEF Init, Leases!Init, FreeSlots
<1>2. TypeOK /\ SlotOwnership /\ [Next]_vars => [Leases!Next]_<<held, FreeSlots>>
  <2> SUFFICES ASSUME TypeOK, SlotOwnership, [Next]_vars
               PROVE  [Leases!Next]_<<held, FreeSlots>>
    OBVIOUS
  <2> USE DEF poolVars, lifeVars, envVars
  <2>0. held' = held /\ in_use' = in_use => UNCHANGED <<held, FreeSlots>>
    BY DEF FreeSlots
  <2>1. ASSUME NEW t \in Threads, Call(t) PROVE held' = held /\ in_use' = in_use
    BY <2>1 DEF Call, CallConnect, CallDisconnect, CallCommand
  <2>2. ASSUME NEW t \in Threads, Connect(t) PROVE held' = held /\ in_use' = in_use
    BY <2>2 DEF Connect, ConnectAlready, ConnectBegin, ConnectFreeOld, ConnectOpen,
         ConnectFail, ConnectPublish, ConnectSpawn, ConnectTerminate
  <2>3. ASSUME NEW t \in Threads, Disconnect(t)
        PROVE  DropSlot(t) \/ (held' = held /\ in_use' = in_use)
    BY <2>3 DEF Disconnect, DisconnectFlag, DisconnectJoinable, DisconnectJoin,
         DisconnectThrow, DisconnectJoined, DisconnectLock, DisconnectFree
  <2>4. ASSUME NEW t \in Threads, Acquire(t) PROVE Leases!Next
    <3>1. PICK s \in FreeSlots : /\ in_use' = [in_use EXCEPT ![s] = TRUE]
                                 /\ held' = [held EXCEPT ![t] = s]
      BY <2>4 DEF Acquire
    <3>2. held[t] = NoSlot
      BY <2>4 DEF Acquire, At, SlotOwnership
    <3>3. FreeSlots' = FreeSlots \ {s}
      BY <3>1 DEF FreeSlots, TypeOK
    <3>4. s \in Slots /\ Leases!Lease(t, s)
      BY <3>1, <3>2, <3>3 DEF Leases!Lease, FreeSlots
    <3> QED
      BY <3>4 DEF Leases!Next
  <2>5. ASSUME NEW t \in Threads, Command(t)
        PROVE  Acquire(t) \/ DropSlot(t) \/ (held' = held /\ in_use' = in_use)
    BY <2>5 DEF Command, AcquireNothing, Send, SendOnNull, ReplyOK, ReplyNull,
         ReplyNullAgain, ReplyOnFreed, Judge
  <2>6. CASE SubscriberExit \/ Outage \/ Recovery \/ UNCHANGED vars
    BY <2>0, <2>6 DEF SubscriberExit, Outage, Recovery, vars
  <2> QED
    BY <2>0, <2>1, <2>2, <2>3, <2>4, <2>5, <2>6, DropSlotReturns DEF Next
<1> QED
  BY <1>1, <1>2, TypeCorrect, SlotsOwned, PTL DEF Spec, LeasesSlots, Leases!Spec

(* A connected client has its subscriber thread: whoever sets running_     *)
(* also replaces the thread, and overwriting one that was not yet joined   *)
(* ends the process instead of leaving a client without a subscriber.      *)
THEOREM SubscriberRuns == Spec => []SubscriberRunsWhileConnected
<1>1. Init => SubscriberRunsWhileConnected
  BY DEF Init, SubscriberRunsWhileConnected
<1>2. TypeOK /\ SubscriberRunsWhileConnected /\ [Next]_vars => SubscriberRunsWhileConnected'
  <2> SUFFICES ASSUME TypeOK, SubscriberRunsWhileConnected, [Next]_vars
               PROVE  SubscriberRunsWhileConnected'
    OBVIOUS
  <2> USE DEF TypeOK, SubscriberRunsWhileConnected, At, Goto, poolVars, lifeVars, envVars
  <2>1. ASSUME NEW t \in Threads, Call(t) PROVE SubscriberRunsWhileConnected'
    BY <2>1 DEF Call, CallConnect, CallDisconnect, CallCommand
  <2>2. ASSUME NEW t \in Threads, Connect(t) PROVE SubscriberRunsWhileConnected'
    BY <2>2 DEF Connect, ConnectAlready, ConnectBegin, ConnectFreeOld, ConnectOpen,
         ConnectFail, ConnectPublish, ConnectSpawn, ConnectTerminate, ReturnConnected, Die
  <2>3. ASSUME NEW t \in Threads, Disconnect(t) PROVE SubscriberRunsWhileConnected'
    BY <2>3 DEF Disconnect, DisconnectFlag, DisconnectJoinable, DisconnectJoin,
         DisconnectThrow, DisconnectJoined, DisconnectLock, DisconnectFree
  <2>4. ASSUME NEW t \in Threads, Command(t) PROVE SubscriberRunsWhileConnected'
    BY <2>4 DEF Command, Acquire, AcquireNothing, Send, SendOnNull, ReplyOK, ReplyNull,
         ReplyNullAgain, ReplyOnFreed, Judge, Waiting, Die
  <2>5. CASE SubscriberExit \/ Outage \/ Recovery \/ UNCHANGED vars
    BY <2>5 DEF SubscriberExit, Outage, Recovery, vars
  <2> QED
    BY <2>1, <2>2, <2>3, <2>4, <2>5 DEF Next
<1> QED
  BY <1>1, <1>2, TypeCorrect, PTL DEF Spec

(* Only the owner of pool_mutex_ is inside a critical section of connect() *)
(* or disconnect(); the exception of join() leaves none of them behind.    *)
THEOREM MutexOwned == Spec => []MutexDiscipline
<1>1. Init => MutexDiscipline
  BY DEF Init, MutexDiscipline, ConnectPCs
<1>2. TypeOK /\ MutexDiscipline /\ [Next]_vars => MutexDiscipline'
  <2> SUFFICES ASSUME TypeOK, MutexDiscipline, [Next]_vars PROVE MutexDiscipline'
    OBVIOUS
  <2> USE DEF TypeOK, MutexDiscipline, ConnectPCs, At, Goto, UnlockPool, LockPool,
              poolVars, lifeVars, envVars
  <2>1. ASSUME NEW t \in Threads, Call(t) PROVE MutexDiscipline'
    BY <2>1 DEF Call, CallConnect, CallDisconnect, CallCommand
  <2>2. ASSUME NEW t \in Threads, Connect(t) PROVE MutexDiscipline'
    BY <2>2 DEF Connect, ConnectAlready, ConnectBegin, ConnectFreeOld, ConnectOpen,
         ConnectFail, ConnectPublish, ConnectSpawn, ConnectTerminate, ReturnConnected
  <2>3. ASSUME NEW t \in Threads, Disconnect(t) PROVE MutexDiscipline'
    BY <2>3 DEF Disconnect, DisconnectFlag, DisconnectJoinable, DisconnectJoin,
         DisconnectThrow, DisconnectJoined, DisconnectLock, DisconnectFree
  <2>4. ASSUME NEW t \in Threads, Command(t) PROVE MutexDiscipline'
    BY <2>4 DEF Command, Acquire, AcquireNothing, Send, SendOnNull, ReplyOK, ReplyNull,
         ReplyNullAgain, ReplyOnFreed, Judge
  <2>5. CASE SubscriberExit \/ Outage \/ Recovery \/ UNCHANGED vars
    BY <2>5 DEF SubscriberExit, Outage, Recovery, vars
  <2> QED
    BY <2>1, <2>2, <2>3, <2>4, <2>5 DEF Next
<1> QED
  BY <1>1, <1>2, TypeCorrect, PTL DEF Spec

(* The slots that connect() has passed stay open while it holds the mutex, *)
(* whatever the other threads do.                                          *)
THEOREM PrefixStaysOpen == Spec => []OpenedPrefix
<1>1. Init => OpenedPrefix
  BY DEF Init, OpenedPrefix
<1>2. TypeOK /\ MutexDiscipline /\ OpenedPrefix /\ [Next]_vars => OpenedPrefix'
  <2> SUFFICES ASSUME TypeOK, MutexDiscipline, OpenedPrefix, [Next]_vars PROVE OpenedPrefix'
    OBVIOUS
  <2> USE DEF TypeOK, OpenedPrefix, At, Goto, poolVars, lifeVars, envVars
  <2>1. ASSUME NEW t \in Threads, Call(t) PROVE OpenedPrefix'
    BY <2>1 DEF Call, CallConnect, CallDisconnect, CallCommand
  <2>2. ASSUME NEW t \in Threads, Connect(t) PROVE OpenedPrefix'
    <3>0. ASSUME pc[t] \in ConnectPCs
          PROVE  \A u \in Threads : u # t => pc[u] \notin ConnectPCs
      BY <3>0, MutexDiscipline DEF MutexDiscipline
    <3>1. CASE ConnectBegin(t) \/ ConnectAlready(t) \/ ConnectPublish(t)
               \/ ConnectSpawn(t) \/ ConnectTerminate(t)
      BY <3>1 DEF ConnectBegin, ConnectAlready, ConnectPublish, ConnectSpawn,
           ConnectTerminate, ReturnConnected
    <3>2. CASE ConnectFreeOld(t)
      BY <3>0, <3>2 DEF ConnectFreeOld, FreeContext, ConnectPCs
    <3>3. CASE ConnectOpen(t)
      BY <3>0, <3>3 DEF ConnectOpen, ConnectPCs
    <3>4. CASE ConnectFail(t)
      BY <3>0, <3>4 DEF ConnectFail, ConnectPCs
    <3> QED
      BY <2>2, <3>1, <3>2, <3>3, <3>4 DEF Connect
  <2>3. ASSUME NEW t \in Threads, Disconnect(t) PROVE OpenedPrefix'
    <3>1. CASE DisconnectFree(t)
      <4>1. \A u \in Threads : pc[u] \notin ConnectPCs
        BY <3>1 DEF DisconnectFree, MutexDiscipline, ConnectPCs
      <4>2. \A u \in Threads : pc'[u] \notin ConnectPCs
        BY <3>1, <4>1 DEF DisconnectFree, ConnectPCs
      <4> QED
        BY <4>2 DEF ConnectPCs
    <3>2. CASE ~DisconnectFree(t)
      BY <2>3, <3>2 DEF Disconnect, DisconnectFlag, DisconnectJoinable, DisconnectJoin,
           DisconnectThrow, DisconnectJoined, DisconnectLock
    <3> QED
      BY <3>1, <3>2
  <2>4. ASSUME NEW t \in Threads, Command(t) PROVE OpenedPrefix'
    BY <2>4 DEF Command, Acquire, AcquireNothing, Send, SendOnNull, ReplyOK, ReplyNull,
         ReplyNullAgain, ReplyOnFreed, Judge
  <2>5. CASE SubscriberExit \/ Outage \/ Recovery \/ UNCHANGED vars
    BY <2>5 DEF SubscriberExit, Outage, Recovery, vars
  <2> QED
    BY <2>1, <2>2, <2>3, <2>4, <2>5 DEF Next
<1> QED
  BY <1>1, <1>2, TypeCorrect, MutexOwned, PTL DEF Spec

(* running_ becomes true only with a context in every slot, whatever       *)
(* disconnect() of another thread is doing at that moment.                 *)
THEOREM PoolCompleteWhenPublished == Spec => PublishedPoolComplete
<1>1. TypeOK /\ OpenedPrefix /\ [Next]_vars
        => [~running_ /\ running_' => \A s \in Slots : context'[s] # "null"]_vars
  <2> SUFFICES ASSUME TypeOK, OpenedPrefix, Next, ~running_, running_'
               PROVE  \A s \in Slots : context'[s] # "null"
    OBVIOUS
  <2> USE DEF lifeVars, poolVars
  <2>1. PICK t \in Threads : ConnectPublish(t)
    <3>1. ASSUME NEW t \in Threads, Call(t) PROVE FALSE
      BY <3>1 DEF Call, CallConnect, CallDisconnect, CallCommand
    <3>2. ASSUME NEW t \in Threads, Disconnect(t) PROVE FALSE
      BY <3>2 DEF Disconnect, DisconnectFlag, DisconnectJoinable, DisconnectJoin,
           DisconnectThrow, DisconnectJoined, DisconnectLock, DisconnectFree
    <3>3. ASSUME NEW t \in Threads, Command(t) PROVE FALSE
      BY <3>3 DEF Command, Acquire, AcquireNothing, Send, SendOnNull, ReplyOK, ReplyNull,
           ReplyNullAgain, ReplyOnFreed, Judge
    <3>4. ASSUME NEW t \in Threads, Connect(t) PROVE ConnectPublish(t)
      BY <3>4 DEF Connect, ConnectAlready, ConnectBegin, ConnectFreeOld, ConnectOpen,
           ConnectFail, ConnectSpawn, ConnectTerminate
    <3>5. ~(SubscriberExit \/ Outage \/ Recovery)
      BY DEF SubscriberExit, Outage, Recovery
    <3> QED
      BY <3>1, <3>2, <3>3, <3>4, <3>5 DEF Next
  <2> QED
    BY <2>1 DEF ConnectPublish, OpenedPrefix, At
<1> QED
  BY <1>1, TypeCorrect, PrefixStaysOpen, PTL DEF Spec, PublishedPoolComplete

(* No step without an outage, of callers that all ask is_connected()       *)
(* first, ends the steady use of the client.                               *)
LEMMA SteadyStep ==
  ASSUME TypeOK, MutexDiscipline, OpenedPrefix, SlotOwnership, SteadyUse, [Next]_vars,
         outages' = 0, callers' \subseteq Guarded
  PROVE  SteadyUse'
<1> USE DEF TypeOK, SteadyUse, ConnectPCs, At, Goto, poolVars, lifeVars, envVars
<1>1. ASSUME NEW t \in Threads, Call(t) PROVE SteadyUse'
  <2>1. CASE CallConnect(t)
    <3>1. held[t] = NoSlot
      BY <2>1 DEF CallConnect, SlotOwnership
    <3> QED
      BY <2>1, <3>1 DEF CallConnect
  <2>2. CASE CallCommand(t)
    BY <2>2, callers' \subseteq Guarded DEF CallCommand
  <2>3. ~CallDisconnect(t)
    BY callers' \subseteq Guarded DEF CallDisconnect
  <2> QED
    BY <1>1, <2>1, <2>2, <2>3 DEF Call
<1>2. ASSUME NEW t \in Threads, Connect(t) PROVE SteadyUse'
  <2>0. ASSUME pc[t] \in ConnectPCs
        PROVE  \A u \in Threads : u # t => pc[u] \notin ConnectPCs
    BY <2>0, MutexDiscipline DEF MutexDiscipline
  <2>1. CASE ConnectAlready(t)
    BY <2>1 DEF ConnectAlready, ReturnConnected
  <2>2. CASE ConnectBegin(t)
    BY <2>2 DEF ConnectBegin
  <2>3. CASE ConnectFreeOld(t)
    <3>1. pc[t] = "free" /\ ~running_ /\ pc' = [pc EXCEPT ![t] = "open"]
      BY <2>3 DEF ConnectFreeOld
    <3>2. \A u \in Threads : u # t => pc[u] \notin {"reply", "rereply"} \/ running_
      OBVIOUS
    <3>3. stale' = {}
      BY <2>3, <3>1, <3>2 DEF ConnectFreeOld, FreeContext
    <3>4. \A s \in Slots : context'[s] \in {"null", "live"}
      BY <2>3 DEF ConnectFreeOld, FreeContext
    <3> QED
      BY <2>3, <3>1, <3>3, <3>4 DEF ConnectFreeOld
  <2>4. CASE ConnectOpen(t)
    BY <2>0, <2>4 DEF ConnectOpen
  <2>5. CASE ConnectPublish(t)
    BY <2>0, <2>5 DEF ConnectPublish, OpenedPrefix
  <2>6. CASE ConnectSpawn(t)
    BY <2>0, <2>6 DEF ConnectSpawn, ReturnConnected
  <2>7. ~ConnectFail(t) /\ ~ConnectTerminate(t)
    BY DEF ConnectFail, ConnectTerminate
  <2> QED
    BY <1>2, <2>1, <2>2, <2>3, <2>4, <2>5, <2>6, <2>7 DEF Connect
<1>3. ASSUME NEW t \in Threads, Disconnect(t) PROVE FALSE
  BY <1>3 DEF Disconnect, DisconnectFlag, DisconnectJoinable, DisconnectJoin,
       DisconnectThrow, DisconnectJoined, DisconnectLock, DisconnectFree
<1>4. ASSUME NEW t \in Threads, Command(t) PROVE SteadyUse'
  <2>1. CASE Acquire(t)
    BY <2>1 DEF Acquire, FreeSlots
  <2>2. CASE AcquireNothing(t)
    BY <2>2 DEF AcquireNothing
  <2>3. CASE Send(t)
    BY <2>3 DEF Send
  <2>4. CASE ReplyOK(t)
    BY <2>4 DEF ReplyOK, Waiting, DropSlot
  <2>5. ~(SendOnNull(t) \/ ReplyNull(t) \/ ReplyNullAgain(t) \/ ReplyOnFreed(t) \/ Judge(t))
    BY DEF SendOnNull, ReplyNull, ReplyNullAgain, ReplyOnFreed, Judge, Waiting
  <2> QED
    BY <1>4, <2>1, <2>2, <2>3, <2>4, <2>5 DEF Command
<1>5. CASE SubscriberExit
  BY <1>5 DEF SubscriberExit
<1>6. ~Outage
  BY outages' = 0 DEF Outage
<1>7. CASE Recovery \/ UNCHANGED vars
  BY <1>7 DEF Recovery, vars
<1> QED
  BY <1>1, <1>2, <1>3, <1>4, <1>5, <1>6, <1>7 DEF Next

(* While the Redis server stays up (no outage) and every caller asks       *)
(* is_connected() first, as HttpApi does, no number of threads and no      *)
(* interleaving of connect() with commands kills the process.              *)
THEOREM SteadyServerNoFault ==
  ASSUME MaxOutages = 0, Guarded = Threads
  PROVE  Spec => []NoFault
<1>1. Init => SteadyUse
  BY DEF Init, SteadyUse, ConnectPCs
<1>2. TypeOK /\ TypeOK' /\ MutexDiscipline /\ OpenedPrefix /\ SlotOwnership /\ SteadyUse
      /\ [Next]_vars => SteadyUse'
  <2> SUFFICES ASSUME TypeOK, TypeOK', MutexDiscipline, OpenedPrefix, SlotOwnership,
                      SteadyUse, [Next]_vars
               PROVE  SteadyUse'
    OBVIOUS
  <2>1. outages' = 0 /\ callers' \subseteq Guarded
    BY MaxOutages = 0, Guarded = Threads DEF TypeOK
  <2> QED
    BY <2>1, SteadyStep
<1>3. SteadyUse => NoFault
  BY DEF SteadyUse, NoFault
<1> QED
  BY <1>1, <1>2, <1>3, TypeCorrect, MutexOwned, PrefixStaysOpen, SlotsOwned, PTL DEF Spec

(* A thread inside the client has started an operation.                    *)
CallersActive == \A t \in Threads : pc[t] # "idle" => t \in callers

(* The client in the hands of one thread that asks is_connected() first:   *)
(* commands find running_ set and every slot with a context, and the       *)
(* subscriber thread is joined before connect() starts another.            *)
SoloUse ==
  /\ fault = "none" /\ stale = {}
  /\ running_ => \A s \in Slots : context[s] # "null"
  /\ (\A t \in Threads : pc[t] = "idle") /\ ~running_ => subscriber = "none"
  /\ \A t \in Threads :
       /\ pc[t] \in CommandPCs \cup {"spawn"} => running_
       /\ pc[t] \in CommandPCs \ {"acquire"} => held[t] \in Slots
       /\ pc[t] \in {"joinable", "join", "joining", "relock", "clear", "free", "open", "publish"}
            => ~running_
       /\ pc[t] \in {"relock", "clear", "free", "open", "publish", "spawn"} => subscriber = "none"
       /\ pc[t] = "lock" /\ ~running_ => subscriber = "none"
       /\ pc[t] = "join" => subscriber # "none"

(* Only callers are inside the client.                                     *)
LEMMA InsideMeansCaller == Spec => []CallersActive
<1>1. Init => CallersActive
  BY DEF Init, CallersActive
<1>2. TypeOK /\ CallersActive /\ [Next]_vars => CallersActive'
  <2> SUFFICES ASSUME TypeOK, CallersActive, [Next]_vars PROVE CallersActive'
    OBVIOUS
  <2> USE DEF TypeOK, CallersActive, At, Goto, poolVars, lifeVars, envVars
  <2>1. ASSUME NEW t \in Threads, Call(t) PROVE CallersActive'
    BY <2>1 DEF Call, CallConnect, CallDisconnect, CallCommand
  <2>2. ASSUME NEW t \in Threads, Connect(t) PROVE CallersActive'
    BY <2>2 DEF Connect, ConnectAlready, ConnectBegin, ConnectFreeOld, ConnectOpen,
         ConnectFail, ConnectPublish, ConnectSpawn, ConnectTerminate, ReturnConnected
  <2>3. ASSUME NEW t \in Threads, Disconnect(t) PROVE CallersActive'
    BY <2>3 DEF Disconnect, DisconnectFlag, DisconnectJoinable, DisconnectJoin,
         DisconnectThrow, DisconnectJoined, DisconnectLock, DisconnectFree
  <2>4. ASSUME NEW t \in Threads, Command(t) PROVE CallersActive'
    BY <2>4 DEF Command, Acquire, AcquireNothing, Send, SendOnNull, ReplyOK, ReplyNull,
         ReplyNullAgain, ReplyOnFreed, Judge, Waiting
  <2>5. CASE SubscriberExit \/ Outage \/ Recovery \/ UNCHANGED vars
    BY <2>5 DEF SubscriberExit, Outage, Recovery, vars
  <2> QED
    BY <2>1, <2>2, <2>3, <2>4, <2>5 DEF Next
<1> QED
  BY <1>1, <1>2, TypeCorrect, PTL DEF Spec

(* No step of the only caller, of its subscriber or of the server ends     *)
(* that use: what the thread tested or freed nobody else touches.          *)
LEMMA SoloStep ==
  ASSUME TypeOK, MutexDiscipline, OpenedPrefix, SlotOwnership, CallersActive, SoloUse, [Next]_vars,
         callers' \subseteq Guarded, \A u, v \in callers' : u = v
  PROVE  SoloUse'
<1> USE DEF At, Goto, poolVars, lifeVars, envVars, CommandPCs
<1>t. /\ pc = [u \in Threads |-> pc[u]] /\ held \in [Threads -> Slots \cup {NoSlot}]
      /\ context \in [Slots -> {"null", "live", "dead", "err"}]
      /\ slot \in [Threads -> Slots] /\ running_ \in BOOLEAN
  BY DEF TypeOK
<1>c. callers \subseteq callers'
  <2>1. ASSUME NEW t \in Threads, Call(t) PROVE callers \subseteq callers'
    BY <2>1 DEF Call, CallConnect, CallDisconnect, CallCommand
  <2>2. ASSUME NEW t \in Threads, Connect(t) PROVE callers' = callers
    BY <2>2 DEF Connect, ConnectAlready, ConnectBegin, ConnectFreeOld, ConnectOpen,
         ConnectFail, ConnectPublish, ConnectSpawn, ConnectTerminate
  <2>3. ASSUME NEW t \in Threads, Disconnect(t) PROVE callers' = callers
    BY <2>3 DEF Disconnect, DisconnectFlag, DisconnectJoinable, DisconnectJoin,
         DisconnectThrow, DisconnectJoined, DisconnectLock, DisconnectFree
  <2>4. ASSUME NEW t \in Threads, Command(t) PROVE callers' = callers
    BY <2>4 DEF Command, Acquire, AcquireNothing, Send, SendOnNull, ReplyOK, ReplyNull,
         ReplyNullAgain, ReplyOnFreed, Judge
  <2>5. CASE SubscriberExit \/ Outage \/ Recovery \/ UNCHANGED vars
    BY <2>5 DEF SubscriberExit, Outage, Recovery, vars
  <2> QED
    BY <2>1, <2>2, <2>3, <2>4, <2>5 DEF Next
<1>a. ASSUME NEW t \in Threads, pc[t] # "idle" \/ t \in callers'
      PROVE  \A u \in Threads : u # t => pc[u] = "idle" /\ held[u] = NoSlot
  BY <1>a, <1>c, <1>t DEF CallersActive, SlotOwnership
<1>1. ASSUME NEW t \in Threads, Call(t) PROVE SoloUse'
  <2>1. t \in callers' /\ pc[t] = "idle" /\ ~CallDisconnect(t)
    BY <1>1, callers' \subseteq Guarded DEF Call, CallConnect, CallDisconnect, CallCommand
  <2>2. \A u \in Threads : u # t => pc[u] = "idle"
    BY <1>a, <2>1
  <2>3. CASE CallConnect(t)
    BY <1>t, <2>1, <2>2, <2>3 DEF CallConnect, SoloUse
  <2>4. CASE CallCommand(t)
    BY <1>t, <2>1, <2>2, <2>4, callers' \subseteq Guarded DEF CallCommand, SoloUse
  <2> QED
    BY <1>1, <2>1, <2>3, <2>4 DEF Call
<1>2. ASSUME NEW t \in Threads, Connect(t) PROVE SoloUse'
  <2>0. pc[t] \in {"lock", "free", "open", "publish", "spawn"}
    BY <1>2 DEF Connect, ConnectAlready, ConnectBegin, ConnectFreeOld, ConnectOpen,
         ConnectFail, ConnectPublish, ConnectSpawn, ConnectTerminate
  <2>a. \A u \in Threads : u # t => pc[u] = "idle"
    BY <1>a, <2>0
  <2>1. CASE ConnectAlready(t)
    BY <1>t, <2>1, <2>a DEF ConnectAlready, ReturnConnected, SoloUse
  <2>2. CASE ConnectBegin(t)
    BY <1>t, <2>2, <2>a DEF ConnectBegin, SoloUse
  <2>3. CASE ConnectFreeOld(t)
    <3>1. stale' = {}
      BY <2>0, <2>3, <2>a DEF ConnectFreeOld, FreeContext, SoloUse
    <3> QED
      BY <1>t, <2>3, <2>a, <3>1 DEF ConnectFreeOld, SoloUse
  <2>4. CASE ConnectOpen(t)
    BY <1>t, <2>4, <2>a DEF ConnectOpen, SoloUse
  <2>5. CASE ConnectFail(t)
    BY <1>t, <2>5, <2>a DEF ConnectFail, SoloUse
  <2>6. CASE ConnectPublish(t)
    BY <1>t, <2>6, <2>a DEF ConnectPublish, SoloUse, OpenedPrefix
  <2>7. CASE ConnectSpawn(t)
    BY <1>t, <2>7, <2>a DEF ConnectSpawn, ReturnConnected, SoloUse
  <2>8. ~ConnectTerminate(t)
    BY DEF ConnectTerminate, SoloUse
  <2> QED
    BY <1>2, <2>1, <2>2, <2>3, <2>4, <2>5, <2>6, <2>7, <2>8 DEF Connect
<1>3. ASSUME NEW t \in Threads, Disconnect(t) PROVE SoloUse'
  <2>0. pc[t] \in {"flag", "joinable", "join", "joining", "relock", "clear"}
    BY <1>3 DEF Disconnect, DisconnectFlag, DisconnectJoinable, DisconnectJoin,
         DisconnectThrow, DisconnectJoined, DisconnectLock, DisconnectFree
  <2>a. \A u \in Threads : u # t => pc[u] = "idle"
    BY <1>a, <2>0
  <2>1. CASE DisconnectFlag(t)
    BY <1>t, <2>1, <2>a DEF DisconnectFlag, SoloUse
  <2>2. CASE DisconnectJoinable(t)
    BY <1>t, <2>2, <2>a DEF DisconnectJoinable, SoloUse
  <2>3. CASE DisconnectJoin(t)
    BY <1>t, <2>3, <2>a DEF DisconnectJoin, SoloUse
  <2>4. ~DisconnectThrow(t)
    BY <2>a DEF DisconnectThrow, BeingJoined, SoloUse
  <2>5. CASE DisconnectJoined(t)
    BY <1>t, <2>5, <2>a DEF DisconnectJoined, SoloUse
  <2>6. CASE DisconnectLock(t)
    BY <1>t, <2>6, <2>a DEF DisconnectLock, SoloUse
  <2>7. CASE DisconnectFree(t)
    <3>1. stale' = {}
      BY <2>0, <2>7, <2>a DEF DisconnectFree, FreeContext, SoloUse
    <3> QED
      BY <1>t, <2>7, <2>a, <3>1 DEF DisconnectFree, SoloUse
  <2> QED
    BY <1>3, <2>1, <2>2, <2>3, <2>4, <2>5, <2>6, <2>7 DEF Disconnect
<1>4. ASSUME NEW t \in Threads, Command(t) PROVE SoloUse'
  <2>0. pc[t] \in CommandPCs
    BY <1>4 DEF Command, Acquire, AcquireNothing, Send, SendOnNull, ReplyOK, ReplyNull,
         ReplyNullAgain, ReplyOnFreed, Judge, Waiting
  <2>a. \A u \in Threads : u # t => pc[u] = "idle"
    BY <1>a, <2>0
  <2>b. running_
    BY <2>0 DEF SoloUse
  <2>1. CASE Acquire(t)
    BY <1>t, <2>1, <2>a DEF Acquire, FreeSlots, SoloUse
  <2>2. CASE AcquireNothing(t)
    BY <1>t, <2>2, <2>a, <2>b DEF AcquireNothing, SoloUse
  <2>3. CASE Send(t)
    BY <1>t, <2>3, <2>a DEF Send, SoloUse
  <2>4. CASE ReplyOK(t)
    BY <1>t, <2>4, <2>a, <2>b DEF ReplyOK, Waiting, DropSlot, SoloUse
  <2>5. CASE ReplyNull(t)
    BY <1>t, <2>5, <2>a DEF ReplyNull, SoloUse
  <2>6. CASE ReplyNullAgain(t)
    BY <1>t, <2>6, <2>a, <2>b DEF ReplyNullAgain, DropSlot, SoloUse
  <2>7. CASE Judge(t)
    BY <1>t, <2>7, <2>a, <2>b DEF Judge, DropSlot, SoloUse
  <2>8. ~SendOnNull(t) /\ ~ReplyOnFreed(t)
    BY DEF SendOnNull, ReplyOnFreed, SoloUse
  <2> QED
    BY <1>4, <2>1, <2>2, <2>3, <2>4, <2>5, <2>6, <2>7, <2>8 DEF Command
<1>5. CASE SubscriberExit
  BY <1>t, <1>5 DEF SubscriberExit, SoloUse
<1>6. CASE Outage
  BY <1>t, <1>6 DEF Outage, SoloUse
<1>7. CASE Recovery \/ UNCHANGED vars
  BY <1>7 DEF Recovery, vars, SoloUse
<1> QED
  BY <1>1, <1>2, <1>3, <1>4, <1>5, <1>6, <1>7 DEF Next

(* At most one thread has called; and what follows when all callers ask    *)
(* is_connected() first.                                                   *)
Alone == \A u, v \in callers : u = v
FInv ==
  /\ IsFiniteSet(callers)
  /\ callers \subseteq Guarded /\ outages = 0 => SteadyUse
  /\ callers \subseteq Guarded /\ Alone => SoloUse

(* Threads that ask is_connected() first kill the process only together    *)
(* and only after an outage: without an outage the client is in steady     *)
(* use, and one thread alone never meets a context or a subscriber thread  *)
(* that changed behind its back.                                           *)
THEOREM FaultNeedsTwo == Spec => []FaultNeedsRivalAndOutage
<1>1. Init => FInv
  <2> SUFFICES ASSUME Init PROVE FInv
    OBVIOUS
  <2>1. SteadyUse
    BY DEF Init, SteadyUse, ConnectPCs
  <2>2. SoloUse
    BY DEF Init, SoloUse, CommandPCs
  <2>3. IsFiniteSet(callers)
    BY FS_EmptySet DEF Init
  <2> QED
    BY <2>1, <2>2, <2>3 DEF FInv
<1>2. TypeOK /\ MutexDiscipline /\ OpenedPrefix /\ SlotOwnership /\ CallersActive /\ FInv
      /\ [Next]_vars => FInv'
  <2> SUFFICES ASSUME TypeOK, MutexDiscipline, OpenedPrefix, SlotOwnership, CallersActive,
                      FInv, [Next]_vars
               PROVE  FInv'
    OBVIOUS
  <2>1. /\ callers' = callers \/ \E t \in Threads : callers' = callers \cup {t}
        /\ outages' = outages \/ outages' = outages + 1
    <3> USE DEF envVars
    <3>1. ASSUME NEW t \in Threads, Call(t)
          PROVE  outages' = outages /\ callers' = callers \cup {t}
      BY <3>1 DEF Call, CallConnect, CallDisconnect, CallCommand
    <3>2. ASSUME NEW t \in Threads, Connect(t) PROVE outages' = outages /\ callers' = callers
      BY <3>2 DEF Connect, ConnectAlready, ConnectBegin, ConnectFreeOld, ConnectOpen,
           ConnectFail, ConnectPublish, ConnectSpawn, ConnectTerminate
    <3>3. ASSUME NEW t \in Threads, Disconnect(t) PROVE outages' = outages /\ callers' = callers
      BY <3>3 DEF Disconnect, DisconnectFlag, DisconnectJoinable, DisconnectJoin,
           DisconnectThrow, DisconnectJoined, DisconnectLock, DisconnectFree
    <3>4. ASSUME NEW t \in Threads, Command(t) PROVE outages' = outages /\ callers' = callers
      BY <3>4 DEF Command, Acquire, AcquireNothing, Send, SendOnNull, ReplyOK, ReplyNull,
           ReplyNullAgain, ReplyOnFreed, Judge
    <3>5. CASE SubscriberExit \/ Outage \/ Recovery \/ UNCHANGED vars
      BY <3>5 DEF SubscriberExit, Outage, Recovery, vars
    <3> QED
      BY <3>1, <3>2, <3>3, <3>4, <3>5 DEF Next
  <2>2. IsFiniteSet(callers')
    BY <2>1, FS_AddElement DEF FInv
  <2>3. callers \subseteq callers' /\ (outages' = 0 => outages = 0)
    BY <2>1 DEF TypeOK
  <2>4. callers' \subseteq Guarded /\ outages' = 0 => SteadyUse'
    BY <2>3, SteadyStep DEF FInv
  <2>5. callers' \subseteq Guarded /\ Alone' => SoloUse'
    BY <2>3, SoloStep DEF FInv, Alone
  <2> QED
    BY <2>2, <2>4, <2>5 DEF FInv
<1>3. TypeOK /\ FInv => FaultNeedsRivalAndOutage
  <2> SUFFICES ASSUME TypeOK, FInv, fault # "none", callers \subseteq Guarded
               PROVE  outages > 0 /\ Cardinality(callers) > 1
    BY DEF FaultNeedsRivalAndOutage
  <2>1. outages > 0
    BY DEF FInv, SteadyUse, TypeOK
  <2>2. ~Alone
    BY DEF FInv, SoloUse
  <2>3. Cardinality(callers) \in Nat
    BY FS_CardinalityType DEF FInv
  <2>4. Cardinality(callers) # 0 /\ Cardinality(callers) # 1
    BY <2>2, FS_EmptySet, FS_Singleton DEF FInv, Alone
  <2> QED
    BY <2>1, <2>3, <2>4
<1> QED
  BY <1>1, <1>2, <1>3, TypeCorrect, MutexOwned, PrefixStaysOpen, SlotsOwned, InsideMeansCaller, PTL
     DEF Spec
=============================================================================
