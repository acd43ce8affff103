--------------------------- MODULE QueuePoolProofs ---------------------------
(* Proofs about QueuePool, for every number of threads: no key gets two pools, no queue
   is handed out twice, and none is lost when a pool stops acquiring. *)
EXTENDS QueuePool, SequenceTheorems, FiniteSetTheorems, TLAPS

Looking == {"find", "lookup", "insert", "yield"}

(* Who inserts is the only one that converted its lock, and its key is not there yet.
   A window doesn't look for a pool. *)
Pools ==
  /\ pools \in Seq(Keys) /\ IsInjective(pools)
  /\ converter \in Threads \cup {NoThread}
  /\ DOMAIN pc = Threads /\ DOMAIN key = Threads
  /\ \A t \in Threads \ Windows : key[t] \in Keys
  /\ \A t \in Windows : pc[t] \notin Looking
  /\ \A t \in Threads : pc[t] = "insert" => converter = t /\ key[t] \notin Range(pools)
  /\ converter # NoThread => pc[converter] = "insert"

LEMMA InitPools == Init => Pools
<1> SUFFICES ASSUME Init PROVE Pools
  OBVIOUS
<1>1. pools = <<>> /\ converter = NoThread /\ pc = [t \in Threads |-> "idle"]
      /\ key = [t \in Threads |-> IF t \in Windows THEN WindowKey[t] ELSE CHOOSE k \in Keys : TRUE]
  BY DEF Init
<1>2. (CHOOSE k \in Keys : TRUE) \in Keys
  BY KeysAssumption
<1>3. <<>> \in Seq(Keys) /\ IsInjective(<<>>)
  BY DEF IsInjective
<1>4. DOMAIN pc = Threads /\ DOMAIN key = Threads /\ \A t \in Threads : pc[t] = "idle"
  BY <1>1
<1>5. \A t \in Threads \ Windows : key[t] \in Keys
  BY <1>1, <1>2
<1> QED
  BY <1>1, <1>3, <1>4, <1>5 DEF Pools, Looking, Threads

(* Appending an element that is not there keeps a sequence without duplicates. *)
LEMMA AppendNew ==
  ASSUME NEW S, NEW s \in Seq(S), IsInjective(s), NEW e \in S, e \notin Range(s)
  PROVE  Append(s, e) \in Seq(S) /\ IsInjective(Append(s, e)) /\ Range(Append(s, e)) = Range(s) \cup {e}
<1>1. /\ Append(s, e) \in Seq(S) /\ Len(Append(s, e)) = Len(s) + 1
      /\ \A i \in 1..Len(s) : Append(s, e)[i] = s[i]
      /\ Append(s, e)[Len(s) + 1] = e
      /\ DOMAIN s = 1..Len(s) /\ DOMAIN Append(s, e) = 1..(Len(s) + 1) /\ Len(s) \in Nat
  OBVIOUS
<1>2. \A i \in 1..Len(s) : s[i] # e
  BY <1>1 DEF Range
<1> QED
  BY <1>1, <1>2 DEF IsInjective, Range

LEMMA StepPools == Pools /\ [Next]_vars => Pools'
<1> SUFFICES ASSUME Pools, [Next]_vars PROVE Pools'
  OBVIOUS
<1> USE DEF Looking, Goto
<1>1. CASE UNCHANGED vars
  BY <1>1 DEF vars, mapVars, Pools
<1>2. ASSUME NEW t \in Threads, Start(t) PROVE Pools'
  <2>1. pools' = pools /\ converter' = converter /\ pc[t] = "idle"
    BY <1>2 DEF Start, mapVars
  <2>2. CASE t \in Windows
    <3>1. pc' = [pc EXCEPT ![t] = "acquire"] /\ key' = key
      BY <1>2, <2>2 DEF Start
    <3> QED
      BY <2>1, <3>1 DEF Pools
  <2>3. CASE t \notin Windows
    <3>1. PICK k \in Keys : pc' = [pc EXCEPT ![t] = "find"] /\ key' = [key EXCEPT ![t] = k]
      BY <1>2, <2>3 DEF Start
    <3>2. \A u \in Threads : pc'[u] = "insert" => u # t /\ pc[u] = "insert" /\ key'[u] = key[u]
      BY <3>1 DEF Pools
    <3>3. \A u \in Threads \ Windows : key'[u] \in Keys
      BY <3>1 DEF Pools
    <3>4. converter # NoThread => converter # t /\ pc'[converter] = "insert"
      BY <2>1, <3>1 DEF Pools
    <3>5. \A u \in Windows : pc'[u] \notin Looking
      BY <2>3, <3>1 DEF Pools, Threads
    <3>6. DOMAIN pc' = Threads /\ DOMAIN key' = Threads
      BY <3>1 DEF Pools
    <3> QED
      BY <2>1, <3>2, <3>3, <3>4, <3>5, <3>6 DEF Pools
  <2> QED
    BY <2>2, <2>3
<1>3. ASSUME NEW t \in Threads, Instance(t) PROVE Pools'
  <2>1. key' = key /\ t \in Threads \ Windows /\ key[t] \in Keys
    BY <1>3 DEF Instance, ReadLock, Found, Convert, Insert, Rd2WrYield, Pools
  <2>2. CASE ReadLock(t) \/ Found(t) \/ Rd2WrYield(t)
    <3>1. pools' = pools /\ converter' = converter /\ pc[t] # "insert" /\ \E l \in {"lookup", "get", "find"} : pc' = [pc EXCEPT ![t] = l]
      BY <2>2 DEF ReadLock, Found, Rd2WrYield, mapVars
    <3> QED
      BY <2>1, <3>1 DEF Pools
  <2>3. CASE Convert(t)
    <3>1. pools' = pools /\ pc[t] = "lookup" /\ key[t] \notin Range(pools)
      BY <2>3 DEF Convert
    <3>2. CASE converter = NoThread
      <4>1. converter' = t /\ pc' = [pc EXCEPT ![t] = "insert"]
        BY <2>3, <3>2 DEF Convert
      <4>2. \A u \in Threads : pc[u] # "insert"
        BY <3>2, ThreadsAssumption DEF Pools
      <4> QED
        BY <2>1, <3>1, <4>1, <4>2 DEF Pools
    <3>3. CASE converter # NoThread
      <4>1. converter' = converter /\ pc' = [pc EXCEPT ![t] = "yield"]
        BY <2>3, <3>3 DEF Convert
      <4> QED
        BY <2>1, <3>1, <4>1 DEF Pools
    <3> QED
      BY <3>2, <3>3
  <2>4. CASE Insert(t)
    <3>1. pools' = Append(pools, key[t]) /\ converter' = NoThread /\ pc[t] = "insert" /\ pc' = [pc EXCEPT ![t] = "get"]
      BY <2>4 DEF Insert
    <3>2. converter = t /\ key[t] \notin Range(pools)
      BY <3>1 DEF Pools
    <3>3. pools' \in Seq(Keys) /\ IsInjective(pools')
      BY <2>1, <3>1, <3>2, AppendNew DEF Pools
    <3>4. \A u \in Threads : pc'[u] # "insert"
      BY <3>1, <3>2 DEF Pools
    <3> QED
      BY <2>1, <3>1, <3>3, <3>4 DEF Pools
  <2> QED
    BY <1>3, <2>2, <2>3, <2>4 DEF Instance
<1>4. ASSUME NEW t \in Threads, Acquire(t) \/ GetTask(t) \/ Again(t) PROVE Pools'
  <2>1. pools' = pools /\ converter' = converter
    BY <1>4 DEF Acquire, GetTask, FetchAdd, TrySeparately, AcquireFails, SubtractOne, LockPool, SkipAcquire, OutOfQueues,
                Emplace, Rotate, KeepQueue, Again, mapVars
  <2>2. pc[t] \notin Looking
    BY <1>4 DEF Acquire, GetTask, FetchAdd, TrySeparately, AcquireFails, SubtractOne, LockPool, SkipAcquire, OutOfQueues,
                Emplace, Rotate, KeepQueue, Again
  <2>3. pc' = pc \/ \E l : l \notin Looking /\ pc' = [pc EXCEPT ![t] = l]
    <3>1. CASE Acquire(t)
      BY <3>1 DEF Acquire, FetchAdd, TrySeparately, AcquireFails, SubtractOne
    <3>2. CASE GetTask(t) \/ Again(t)
      BY <3>2 DEF GetTask, LockPool, SkipAcquire, OutOfQueues, Emplace, Rotate, KeepQueue, Again
    <3> QED
      BY <1>4, <3>1, <3>2
  <2>4. key' = key \/ (t \in Windows /\ \E k : key' = [key EXCEPT ![t] = k])
    <3>1. CASE Acquire(t)
      BY <3>1 DEF Acquire, FetchAdd, TrySeparately, AcquireFails, SubtractOne
    <3>2. CASE GetTask(t) \/ Again(t)
      BY <3>2 DEF GetTask, LockPool, SkipAcquire, OutOfQueues, Emplace, Rotate, KeepQueue, Again
    <3> QED
      BY <1>4, <3>1, <3>2
  <2>5. \A u \in Threads : (pc'[u] \in Looking \/ pc[u] \in Looking => u # t /\ pc'[u] = pc[u] /\ key'[u] = key[u])
    BY <2>2, <2>3, <2>4 DEF Pools
  <2>6. DOMAIN pc' = Threads /\ DOMAIN key' = Threads /\ \A u \in Threads \ Windows : key'[u] \in Keys
    BY <2>3, <2>4 DEF Pools
  <2>7. \A u \in Windows : pc'[u] \notin Looking
    BY <2>5 DEF Pools, Threads
  <2>8. \A u \in Threads : pc'[u] = "insert" => converter' = u /\ key'[u] \notin Range(pools')
    BY <2>1, <2>5 DEF Pools
  <2>9. converter' # NoThread => pc'[converter'] = "insert"
    BY <2>1, <2>5 DEF Pools
  <2> QED
    BY <2>1, <2>6, <2>7, <2>8, <2>9 DEF Pools
<1> QED
  BY <1>1, <1>2, <1>3, <1>4 DEF Next

(* QueuePool::instance never makes a second pool for a key: a thread that converts its
   read lock saw that the key was not there, and nobody else can convert until it has
   inserted the pool. *)
THEOREM OnePool == Spec => []OnePoolPerKey
<1>1. Pools => OnePoolPerKey
  BY DEF Pools, OnePoolPerKey
<1> QED
  BY <1>1, InitPools, StepPools, PTL DEF Spec

--------------------------------------------------------------------------------
(* The queues. *)

(* The queues of all replies, and what would come after them. *)
Queues == {<<replies[r].family, replies[r].start + n>> : r \in RequestIndices, n \in Int}

(* What LogicalDevice::prepare chose, and doesn't change anymore. *)
Replies ==
  /\ device \in {d \in Devices : IsCompatible(d)}
  /\ replies \in {QueueReplies(c) : c \in BestConfigurations(device)}
  /\ DOMAIN replies = RequestIndices
  /\ \A r \in RequestIndices :
       /\ replies[r].family \in DOMAIN device /\ replies[r].number \in Nat
       /\ replies[r].combined = 0 => replies[r].number > 0

PoolTypes ==
  /\ m_acquired \in [RequestIndices -> Int]
  /\ m_no_more_queues \in [Keys -> BOOLEAN]
  /\ m_acquiring_queue \in [Keys -> Threads \cup {NoThread}]
  /\ tasks \in [Keys -> Seq(Queues)] /\ m_next_task \in [Keys -> Nat]

ThreadTypes ==
  /\ got \in [Threads -> Seq(Queues)]
  /\ DOMAIN pc = Threads /\ DOMAIN key = Threads
  /\ \A t \in PoolThreads : key[t] \in Keys
  /\ \A t \in Windows : pc[t] \in {"idle", "acquire", "acquired", "too_many", "done", "failed"}

(* A task thread gets one queue at a time. *)
OneQueue ==
  \A t \in PoolThreads :
    /\ pc[t] = "acquired" => DOMAIN got[t] = {1}
    /\ pc[t] \notin {"acquired", "done"} => got[t] = <<>>

DataTypes == PoolTypes /\ ThreadTypes /\ OneQueue

LEMMA PoolThread ==
  /\ \A t \in PoolThreads : t \in Threads /\ t \notin Windows
  /\ \A t \in Windows : t \in Threads
  /\ \A t \in Threads : t \in PoolThreads \/ t \in Windows
BY ThreadsAssumption DEF Threads

LEMMA InitReplies == Init => Replies
<1> SUFFICES ASSUME Init PROVE Replies
  OBVIOUS
<1>1. PICK c \in BestConfigurations(device) : replies = QueueReplies(c)
  BY DEF Init
<1>2. c \in Configurations(device)
  BY DEF BestConfigurations
<1>3. /\ c.family \in [RequestIndices -> DOMAIN device]
      /\ \A r \in RequestIndices : c.handed[r] \in Nat
      /\ \A r \in RequestIndices : c.handed[r] = 0 => MayCombine(c.family, r)
  <2>1. \E Families, largest : c \in [family : Families, handed : [RequestIndices -> 0 .. largest]]
    BY <1>2 DEF Configurations
  <2>2. PICK largest : c.handed \in [RequestIndices -> 0 .. largest]
    BY <2>1
  <2>3. c.family \in [RequestIndices -> DOMAIN device]
    BY <1>2 DEF Configurations
  <2>4. \A r \in RequestIndices : c.handed[r] = 0 => MayCombine(c.family, r)
    BY <1>2 DEF Configurations
  <2>5. \A i \in 0 .. largest : i \in Nat
    OBVIOUS
  <2> QED
    BY <2>2, <2>3, <2>4, <2>5
<1>4. DOMAIN replies = RequestIndices
  BY <1>1 DEF QueueReplies
<1>5. ASSUME NEW r \in RequestIndices
      PROVE  /\ replies[r].family \in DOMAIN device /\ replies[r].number \in Nat
             /\ replies[r].combined = 0 => replies[r].number > 0
  <2>1. /\ replies[r].family = c.family[r] /\ replies[r].number = c.handed[r]
        /\ replies[r].combined = IF c.handed[r] = 0 THEN QueueRequests[r].combined ELSE 0
    BY <1>1 DEF QueueReplies
  <2>2. c.handed[r] = 0 => QueueRequests[r].combined # 0
    BY <1>3 DEF MayCombine
  <2> QED
    BY <1>3, <2>1, <2>2
<1> QED
  BY <1>1, <1>4, <1>5 DEF Init, Replies

LEMMA InitDataTypes == Init => DataTypes
<1> SUFFICES ASSUME Init PROVE DataTypes
  OBVIOUS
<1>1. <<>> \in Seq(Queues)
  OBVIOUS
<1>2. (CHOOSE k \in Keys : TRUE) \in Keys
  BY KeysAssumption
<1>3. \A t \in PoolThreads : key[t] \in Keys
  BY <1>2, ThreadsAssumption DEF Init, Threads
<1> QED
  BY <1>1, <1>3 DEF Init, DataTypes, PoolTypes, ThreadTypes, OneQueue, Threads

(* Who finds a reply to acquire a queue from. *)
LEMMA ReplyFound ==
  ASSUME NEW t, HasReply(t)
  PROVE  TheReply(t) \in RequestedReplies(device, replies, key[t])
<1>1. RequestedReplies(device, replies, key[t]) # {}
  BY FS_EmptySet DEF HasReply
<1> QED
  BY <1>1 DEF TheReply

(* The queue that a thread of a pool adds a task for. *)
LEMMA LastGot ==
  ASSUME DataTypes, NEW t \in PoolThreads, pc[t] = "acquired"
  PROVE  /\ Last(got[t]) = got[t][1] /\ Last(got[t]) \in Queues
         /\ Range(got[t]) = {got[t][1]}
<1>1. got[t] \in Seq(Queues) /\ DOMAIN got[t] = {1}
  BY PoolThread DEF DataTypes, ThreadTypes, OneQueue
<1>2. PICK n \in Nat : Len(got[t]) = n /\ DOMAIN got[t] = 1..n
  BY <1>1, LenProperties
<1>3. 1 \in 1..n /\ n \in 1..n
  <2>1. 1 \in DOMAIN got[t]
    BY <1>1
  <2>2. 1 \in 1..n
    BY <1>2, <2>1
  <2> QED
    BY <2>2
<1>4. Len(got[t]) = 1
  BY <1>1, <1>2, <1>3
<1>5. got[t][1] \in Queues
  BY <1>1, <1>2, <1>3, ElementOfSeq
<1> QED
  BY <1>1, <1>4, <1>5 DEF Last, Range

(* What a step does to the variables of its thread. *)
LEMMA DataTypesKept ==
  ASSUME Replies, DataTypes, [Next]_vars
  PROVE  DataTypes' /\ Replies' /\ UNCHANGED replyVars
<1> USE PoolThread DEF replyVars, mapVars, poolVars, Goto, DataTypes
<1>1. UNCHANGED replyVars
  BY DEF vars, Next, Start, Instance, ReadLock, Found, Convert, Insert, Rd2WrYield, Acquire, FetchAdd, TrySeparately,
         AcquireFails, SubtractOne, GetTask, LockPool, SkipAcquire, OutOfQueues, Emplace, Rotate, KeepQueue, Again
<1>2. Replies'
  BY <1>1 DEF Replies
<1>3. Queues' = Queues
  BY <1>1 DEF Queues
<1>4. CASE UNCHANGED vars
  BY <1>1, <1>2, <1>3, <1>4 DEF vars, PoolTypes, ThreadTypes, OneQueue
<1>5. ASSUME NEW t \in Threads, Start(t) \/ Instance(t) PROVE DataTypes'
  <2>1. UNCHANGED <<m_acquired, poolVars, got>>
    BY <1>5 DEF Start, Instance, ReadLock, Found, Convert, Insert, Rd2WrYield
  <2>2. key' = key \/ \E k \in Keys : key' = [key EXCEPT ![t] = k]
    BY <1>5 DEF Start, Instance, ReadLock, Found, Convert, Insert, Rd2WrYield
  <2>3. \E l \in {"acquire", "find", "lookup", "get", "insert", "yield"} : pc' = [pc EXCEPT ![t] = l]
    BY <1>5 DEF Start, Instance, ReadLock, Found, Convert, Insert, Rd2WrYield
  <2>4. /\ pc[t] \in {"idle", "find", "lookup", "insert", "yield"}
        /\ t \in Windows => pc'[t] = "acquire" /\ key' = key
    BY <1>5 DEF Start, Instance, ReadLock, Found, Convert, Insert, Rd2WrYield, ThreadTypes
  <2>5. PoolTypes'
    BY <1>3, <2>1 DEF PoolTypes
  <2>6. ThreadTypes'
    BY <1>3, <2>1, <2>2, <2>3, <2>4 DEF ThreadTypes
  <2>7. OneQueue'
    BY <2>1, <2>3, <2>4 DEF OneQueue, ThreadTypes
  <2> QED
    BY <2>5, <2>6, <2>7
<1>6. ASSUME NEW t \in Threads, FetchAdd(t) PROVE DataTypes'
  <2> DEFINE r == TheReply(t)
             q == <<replies[r].family, replies[r].start + m_acquired[r]>>
  <2>1. r \in RequestIndices
    BY <1>6, ReplyFound DEF FetchAdd, RequestedReplies, SupportingReplies, Replies
  <2>2. q \in Queues
    BY <2>1 DEF Queues, PoolTypes
  <2>3. m_acquired' = [m_acquired EXCEPT ![r] = m_acquired[r] + 1]
    BY <1>6 DEF FetchAdd
  <2>4. \/ got' = got /\ pc' = [pc EXCEPT ![t] = "too_many"]
        \/ got' = [got EXCEPT ![t] = Append(@, q)] /\ pc' = [pc EXCEPT ![t] = "acquired"]
    BY <1>6 DEF FetchAdd
  <2>5. UNCHANGED <<poolVars, key>> /\ pc[t] = "acquire"
    BY <1>6 DEF FetchAdd
  <2> HIDE DEF r, q
  <2>6. got[t] \in Seq(Queues)
    BY DEF ThreadTypes
  <2>7. Append(got[t], q) \in Seq(Queues)
    BY <2>2, <2>6
  <2>8. t \in PoolThreads => DOMAIN Append(got[t], q) = {1}
    <3>1. t \in PoolThreads => got[t] = <<>>
      BY <2>5 DEF OneQueue
    <3>2. DOMAIN Append(<<>>, q) = {1}
      OBVIOUS
    <3> QED
      BY <3>1, <3>2
  <2>9. PoolTypes'
    BY <1>3, <2>1, <2>3, <2>5 DEF PoolTypes
  <2>10. ThreadTypes'
    BY <1>3, <2>4, <2>5, <2>7 DEF ThreadTypes
  <2>11. OneQueue'
    BY <2>4, <2>5, <2>8 DEF OneQueue, ThreadTypes
  <2> QED
    BY <2>9, <2>10, <2>11
<1>7. ASSUME NEW t \in Threads, TrySeparately(t) \/ AcquireFails(t) PROVE DataTypes'
  <2>1. PoolTypes'
    BY <1>3, <1>7 DEF TrySeparately, AcquireFails, Unlocked, PoolTypes
  <2>2. ThreadTypes'
    BY <1>3, <1>7 DEF TrySeparately, AcquireFails, ThreadTypes
  <2>3. OneQueue'
    BY <1>7 DEF TrySeparately, AcquireFails, OneQueue, ThreadTypes
  <2> QED
    BY <2>1, <2>2, <2>3
<1>8. ASSUME NEW t \in Threads, SubtractOne(t) PROVE DataTypes'
  <2>1. UNCHANGED <<poolVars, key, got>> /\ pc[t] = "too_many"
    BY <1>8 DEF SubtractOne
  <2>2. \E l \in {"failed", "out_of_queues"} : pc' = [pc EXCEPT ![t] = l]
    BY <1>8 DEF SubtractOne
  <2>3. PICK r : m_acquired' = [m_acquired EXCEPT ![r] = m_acquired[r] - 1]
    BY <1>8 DEF SubtractOne
  <2>4. m_acquired' \in [RequestIndices -> Int]
    <3>1. CASE r \in RequestIndices
      BY <2>3, <3>1 DEF PoolTypes
    <3>2. CASE r \notin RequestIndices
      BY <2>3, <3>2 DEF PoolTypes
    <3> QED
      BY <3>1, <3>2
  <2>5. PoolTypes' /\ ThreadTypes'
    BY <1>3, <1>8, <2>1, <2>2, <2>4 DEF PoolTypes, ThreadTypes, SubtractOne
  <2>6. OneQueue'
    BY <2>1, <2>2 DEF OneQueue, ThreadTypes
  <2> QED
    BY <2>4, <2>5, <2>6
<1>9. ASSUME NEW t \in Threads, LockPool(t) \/ SkipAcquire(t) \/ OutOfQueues(t) PROVE DataTypes'
  <2>1. PoolTypes'
    BY <1>3, <1>9 DEF LockPool, SkipAcquire, OutOfQueues, PoolTypes
  <2>2. ThreadTypes'
    BY <1>3, <1>9 DEF LockPool, SkipAcquire, OutOfQueues, ThreadTypes
  <2>3. OneQueue'
    BY <1>9 DEF LockPool, SkipAcquire, OutOfQueues, OneQueue, ThreadTypes
  <2> QED
    BY <2>1, <2>2, <2>3
<1>10. ASSUME NEW t \in Threads, Emplace(t) PROVE DataTypes'
  <2>1. /\ t \in PoolThreads /\ pc[t] = "acquired" /\ key[t] \in Keys /\ UNCHANGED <<m_acquired, m_no_more_queues, m_next_task, key, got>>
        /\ tasks' = [tasks EXCEPT ![key[t]] = Append(@, Last(got[t]))] /\ pc' = [pc EXCEPT ![t] = "done"]
        /\ m_acquiring_queue' = Unlocked(t)
    BY <1>10 DEF Emplace, ThreadTypes
  <2>2. Last(got[t]) \in Queues
    BY <2>1, LastGot
  <2>3. tasks' \in [Keys -> Seq(Queues)]
    BY <2>1, <2>2 DEF PoolTypes
  <2>4. PoolTypes'
    BY <1>3, <2>1, <2>3 DEF Unlocked, PoolTypes
  <2>5. ThreadTypes'
    BY <1>3, <2>1 DEF ThreadTypes
  <2>6. OneQueue'
    BY <2>1 DEF OneQueue, ThreadTypes
  <2> QED
    BY <2>4, <2>5, <2>6
<1>11. ASSUME NEW t \in Threads, Rotate(t) PROVE DataTypes'
  <2> DEFINE k == key[t]
             L == Len(tasks[k])
             n == m_next_task[k]
  <2>1. /\ pc[t] = "rotate" /\ tasks[k] # <<>> /\ UNCHANGED <<m_acquired, m_no_more_queues, tasks, key>>
        /\ m_next_task' = [m_next_task EXCEPT ![k] = (n + 1) % L]
        /\ got' = [got EXCEPT ![t] = <<tasks[k][m_next_task'[k] + 1]>>]
        /\ m_acquiring_queue' = Unlocked(t) /\ pc' = [pc EXCEPT ![t] = "done"]
    BY <1>11 DEF Rotate
  <2>2. CASE k \in Keys
    <3>1. n \in Nat /\ L \in Nat \ {0} /\ tasks[k] \in Seq(Queues)
      BY <2>1, <2>2, EmptySeq DEF PoolTypes
    <3>2. (n + 1) % L \in 0..L-1
      <4> HIDE DEF n, L
      <4> QED
        BY <3>1
    <3>3. m_next_task' \in [Keys -> Nat] /\ m_next_task'[k] + 1 \in 1..L
      BY <2>1, <2>2, <3>1, <3>2 DEF PoolTypes
    <3>4. tasks[k][m_next_task'[k] + 1] \in Queues
      BY <3>1, <3>3, ElementOfSeq
    <3>5. <<tasks[k][m_next_task'[k] + 1]>> \in Seq(Queues)
      BY <3>4
    <3> HIDE DEF k, n, L
    <3>6. got' \in [Threads -> Seq(Queues)]
      BY <2>1, <3>5 DEF ThreadTypes
    <3>7. PoolTypes'
      BY <1>3, <2>1, <3>3 DEF Unlocked, PoolTypes
    <3>8. ThreadTypes'
      BY <1>3, <2>1, <3>6 DEF ThreadTypes
    <3>9. OneQueue'
      BY <2>1 DEF OneQueue, ThreadTypes
    <3> QED
      BY <3>7, <3>8, <3>9
  <2> QED
    BY <2>1, <2>2 DEF ThreadTypes
<1>12. ASSUME NEW t \in Threads, KeepQueue(t) PROVE DataTypes'
  <2>1. UNCHANGED <<m_acquired, poolVars, got>> /\ t \in Windows
    BY <1>12 DEF KeepQueue
  <2>2. \E l \in {"done", "acquire"} : pc' = [pc EXCEPT ![t] = l]
    BY <1>12 DEF KeepQueue
  <2>3. key' = key \/ \E k : key' = [key EXCEPT ![t] = k]
    BY <1>12 DEF KeepQueue
  <2>4. PoolTypes'
    BY <1>3, <2>1 DEF PoolTypes
  <2>5. ThreadTypes'
    BY <1>3, <2>1, <2>2, <2>3 DEF ThreadTypes
  <2>6. OneQueue'
    BY <2>1, <2>2 DEF OneQueue, ThreadTypes
  <2> QED
    BY <2>4, <2>5, <2>6
<1>13. ASSUME NEW t \in Threads, Again(t) PROVE DataTypes'
  <2>1. <<>> \in Seq(Queues)
    OBVIOUS
  <2>2. PoolTypes'
    BY <1>3, <1>13 DEF Again, PoolTypes
  <2>3. ThreadTypes'
    BY <1>3, <1>13, <2>1 DEF Again, ThreadTypes
  <2>4. OneQueue'
    BY <1>13 DEF Again, OneQueue, ThreadTypes
  <2> QED
    BY <2>2, <2>3, <2>4
<1> QED
  BY <1>1, <1>2, <1>4, <1>5, <1>6, <1>7, <1>8, <1>9, <1>10, <1>11, <1>12, <1>13 DEF Next, Acquire, GetTask

--------------------------------------------------------------------------------
(* How many queues of a reply were handed out: m_acquired also counts those that
   found that there are no more, until they subtracted one. *)

TooMany(r) == {t \in Threads : pc[t] = "too_many" /\ TheReply(t) = r}

Out(r) == m_acquired[r] - Cardinality(TooMany(r))

PoolReply(k) == CHOOSE r \in RequestedReplies(device, replies, k) : TRUE

Counted(r) ==
  /\ Out(r) \in 0..replies[r].number
  /\ TooMany(r) # {} => Out(r) = replies[r].number

Exhausted(r) == r \in RequestIndices /\ Out(r) = replies[r].number

(* A pool that stopped acquiring, or is about to, has a reply that is exhausted. *)
Counting ==
  /\ \A r \in RequestIndices : Counted(r)
  /\ \A t \in Threads : pc[t] \in {"too_many", "out_of_queues"} => Exhausted(TheReply(t))
  /\ \A k \in Keys : m_no_more_queues[k] => Exhausted(PoolReply(k))

LEMMA TooManyFinite == \A r : IsFiniteSet(TooMany(r)) /\ Cardinality(TooMany(r)) \in Nat
<1> TAKE r
<1>1. TooMany(r) \in SUBSET Threads
  BY DEF TooMany
<1> QED
  BY <1>1, ThreadsAssumption, FS_Subset, FS_CardinalityType

LEMMA InitCounting == Init => Counting
<1> SUFFICES ASSUME Init PROVE Counting
  OBVIOUS
<1>1. \A r : TooMany(r) = {}
  BY DEF Init, TooMany
<1>2. \A r \in RequestIndices : Out(r) = 0
  <2>1. \A r \in RequestIndices : m_acquired[r] = 0
    BY DEF Init
  <2>2. \A r : Cardinality(TooMany(r)) = 0
    BY <1>1, FS_EmptySet
  <2> QED
    BY <2>1, <2>2 DEF Out
<1>3. \A r \in RequestIndices : Counted(r)
  BY <1>1, <1>2, InitReplies DEF Counted, Replies
<1> QED
  BY <1>3 DEF Init, Counting

(* A step after which the same threads found no queue, counts the same queues. *)
LEMMA SameOut ==
  ASSUME UNCHANGED <<replyVars, m_acquired>>,
         \A t \in Threads : pc'[t] = "too_many" <=> pc[t] = "too_many",
         \A t \in Threads : pc[t] = "too_many" => key'[t] = key[t]
  PROVE  \A r : TooMany(r)' = TooMany(r) /\ Out(r)' = Out(r)
<1> TAKE r
<1>1. \A t \in Threads : pc[t] = "too_many" => TheReply(t)' = TheReply(t)
  BY DEF TheReply, replyVars
<1>2. TooMany(r)' = TooMany(r)
  BY <1>1 DEF TooMany
<1> QED
  BY <1>2 DEF Out

LEMMA ReplyIndex ==
  ASSUME Replies, NEW t, HasReply(t)
  PROVE  TheReply(t) \in RequestIndices
BY ReplyFound DEF RequestedReplies, SupportingReplies, Replies

(* A fetch_add either hands out the next queue, or finds that all are. *)
LEMMA OutFetchAdd ==
  ASSUME Replies, DataTypes, Counting, NEW t \in Threads, FetchAdd(t),
         NEW r, r = TheReply(t)
  PROVE  /\ r \in RequestIndices
         /\ \A u : u # r => TooMany(u)' = TooMany(u) /\ Out(u)' = Out(u)
         /\ \/ /\ pc' = [pc EXCEPT ![t] = "acquired"]
               /\ got' = [got EXCEPT ![t] = Append(@, <<replies[r].family, replies[r].start + Out(r)>>)]
               /\ TooMany(r) = {} /\ TooMany(r)' = {}
               /\ Out(r)' = Out(r) + 1 /\ Out(r) < replies[r].number
            \/ /\ pc' = [pc EXCEPT ![t] = "too_many"] /\ got' = got
               /\ TooMany(r)' = TooMany(r) \cup {t}
               /\ Out(r)' = Out(r) /\ Out(r) = replies[r].number
<1>1. r \in RequestIndices
  BY ReplyIndex DEF FetchAdd
<1>2. /\ pc[t] = "acquire" /\ UNCHANGED replyVars /\ key' = key
      /\ m_acquired' = [m_acquired EXCEPT ![r] = m_acquired[r] + 1]
  BY DEF FetchAdd
<1>3. \/ /\ m_acquired[r] >= replies[r].number
         /\ pc' = [pc EXCEPT ![t] = "too_many"] /\ got' = got
      \/ /\ ~(m_acquired[r] >= replies[r].number)
         /\ pc' = [pc EXCEPT ![t] = "acquired"]
         /\ got' = [got EXCEPT ![t] = Append(@, <<replies[r].family, replies[r].start + m_acquired[r]>>)]
  BY DEF FetchAdd, Goto
<1>4. \A u : TheReply(u)' = TheReply(u)
  BY <1>2 DEF TheReply, replyVars
<1>5. /\ \A u : u # r => TooMany(u)' = TooMany(u)
      /\ pc' = [pc EXCEPT ![t] = "acquired"] => TooMany(r)' = TooMany(r)
      /\ pc' = [pc EXCEPT ![t] = "too_many"] => TooMany(r)' = TooMany(r) \cup {t}
  BY <1>2, <1>3, <1>4 DEF TooMany, DataTypes, ThreadTypes
<1>6. \A u : u # r => Out(u)' = Out(u)
  <2>1. \A u : u # r => m_acquired'[u] = m_acquired[u]
    BY <1>1, <1>2 DEF DataTypes, PoolTypes
  <2> QED
    BY <1>5, <2>1 DEF Out
<1>7. t \notin TooMany(r)
  BY <1>2 DEF TooMany
<1> PICK m \in Int, c \in Nat, n \in Nat :
         m = m_acquired[r] /\ c = Cardinality(TooMany(r)) /\ n = replies[r].number
  BY <1>1, TooManyFinite DEF DataTypes, PoolTypes, Replies
<1>8. /\ m_acquired'[r] = m + 1 /\ Out(r) = m - c
      /\ m - c \in 0..n /\ (TooMany(r) # {} => m - c = n) /\ (TooMany(r) = {} <=> c = 0)
  BY <1>1, <1>2, TooManyFinite, FS_EmptySet DEF Out, Counting, Counted, DataTypes, PoolTypes
<1>9. CASE m >= n
  <2>1. TooMany(r)' = TooMany(r) \cup {t} /\ pc' = [pc EXCEPT ![t] = "too_many"] /\ got' = got
    BY <1>3, <1>5, <1>9
  <2>2. Cardinality(TooMany(r) \cup {t}) = c + 1
    BY <1>7, TooManyFinite, FS_AddElement
  <2>3. Out(r)' = (m + 1) - (c + 1)
    BY <1>8, <2>1, <2>2 DEF Out
  <2>4. m - c = n
    BY <1>8, <1>9
  <2>5. Out(r) = n /\ Out(r)' = n
    BY <1>8, <2>3, <2>4
  <2> QED
    BY <1>1, <1>5, <1>6, <2>1, <2>5
<1>10. CASE ~(m >= n)
  <2>1. pc' = [pc EXCEPT ![t] = "acquired"] /\ TooMany(r)' = TooMany(r)
    BY <1>3, <1>5, <1>10
  <2>2. TooMany(r) = {} /\ c = 0
    BY <1>8, <1>10
  <2>3. Out(r)' = (m + 1) - c
    BY <1>8, <2>1 DEF Out
  <2>4. Out(r) = m /\ Out(r)' = m + 1 /\ m < n
    BY <1>8, <1>10, <2>2, <2>3
  <2>5. got' = [got EXCEPT ![t] = Append(@, <<replies[r].family, replies[r].start + m>>)]
    BY <1>3, <1>10
  <2> QED
    BY <1>1, <1>5, <1>6, <2>1, <2>2, <2>4, <2>5
<1> QED
  BY <1>9, <1>10

(* Giving back what was never handed out changes nothing. *)
LEMMA OutSubtractOne ==
  ASSUME Replies, DataTypes, Counting, NEW t \in Threads, SubtractOne(t)
  PROVE  /\ \A r : Out(r)' = Out(r)
         /\ \A r : TooMany(r)' \subseteq TooMany(r)
<1> PICK r : r = TheReply(t)
  OBVIOUS
<1>1. /\ pc[t] = "too_many" /\ UNCHANGED replyVars /\ key' = key
      /\ m_acquired' = [m_acquired EXCEPT ![r] = m_acquired[r] - 1]
      /\ \E l \in {"failed", "out_of_queues"} : pc' = [pc EXCEPT ![t] = l]
  BY DEF SubtractOne, Goto
<1>2. r \in RequestIndices
  BY <1>1 DEF Counting, Exhausted
<1>3. \A u : TheReply(u)' = TheReply(u)
  BY <1>1 DEF TheReply, replyVars
<1>4. /\ \A u : u # r => TooMany(u)' = TooMany(u)
      /\ TooMany(r)' = TooMany(r) \ {t} /\ t \in TooMany(r)
  BY <1>1, <1>3 DEF TooMany, DataTypes, ThreadTypes
<1>5. \A u : u # r => Out(u)' = Out(u)
  <2>1. \A u : u # r => m_acquired'[u] = m_acquired[u]
    BY <1>1 DEF DataTypes, PoolTypes
  <2> QED
    BY <1>4, <2>1 DEF Out
<1>6. Out(r)' = Out(r)
  <2> PICK m \in Int, c \in Nat : m = m_acquired[r] /\ c = Cardinality(TooMany(r))
    BY <1>2, TooManyFinite DEF DataTypes, PoolTypes
  <2>1. Cardinality(TooMany(r) \ {t}) = c - 1
    BY <1>4, TooManyFinite, FS_RemoveElement
  <2>2. m_acquired'[r] = m - 1
    BY <1>1, <1>2 DEF DataTypes, PoolTypes
  <2>3. Out(r)' = (m - 1) - (c - 1) /\ Out(r) = m - c
    BY <1>4, <2>1, <2>2 DEF Out
  <2> QED
    BY <2>3
<1> QED
  BY <1>4, <1>5, <1>6

(* Steps that hand out nothing and give nothing back. *)
Quiet(t) ==
  \/ Start(t) \/ Instance(t) \/ TrySeparately(t) \/ AcquireFails(t) \/ LockPool(t) \/ SkipAcquire(t)
  \/ Emplace(t) \/ Rotate(t) \/ KeepQueue(t) \/ Again(t)

LEMMA QuietSteps ==
  ASSUME Replies, DataTypes, NEW t \in Threads, Quiet(t)
  PROVE  /\ UNCHANGED <<replyVars, m_acquired, m_no_more_queues>>
         /\ \A u \in Threads : pc'[u] = "too_many" <=> pc[u] = "too_many"
         /\ \A u \in Threads : pc'[u] = "out_of_queues" <=> pc[u] = "out_of_queues"
         /\ \A u \in Threads : pc[u] \in {"too_many", "out_of_queues"} => key'[u] = key[u]
<1> USE DEF replyVars, mapVars, poolVars, Goto, DataTypes, ThreadTypes
<1>1. CASE Start(t) \/ Instance(t)
  BY <1>1 DEF Start, Instance, ReadLock, Found, Convert, Insert, Rd2WrYield
<1>2. CASE TrySeparately(t) \/ AcquireFails(t)
  BY <1>2 DEF TrySeparately, AcquireFails
<1>3. CASE LockPool(t) \/ SkipAcquire(t) \/ Emplace(t) \/ Rotate(t) \/ KeepQueue(t) \/ Again(t)
  BY <1>3 DEF LockPool, SkipAcquire, Emplace, Rotate, KeepQueue, Again
<1> QED
  BY <1>1, <1>2, <1>3 DEF Quiet

LEMMA StepKinds ==
  ASSUME [Next]_vars
  PROVE  \/ UNCHANGED vars
         \/ \E t \in Threads : Quiet(t) \/ FetchAdd(t) \/ SubtractOne(t) \/ OutOfQueues(t)
BY DEF Next, Quiet, Acquire, GetTask

LEMMA StepCounting ==
  ASSUME Replies, DataTypes, Counting, [Next]_vars
  PROVE  Counting'
<1> USE PoolThread DEF replyVars, mapVars, poolVars, Goto
<1>0. UNCHANGED replyVars
  BY DataTypesKept
<1>1. /\ \A k : PoolReply(k)' = PoolReply(k)
      /\ \A t : key'[t] = key[t] => TheReply(t)' = TheReply(t)
  BY <1>0 DEF PoolReply, TheReply
<1>2. \A r : Out(r)' = Out(r) => (Exhausted(r)' <=> Exhausted(r))
  BY <1>0 DEF Exhausted
<1>3. \A r : Out(r)' = Out(r) /\ TooMany(r)' \subseteq TooMany(r) => (Counted(r) => Counted(r)')
  BY <1>0 DEF Counted
<1>4. CASE UNCHANGED vars
  <2>1. \A r : TooMany(r)' = TooMany(r) /\ Out(r)' = Out(r)
    BY <1>4, SameOut DEF vars
  <2> QED
    BY <1>1, <1>2, <1>3, <1>4, <2>1 DEF vars, Counting
<1>5. ASSUME NEW t \in Threads, Quiet(t) PROVE Counting'
  <2>1. /\ UNCHANGED <<replyVars, m_acquired, m_no_more_queues>>
        /\ \A u \in Threads : pc'[u] = "too_many" <=> pc[u] = "too_many"
        /\ \A u \in Threads : pc'[u] = "out_of_queues" <=> pc[u] = "out_of_queues"
        /\ \A u \in Threads : pc[u] \in {"too_many", "out_of_queues"} => key'[u] = key[u]
    BY <1>5, QuietSteps
  <2>2. \A r : TooMany(r)' = TooMany(r) /\ Out(r)' = Out(r)
    BY <2>1, SameOut
  <2> QED
    BY <1>1, <1>2, <1>3, <2>1, <2>2 DEF Counting
<1>6. ASSUME NEW t \in Threads, FetchAdd(t) PROVE Counting'
  <2> PICK r : r = TheReply(t)
    OBVIOUS
  <2>1. /\ r \in RequestIndices
        /\ \A u : u # r => TooMany(u)' = TooMany(u) /\ Out(u)' = Out(u)
        /\ \/ /\ pc' = [pc EXCEPT ![t] = "acquired"]
              /\ got' = [got EXCEPT ![t] = Append(@, <<replies[r].family, replies[r].start + Out(r)>>)]
              /\ TooMany(r) = {} /\ TooMany(r)' = {}
              /\ Out(r)' = Out(r) + 1 /\ Out(r) < replies[r].number
           \/ /\ pc' = [pc EXCEPT ![t] = "too_many"] /\ got' = got
              /\ TooMany(r)' = TooMany(r) \cup {t}
              /\ Out(r)' = Out(r) /\ Out(r) = replies[r].number
    BY <1>6, OutFetchAdd
  <2>2. /\ key' = key /\ m_no_more_queues' = m_no_more_queues /\ replies' = replies
    BY <1>6 DEF FetchAdd
  <2>3. Counted(r)
    BY <2>1 DEF Counting
  <2>4. CASE pc' = [pc EXCEPT ![t] = "acquired"] /\ TooMany(r)' = {} /\ Out(r)' = Out(r) + 1 /\ Out(r) < replies[r].number
    <3>1. replies[r].number \in Nat /\ Out(r) \in Nat
      BY <2>1, <2>3 DEF Counted, Replies
    <3>2. Counted(r)'
      BY <2>2, <2>4, <3>1 DEF Counted
    <3>3. \A u \in RequestIndices : Counted(u)'
      BY <1>3, <2>1, <3>2 DEF Counting
    <3>4. \A u : Exhausted(u) => u # r
      BY <2>4, <3>1 DEF Exhausted
    <3>5. \A u : Exhausted(u) => Exhausted(u)'
      BY <1>2, <2>1, <3>4
    <3>6. \A u \in Threads : pc'[u] \in {"too_many", "out_of_queues"} => pc'[u] = pc[u]
      BY <2>4 DEF DataTypes, ThreadTypes
    <3> QED
      BY <1>1, <2>2, <3>3, <3>5, <3>6 DEF Counting
  <2>5. CASE pc' = [pc EXCEPT ![t] = "too_many"] /\ Out(r)' = Out(r) /\ Out(r) = replies[r].number
    <3>1. Counted(r)'
      BY <2>2, <2>3, <2>5 DEF Counted
    <3>2. \A u \in RequestIndices : Counted(u)'
      BY <1>3, <2>1, <3>1 DEF Counting
    <3>3. \A u : Exhausted(u) => Exhausted(u)'
      BY <1>2, <2>1, <2>5
    <3>4. Exhausted(r)'
      BY <2>1, <2>2, <2>5 DEF Exhausted
    <3>5. \A u \in Threads : pc'[u] \in {"too_many", "out_of_queues"} => u = t \/ pc'[u] = pc[u]
      BY <2>5 DEF DataTypes, ThreadTypes
    <3>6. \A u \in Threads : pc'[u] \in {"too_many", "out_of_queues"} => Exhausted(TheReply(u))'
      BY <1>1, <2>2, <3>3, <3>4, <3>5 DEF Counting
    <3> QED
      BY <1>1, <2>2, <3>2, <3>3, <3>6 DEF Counting
  <2> QED
    BY <2>1, <2>4, <2>5
<1>7. ASSUME NEW t \in Threads, SubtractOne(t) PROVE Counting'
  <2>1. \A r : Out(r)' = Out(r) /\ TooMany(r)' \subseteq TooMany(r)
    BY <1>7, OutSubtractOne
  <2>2. /\ key' = key /\ m_no_more_queues' = m_no_more_queues /\ pc[t] = "too_many"
        /\ \E l \in {"failed", "out_of_queues"} : pc' = [pc EXCEPT ![t] = l]
    BY <1>7 DEF SubtractOne
  <2>3. \A u \in Threads : pc'[u] \in {"too_many", "out_of_queues"} => pc[u] \in {"too_many", "out_of_queues"}
    BY <2>2 DEF DataTypes, ThreadTypes
  <2> QED
    BY <1>1, <1>2, <1>3, <2>1, <2>2, <2>3 DEF Counting
<1>8. ASSUME NEW t \in Threads, OutOfQueues(t) PROVE Counting'
  <2>1. /\ UNCHANGED <<replyVars, m_acquired, key>> /\ pc[t] = "out_of_queues" /\ pc' = [pc EXCEPT ![t] = "rotate"]
        /\ m_no_more_queues' = [m_no_more_queues EXCEPT ![key[t]] = TRUE]
    BY <1>8 DEF OutOfQueues
  <2>2. \A u \in Threads : (pc'[u] = "too_many" <=> pc[u] = "too_many") /\ (pc'[u] = "out_of_queues" => pc[u] = "out_of_queues")
    BY <2>1 DEF DataTypes, ThreadTypes
  <2>3. \A r : TooMany(r)' = TooMany(r) /\ Out(r)' = Out(r)
    BY <2>1, <2>2, SameOut
  <2>4. Exhausted(PoolReply(key[t]))
    BY <2>1 DEF Counting, TheReply, PoolReply
  <2>5. \A k \in Keys : m_no_more_queues'[k] => m_no_more_queues[k] \/ k = key[t]
    BY <2>1 DEF DataTypes, PoolTypes
  <2> QED
    BY <1>1, <1>2, <1>3, <2>1, <2>2, <2>3, <2>4, <2>5 DEF Counting
<1> QED
  BY <1>4, <1>5, <1>6, <1>7, <1>8, StepKinds

--------------------------------------------------------------------------------
(* A pool that stopped acquiring. *)

Requested(k) == RequestedReplies(device, replies, k)

(* Between LockPool and Emplace a thread has the mutex of its pool. *)
Locks ==
  \A t \in PoolThreads :
    pc[t] \in {"acquire", "too_many", "out_of_queues", "acquired"} => m_acquiring_queue[key[t]] = t

Asked == \A t \in Threads : pc[t] \in {"too_many", "out_of_queues"} => Requested(key[t]) # {}

WindowKeys == \A w \in Windows : key[w] \in KeysOf(w) /\ todo[w] \in Seq(KeysOf(w))

Acquired(t, k) == pc[t] = "acquired" /\ key[t] = k

Stopped ==
  \A k \in Keys : m_no_more_queues[k] => Requested(k) # {} /\ \A t \in PoolThreads : ~Acquired(t, k)

LEMMA InitBehind == Init => Locks /\ Asked /\ WindowKeys /\ Stopped
<1> USE PoolThread
<1>1. Init => Locks /\ Asked /\ Stopped
  BY DEF Init, Locks, Asked, Stopped
<1>2. Init => WindowKeys
  BY DEF Init, WindowKeys, KeysOf
<1> QED
  BY <1>1, <1>2

LEMMA StepLocks ==
  ASSUME DataTypes, Locks, [Next]_vars
  PROVE  Locks'
<1> USE PoolThread DEF Locks, DataTypes, PoolTypes, ThreadTypes, replyVars, mapVars, poolVars, Goto
<1>1. CASE UNCHANGED vars
  BY <1>1 DEF vars
<1>2. ASSUME NEW t \in Threads, Start(t) \/ Instance(t) PROVE Locks'
  BY <1>2 DEF Start, Instance, ReadLock, Found, Convert, Insert, Rd2WrYield
<1>3. ASSUME NEW t \in Threads, FetchAdd(t) \/ TrySeparately(t) \/ SubtractOne(t) \/ SkipAcquire(t) \/ OutOfQueues(t) \/ Again(t)
      PROVE  Locks'
  BY <1>3 DEF FetchAdd, TrySeparately, SubtractOne, SkipAcquire, OutOfQueues, Again
<1>4. ASSUME NEW t \in Threads, LockPool(t) \/ KeepQueue(t) PROVE Locks'
  <2>1. CASE LockPool(t)
    <3>1. /\ t \in PoolThreads /\ pc[t] = "get" /\ m_acquiring_queue[key[t]] = NoThread /\ key' = key
          /\ m_acquiring_queue' = [m_acquiring_queue EXCEPT ![key[t]] = t] /\ pc' = [pc EXCEPT ![t] = "acquire"]
      BY <2>1 DEF LockPool
    <3>2. \A u \in PoolThreads : u # NoThread
      BY ThreadsAssumption
    <3> QED
      BY <3>1, <3>2
  <2>2. CASE KeepQueue(t)
    BY <2>2 DEF KeepQueue
  <2> QED
    BY <1>4, <2>1, <2>2
<1>5. ASSUME NEW t \in Threads, AcquireFails(t) \/ Emplace(t) \/ Rotate(t) PROVE Locks'
  <2>1. m_acquiring_queue' = Unlocked(t) /\ key' = key /\ \E l \in {"failed", "done"} : pc' = [pc EXCEPT ![t] = l]
    BY <1>5 DEF AcquireFails, Emplace, Rotate
  <2> QED
    BY <2>1 DEF Unlocked
<1> QED
  BY <1>1, <1>2, <1>3, <1>4, <1>5 DEF Next, Acquire, GetTask

LEMMA StepAsked ==
  ASSUME Replies, DataTypes, Asked, [Next]_vars
  PROVE  Asked'
<1> USE DEF Asked
<1>1. UNCHANGED replyVars
  BY DataTypesKept
<1>2. \A k : Requested(k)' = Requested(k)
  BY <1>1 DEF Requested, replyVars
<1>3. CASE UNCHANGED vars
  BY <1>2, <1>3 DEF vars
<1>4. ASSUME NEW t \in Threads, Quiet(t) PROVE Asked'
  BY <1>2, <1>4, QuietSteps
<1>5. ASSUME NEW t \in Threads, FetchAdd(t) PROVE Asked'
  <2>1. key' = key /\ \E l \in {"too_many", "acquired"} : pc' = [pc EXCEPT ![t] = l]
    BY <1>5 DEF FetchAdd, Goto
  <2>2. Requested(key[t]) # {}
    BY <1>5, ReplyFound DEF FetchAdd, Requested
  <2> QED
    BY <1>2, <2>1, <2>2 DEF DataTypes, ThreadTypes
<1>6. ASSUME NEW t \in Threads, SubtractOne(t) \/ OutOfQueues(t) PROVE Asked'
  BY <1>2, <1>6 DEF SubtractOne, OutOfQueues, Goto, DataTypes, ThreadTypes
<1> QED
  BY <1>3, <1>4, <1>5, <1>6, StepKinds

Only(k, F) == [k EXCEPT !.flags = F]

LEMMA OnlyKeys ==
  ASSUME NEW w \in Windows, NEW k \in KeysOf(w), NEW G \in SUBSET k.flags, G # {}
  PROVE  Only(k, G) \in KeysOf(w)
<1>1. PICK F, c : k = [flags |-> F, cookie |-> c] /\ c = WindowKey[w].cookie /\ F \subseteq WindowKey[w].flags
  BY KeysAssumption DEF KeysOf
<1>2. k.flags = F /\ Only(k, G) = [flags |-> G, cookie |-> c]
  BY <1>1 DEF Only
<1> QED
  BY <1>1, <1>2 DEF KeysOf

LEMMA StepWindowKeys ==
  ASSUME DataTypes, WindowKeys, [Next]_vars
  PROVE  WindowKeys'
<1> USE PoolThread DEF DataTypes, ThreadTypes, Goto
<1>1. CASE UNCHANGED <<key, todo>>
  BY <1>1 DEF WindowKeys
<1>2. ASSUME NEW t \in Threads, Start(t) PROVE WindowKeys'
  BY <1>2 DEF Start, WindowKeys
<1>3. ASSUME NEW t \in Threads, TrySeparately(t) PROVE WindowKeys'
  <2>1. t \in Windows /\ key[t] \in KeysOf(t) /\ Cardinality(key[t].flags) > 1
    BY <1>3 DEF TrySeparately, WindowKeys, NoSuchCombination
  <2>2. PICK f \in key[t].flags :
          /\ key' = [key EXCEPT ![t] = Only(key[t], {f})]
          /\ todo' = [todo EXCEPT ![t] = <<Only(key[t], key[t].flags \ {f})>>]
    BY <1>3 DEF TrySeparately, Only
  <2>3. key[t].flags # {f}
    <3>1. Cardinality({f}) = 1
      BY FS_Singleton
    <3>2. ~(1 > 1)
      OBVIOUS
    <3> QED
      BY <2>1, <3>1, <3>2
  <2>4. \A G \in SUBSET key[t].flags : G # {} => Only(key[t], G) \in KeysOf(t)
    BY <2>1, OnlyKeys
  <2>5. Only(key[t], {f}) \in KeysOf(t) /\ Only(key[t], key[t].flags \ {f}) \in KeysOf(t)
    <3>1. {f} \in SUBSET key[t].flags /\ key[t].flags \ {f} \in SUBSET key[t].flags /\ {f} # {} /\ key[t].flags \ {f} # {}
      BY <2>2, <2>3
    <3> QED
      BY <2>4, <3>1
  <2>6. <<Only(key[t], key[t].flags \ {f})>> \in Seq(KeysOf(t))
    BY <2>5
  <2> QED
    BY <2>1, <2>2, <2>5, <2>6 DEF WindowKeys
<1>4. ASSUME NEW t \in Threads, KeepQueue(t) PROVE WindowKeys'
  <2>1. CASE todo[t] = <<>>
    BY <1>1, <1>4, <2>1 DEF KeepQueue
  <2>2. CASE todo[t] # <<>>
    <3>1. /\ t \in Windows
          /\ key' = [key EXCEPT ![t] = Head(todo[t])] /\ todo' = [todo EXCEPT ![t] = Tail(todo[t])]
      BY <1>4, <2>2 DEF KeepQueue
    <3>2. todo[t] \in Seq(KeysOf(t))
      BY <3>1 DEF WindowKeys
    <3>3. Head(todo[t]) \in KeysOf(t) /\ Tail(todo[t]) \in Seq(KeysOf(t))
      BY <2>2, <3>2
    <3> QED
      BY <3>1, <3>3 DEF WindowKeys
  <2> QED
    BY <2>1, <2>2
<1>5. \/ UNCHANGED <<key, todo>>
      \/ \E t \in Threads : Start(t) \/ TrySeparately(t) \/ KeepQueue(t)
  BY DEF vars, Next, Instance, ReadLock, Found, Convert, Insert, Rd2WrYield, Acquire, FetchAdd, AcquireFails,
         SubtractOne, GetTask, LockPool, SkipAcquire, OutOfQueues, Emplace, Rotate, Again
<1> QED
  BY <1>1, <1>2, <1>3, <1>4, <1>5

(* Only FetchAdd makes a thread that acquired a queue. *)
LEMMA NewlyAcquired ==
  ASSUME DataTypes, [Next]_vars, NEW k \in Keys, NEW u \in PoolThreads, Acquired(u, k)', ~ Acquired(u, k)
  PROVE  FetchAdd(u) /\ key[u] = k
<1> USE PoolThread DEF DataTypes, ThreadTypes, Acquired, Goto, replyVars, mapVars, poolVars
<1>1. CASE UNCHANGED vars
  BY <1>1 DEF vars
<1>2. ASSUME NEW t \in Threads, Start(t) \/ Instance(t) PROVE FALSE
  BY <1>2 DEF Start, Instance, ReadLock, Found, Convert, Insert, Rd2WrYield
<1>3. ASSUME NEW t \in Threads, TrySeparately(t) \/ AcquireFails(t) \/ SubtractOne(t) \/ GetTask(t) \/ Again(t) PROVE FALSE
  <2>1. CASE TrySeparately(t) \/ AcquireFails(t) \/ SubtractOne(t) \/ Again(t)
    BY <2>1 DEF TrySeparately, AcquireFails, SubtractOne, Again
  <2>2. CASE GetTask(t)
    BY <2>2 DEF GetTask, LockPool, SkipAcquire, OutOfQueues, Emplace, Rotate, KeepQueue
  <2> QED
    BY <1>3, <2>1, <2>2
<1>4. ASSUME NEW t \in Threads, FetchAdd(t) PROVE t = u /\ key[u] = k
  BY <1>4 DEF FetchAdd
<1> QED
  BY <1>1, <1>2, <1>3, <1>4 DEF Next, Acquire

(* The next queue of a reply is handed out by a fetch_add that found that there is one. *)
HandsOut(t, r) ==
  /\ FetchAdd(t) /\ HasReply(t) /\ r = TheReply(t) /\ key' = key
  /\ pc' = [pc EXCEPT ![t] = "acquired"]
  /\ got' = [got EXCEPT ![t] = Append(@, <<replies[r].family, replies[r].start + Out(r)>>)]
  /\ Out(r)' = Out(r) + 1 /\ Out(r) < replies[r].number

LEMMA OutChanges ==
  ASSUME Replies, DataTypes, Counting, [Next]_vars, NEW r
  PROVE  Out(r)' = Out(r) \/ \E t \in Threads : HandsOut(t, r)
<1>1. CASE UNCHANGED vars
  BY <1>1, SameOut DEF vars
<1>2. ASSUME NEW t \in Threads, Quiet(t) PROVE Out(r)' = Out(r)
  <2>1. /\ UNCHANGED <<replyVars, m_acquired>>
        /\ \A u \in Threads : pc'[u] = "too_many" <=> pc[u] = "too_many"
        /\ \A u \in Threads : pc[u] = "too_many" => key'[u] = key[u]
    BY <1>2, QuietSteps
  <2> QED
    BY <2>1, SameOut
<1>3. ASSUME NEW t \in Threads, FetchAdd(t) PROVE Out(r)' = Out(r) \/ HandsOut(t, r)
  <2> PICK q : q = TheReply(t)
    OBVIOUS
  <2>1. /\ \A u : u # q => TooMany(u)' = TooMany(u) /\ Out(u)' = Out(u)
        /\ \/ /\ pc' = [pc EXCEPT ![t] = "acquired"]
              /\ got' = [got EXCEPT ![t] = Append(@, <<replies[q].family, replies[q].start + Out(q)>>)]
              /\ TooMany(q) = {} /\ TooMany(q)' = {}
              /\ Out(q)' = Out(q) + 1 /\ Out(q) < replies[q].number
           \/ /\ pc' = [pc EXCEPT ![t] = "too_many"] /\ got' = got
              /\ TooMany(q)' = TooMany(q) \cup {t}
              /\ Out(q)' = Out(q) /\ Out(q) = replies[q].number
    BY <1>3, OutFetchAdd
  <2>2. HasReply(t) /\ key' = key
    BY <1>3 DEF FetchAdd
  <2> QED
    BY <1>3, <2>1, <2>2 DEF HandsOut
<1>4. ASSUME NEW t \in Threads, SubtractOne(t) PROVE Out(r)' = Out(r)
  BY <1>4, OutSubtractOne
<1>5. ASSUME NEW t \in Threads, OutOfQueues(t) PROVE Out(r)' = Out(r)
  <2>1. /\ UNCHANGED <<replyVars, m_acquired>> /\ key' = key
        /\ \A u \in Threads : pc'[u] = "too_many" <=> pc[u] = "too_many"
    BY <1>5 DEF OutOfQueues, Goto, DataTypes, ThreadTypes
  <2> QED
    BY <2>1, SameOut
<1> QED
  BY <1>1, <1>2, <1>3, <1>4, <1>5, StepKinds

LEMMA StepStopped ==
  ASSUME Replies, DataTypes, Counting, Locks, Asked, Stopped, [Next]_vars
  PROVE  Stopped'
<1> SUFFICES ASSUME NEW k \in Keys, m_no_more_queues'[k]
             PROVE  Requested(k)' # {} /\ \A t \in PoolThreads : ~Acquired(t, k)'
  BY DEF Stopped
<1>1. Requested(k)' = Requested(k)
  BY DataTypesKept DEF Requested, replyVars
<1>2. CASE m_no_more_queues[k]
  <2>1. Requested(k) # {} /\ \A t \in PoolThreads : ~Acquired(t, k)
    BY <1>2 DEF Stopped
  <2>2. ASSUME NEW t \in PoolThreads, Acquired(t, k)' PROVE FALSE
    <3>1. FetchAdd(t) /\ key[t] = k
      BY <2>1, <2>2, NewlyAcquired
    <3> PICK r : r = TheReply(t)
      OBVIOUS
    <3>2. r = PoolReply(k)
      BY <3>1 DEF TheReply, PoolReply
    <3>3. Out(r) = replies[r].number /\ replies[r].number \in Nat
      BY <1>2, <3>2 DEF Counting, Exhausted, Replies
    <3>4. \/ Out(r) < replies[r].number
          \/ pc' = [pc EXCEPT ![t] = "too_many"]
      BY <3>1, OutFetchAdd, PoolThread
    <3>5. pc'[t] = "acquired"
      BY <2>2 DEF Acquired
    <3> QED
      BY <3>3, <3>4, <3>5, PoolThread DEF DataTypes, ThreadTypes
  <2> QED
    BY <1>1, <2>1, <2>2
<1>3. CASE ~ m_no_more_queues[k]
  <2>1. PICK t \in Threads : OutOfQueues(t)
    BY <1>3, QuietSteps, StepKinds DEF vars, poolVars, FetchAdd, SubtractOne
  <2>2. /\ pc[t] = "out_of_queues" /\ pc' = [pc EXCEPT ![t] = "rotate"] /\ key' = key
        /\ m_no_more_queues' = [m_no_more_queues EXCEPT ![key[t]] = TRUE]
    BY <2>1 DEF OutOfQueues, Goto
  <2>3. k = key[t]
    BY <1>3, <2>2 DEF DataTypes, PoolTypes
  <2>4. t \in PoolThreads
    BY <2>2, PoolThread DEF DataTypes, ThreadTypes
  <2>5. Requested(k) # {}
    BY <2>2, <2>3 DEF Asked
  <2>6. ASSUME NEW u \in PoolThreads, Acquired(u, k) PROVE FALSE
    BY <2>2, <2>3, <2>4, <2>6 DEF Locks, Acquired
  <2>7. ASSUME NEW u \in PoolThreads, Acquired(u, k)' PROVE FALSE
    BY <2>2, <2>6, <2>7 DEF Acquired, DataTypes, ThreadTypes
  <2> QED
    BY <1>1, <2>5, <2>7
<1> QED
  BY <1>2, <1>3

--------------------------------------------------------------------------------
(* Who has which queue. *)

QueueOf(r, n) == <<replies[r].family, replies[r].start + n>>

(* A queue that was handed out: nobody has any other. *)
Handed(q) == \E r \in RequestIndices, n \in Nat : n < Out(r) /\ q = QueueOf(r, n)

OwnedBy(t) == IF pc[t] = "acquired" \/ t \in Windows THEN Range(got[t]) ELSE {}

Given ==
  /\ \A k \in Keys : \A q \in Range(tasks[k]) : Handed(q)
  /\ \A t \in Threads : \A q \in OwnedBy(t) : Handed(q)

(* A queue is in one list, or with one thread, and there once. *)
Once ==
  /\ \A k \in Keys : IsInjective(tasks[k])
  /\ \A k, l \in Keys : k # l => Range(tasks[k]) \cap Range(tasks[l]) = {}
  /\ \A t \in Threads, k \in Keys : OwnedBy(t) \cap Range(tasks[k]) = {}
  /\ \A t, u \in Threads : t # u => OwnedBy(t) \cap OwnedBy(u) = {}
  /\ \A w \in Windows : IsInjective(got[w])

Split == Divided(device, replies)

LEMMA InitOnce == Init => Given /\ Once
<1> SUFFICES ASSUME Init PROVE Given /\ Once
  OBVIOUS
<1>1. Range(<<>>) = {} /\ IsInjective(<<>>)
  BY DEF Range, IsInjective
<1>2. /\ \A k \in Keys : tasks[k] = <<>>
      /\ \A t \in Threads : got[t] = <<>>
  BY DEF Init
<1>3. \A t \in Threads : OwnedBy(t) = {}
  BY <1>1, <1>2 DEF OwnedBy
<1> QED
  BY <1>1, <1>2, <1>3, PoolThread DEF Given, Once

(* The ranges of the replies are disjoint, so the next queue of a reply is a new one. *)
LEMMA NextQueueNew ==
  ASSUME Replies, Counting, Split, NEW r \in RequestIndices, Out(r) < replies[r].number
  PROVE  ~ Handed(QueueOf(r, Out(r)))
<1> SUFFICES ASSUME NEW s \in RequestIndices, NEW n \in Nat, n < Out(s), QueueOf(r, Out(r)) = QueueOf(s, n)
             PROVE  FALSE
  BY DEF Handed
<1>0. /\ Out(r) \in Nat /\ Out(s) \in Nat /\ replies[r].number \in Nat /\ replies[s].number \in Nat
      /\ replies[r].start \in Nat /\ replies[s].start \in Nat
  <2>1. \A q \in RequestIndices : replies[q].number \in Nat /\ replies[q].start \in Nat
    BY DEF Replies, Split, Divided
  <2>2. \A q \in RequestIndices : Out(q) \in Nat
    BY <2>1 DEF Counting, Counted
  <2> QED
    BY <2>1, <2>2
<1> PICK m \in Nat, o \in Nat, N \in Nat, M \in Nat, a \in Nat, b \in Nat :
         /\ m = Out(r) /\ o = Out(s) /\ N = replies[r].number /\ M = replies[s].number
         /\ a = replies[r].start /\ b = replies[s].start
  BY <1>0
<1>1. m < N /\ n < o /\ o <= M
  BY DEF Counting, Counted
<1>2. a + m = b + n /\ replies[r].family = replies[s].family
  BY DEF QueueOf
<1>3. CASE s = r
  BY <1>1, <1>2, <1>3
<1>4. CASE s # r
  <2>1. b + M <= a \/ a + N <= b
    BY <1>2, <1>4 DEF Split, Divided
  <2> QED
    BY <1>1, <1>2, <2>1
<1> QED
  BY <1>3, <1>4

(* What was handed out, stays handed out. *)
LEMMA HandedStays ==
  ASSUME Replies, DataTypes, Counting, [Next]_vars
  PROVE  \A q : Handed(q) => Handed(q)'
<1>1. UNCHANGED replies
  BY DataTypesKept DEF replyVars
<1>2. \A r, n : QueueOf(r, n)' = QueueOf(r, n)
  BY <1>1 DEF QueueOf
<1>3. \A r \in RequestIndices : \A n \in Nat : n < Out(r) => n < Out(r)'
  <2> TAKE r \in RequestIndices
  <2> TAKE n \in Nat
  <2> PICK o \in Nat : o = Out(r)
    BY DEF Counting, Counted, Replies
  <2>1. Out(r)' = o \/ Out(r)' = o + 1
    BY OutChanges DEF HandsOut
  <2> QED
    BY <2>1
<1> QED
  BY <1>2, <1>3 DEF Handed

(* What a step changes in the lists of tasks, and in what the threads have. *)
LEMMA QueuesMove ==
  ASSUME DataTypes, [Next]_vars
  PROVE  \/ \E t \in Threads : FetchAdd(t) /\ pc' = [pc EXCEPT ![t] = "acquired"]
         \/ \E t \in Threads : Emplace(t)
         \/ /\ tasks' = tasks
            /\ \A u \in Threads : OwnedBy(u)' = OwnedBy(u)
            /\ \A w \in Windows : got'[w] = got[w]
<1> USE PoolThread DEF DataTypes, ThreadTypes, Goto, replyVars, mapVars, poolVars
<1> DEFINE Same == /\ tasks' = tasks
                   /\ \A u \in Threads : OwnedBy(u)' = OwnedBy(u)
                   /\ \A w \in Windows : got'[w] = got[w]
<1>1. CASE UNCHANGED vars
  BY <1>1 DEF vars, OwnedBy
<1>2. ASSUME NEW t \in Threads, Start(t) \/ Instance(t) PROVE Same
  BY <1>2 DEF Start, Instance, ReadLock, Found, Convert, Insert, Rd2WrYield, OwnedBy
<1>3. ASSUME NEW t \in Threads, FetchAdd(t) PROVE Same \/ pc' = [pc EXCEPT ![t] = "acquired"]
  <2>1. CASE pc' = [pc EXCEPT ![t] = "too_many"]
    <3>1. got' = got \/ pc' = [pc EXCEPT ![t] = "acquired"]
      BY <1>3 DEF FetchAdd
    <3>2. got' = got /\ tasks' = tasks /\ pc[t] = "acquire"
      BY <1>3, <2>1, <3>1 DEF FetchAdd
    <3> QED
      BY <2>1, <3>2 DEF OwnedBy
  <2> QED
    BY <1>3, <2>1 DEF FetchAdd
<1>4. ASSUME NEW t \in Threads, TrySeparately(t) \/ AcquireFails(t) \/ SubtractOne(t) PROVE Same
  BY <1>4 DEF TrySeparately, AcquireFails, SubtractOne, OwnedBy
<1>5. ASSUME NEW t \in Threads, LockPool(t) \/ SkipAcquire(t) \/ OutOfQueues(t) \/ KeepQueue(t) PROVE Same
  BY <1>5 DEF LockPool, SkipAcquire, OutOfQueues, KeepQueue, OwnedBy
<1>6. ASSUME NEW t \in Threads, Rotate(t) \/ Again(t) PROVE Same
  <2>1. t \in PoolThreads /\ pc[t] # "acquired" /\ tasks' = tasks
        /\ (\E l \in {"done", "idle"} : pc' = [pc EXCEPT ![t] = l]) /\ \E s : got' = [got EXCEPT ![t] = s]
    BY <1>6 DEF Rotate, Again
  <2> QED
    BY <2>1 DEF OwnedBy
<1> QED
  BY <1>1, <1>2, <1>3, <1>4, <1>5, <1>6 DEF Next, Acquire, GetTask

LEMMA RangeAppend ==
  ASSUME NEW S, NEW s \in Seq(S), NEW e \in S
  PROVE  Range(Append(s, e)) = Range(s) \cup {e}
<1>1. /\ Len(Append(s, e)) = Len(s) + 1 /\ Len(s) \in Nat
      /\ \A i \in 1..Len(s) : Append(s, e)[i] = s[i]
      /\ Append(s, e)[Len(s) + 1] = e
      /\ DOMAIN s = 1..Len(s) /\ DOMAIN Append(s, e) = 1..(Len(s) + 1)
  OBVIOUS
<1> QED
  BY <1>1 DEF Range

(* A queue is handed out to a thread that had it not, nor any other. *)
LEMMA Receives ==
  ASSUME Replies, DataTypes, Counting, NEW t \in Threads, FetchAdd(t), pc' = [pc EXCEPT ![t] = "acquired"]
  PROVE  \E r \in RequestIndices, new \in Queues :
           /\ new = QueueOf(r, Out(r)) /\ Out(r) < replies[r].number /\ Handed(new)'
           /\ tasks' = tasks /\ got' = [got EXCEPT ![t] = Append(got[t], new)]
           /\ OwnedBy(t)' = OwnedBy(t) \cup {new}
           /\ \A u \in Threads \ {t} : OwnedBy(u)' = OwnedBy(u)
<1> PICK r : r = TheReply(t)
  OBVIOUS
<1>1. pc[t] = "acquire" /\ tasks' = tasks /\ replies' = replies
  BY DEF FetchAdd, poolVars, replyVars
<1>2. /\ r \in RequestIndices
      /\ \/ /\ got' = [got EXCEPT ![t] = Append(@, <<replies[r].family, replies[r].start + Out(r)>>)]
            /\ Out(r)' = Out(r) + 1 /\ Out(r) < replies[r].number
         \/ pc' = [pc EXCEPT ![t] = "too_many"]
  BY OutFetchAdd
<1>3. pc' # [pc EXCEPT ![t] = "too_many"]
  BY DEF DataTypes, ThreadTypes
<1> PICK new : new = QueueOf(r, Out(r))
  OBVIOUS
<1>4. got' = [got EXCEPT ![t] = Append(got[t], new)]
  BY <1>2, <1>3 DEF QueueOf
<1>5. Out(r) \in Nat
  BY <1>2 DEF Counting, Counted, Replies
<1>6. Handed(new)'
  <2> PICK n \in Nat : n = Out(r)
    BY <1>5
  <2>1. QueueOf(r, n)' = new
    BY <1>1 DEF QueueOf
  <2>2. Out(r)' = n + 1
    BY <1>2, <1>3
  <2>3. n < Out(r)'
    BY <2>2
  <2> QED
    BY <1>2, <2>1, <2>3 DEF Handed
<1>7. new \in Queues
  BY <1>2, <1>5 DEF QueueOf, Queues
<1>8. \A u \in Threads \ {t} : OwnedBy(u)' = OwnedBy(u)
  BY <1>1, <1>4 DEF OwnedBy, DataTypes, ThreadTypes
<1>9. Range(Append(got[t], new)) = Range(got[t]) \cup {new}
  BY <1>7, RangeAppend DEF DataTypes, ThreadTypes
<1>10. OwnedBy(t)' = OwnedBy(t) \cup {new}
  <2>1. got'[t] = Append(got[t], new) /\ pc'[t] = "acquired"
    BY <1>4 DEF DataTypes, ThreadTypes
  <2>2. OwnedBy(t)' = Range(got[t]) \cup {new}
    BY <1>9, <2>1 DEF OwnedBy
  <2>3. t \notin Windows => got[t] = <<>>
    BY <1>1, PoolThread DEF DataTypes, OneQueue
  <2>4. Range(<<>>) = {}
    BY DEF Range
  <2>5. OwnedBy(t) = Range(got[t])
    BY <1>1, <2>3, <2>4 DEF OwnedBy
  <2> QED
    BY <2>2, <2>5
<1> QED
  BY <1>1, <1>2, <1>3, <1>4, <1>6, <1>7, <1>8, <1>10

(* A queue that a thread acquired goes to the tasks of its pool. *)
LEMMA Passes ==
  ASSUME DataTypes, NEW t \in Threads, Emplace(t)
  PROVE  /\ t \in PoolThreads /\ got' = got /\ key[t] \in Keys
         /\ OwnedBy(t) = {got[t][1]} /\ OwnedBy(t)' = {} /\ got[t][1] \in Queues
         /\ tasks' = [tasks EXCEPT ![key[t]] = Append(tasks[key[t]], got[t][1])]
         /\ \A u \in Threads \ {t} : OwnedBy(u)' = OwnedBy(u)
<1>1. /\ t \in PoolThreads /\ pc[t] = "acquired" /\ got' = got /\ pc' = [pc EXCEPT ![t] = "done"]
      /\ tasks' = [tasks EXCEPT ![key[t]] = Append(tasks[key[t]], Last(got[t]))]
  BY DEF Emplace, Goto
<1>2. Last(got[t]) = got[t][1] /\ Last(got[t]) \in Queues /\ Range(got[t]) = {got[t][1]}
  BY <1>1, LastGot
<1>3. OwnedBy(t) = {got[t][1]} /\ OwnedBy(t)' = {} /\ \A u \in Threads \ {t} : OwnedBy(u)' = OwnedBy(u)
  BY <1>1, <1>2, PoolThread DEF OwnedBy, DataTypes, ThreadTypes
<1> QED
  BY <1>1, <1>2, <1>3 DEF DataTypes, ThreadTypes

LEMMA StepGiven ==
  ASSUME Replies, DataTypes, Counting, Given, [Next]_vars
  PROVE  Given'
<1>1. \A q : Handed(q) => Handed(q)'
  BY HandedStays
<1>2. CASE tasks' = tasks /\ \A u \in Threads : OwnedBy(u)' = OwnedBy(u)
  BY <1>1, <1>2 DEF Given
<1>3. ASSUME NEW t \in Threads, FetchAdd(t), pc' = [pc EXCEPT ![t] = "acquired"] PROVE Given'
  <2> PICK new : /\ Handed(new)' /\ tasks' = tasks
                 /\ OwnedBy(t)' = OwnedBy(t) \cup {new}
                 /\ \A u \in Threads \ {t} : OwnedBy(u)' = OwnedBy(u)
    BY <1>3, Receives
  <2>1. \A u \in Threads : \A q \in OwnedBy(u)' : Handed(q)'
    BY <1>1 DEF Given
  <2>2. \A k \in Keys : \A q \in Range(tasks'[k]) : Handed(q)'
    BY <1>1 DEF Given
  <2> QED
    BY <2>1, <2>2 DEF Given
<1>4. ASSUME NEW t \in Threads, Emplace(t) PROVE Given'
  <2>1. /\ key[t] \in Keys
        /\ OwnedBy(t) = {got[t][1]} /\ OwnedBy(t)' = {} /\ got[t][1] \in Queues
        /\ tasks' = [tasks EXCEPT ![key[t]] = Append(tasks[key[t]], got[t][1])]
        /\ \A u \in Threads \ {t} : OwnedBy(u)' = OwnedBy(u)
    BY <1>4, Passes
  <2>2. Range(Append(tasks[key[t]], got[t][1])) = Range(tasks[key[t]]) \cup {got[t][1]}
    BY <2>1, RangeAppend DEF DataTypes, PoolTypes
  <2>3. \A k \in Keys : Range(tasks'[k]) = IF k = key[t] THEN Range(tasks[k]) \cup {got[t][1]} ELSE Range(tasks[k])
    BY <2>1, <2>2 DEF DataTypes, PoolTypes
  <2>4. Handed(got[t][1])
    BY <2>1 DEF Given
  <2>5. \A u \in Threads : \A q \in OwnedBy(u)' : Handed(q)
    BY <2>1 DEF Given
  <2>6. \A k \in Keys : \A q \in Range(tasks'[k]) : Handed(q)
    BY <2>3, <2>4 DEF Given
  <2>7. \A u \in Threads : \A q \in OwnedBy(u)' : Handed(q)'
    BY <1>1, <2>5
  <2>8. \A k \in Keys : \A q \in Range(tasks'[k]) : Handed(q)'
    BY <1>1, <2>6
  <2> QED
    BY <2>7, <2>8 DEF Given
<1> QED
  BY <1>2, <1>3, <1>4, QueuesMove

LEMMA StepOnce ==
  ASSUME Replies, DataTypes, Counting, Split, Given, Once, [Next]_vars
  PROVE  Once'
<1>1. CASE tasks' = tasks /\ (\A u \in Threads : OwnedBy(u)' = OwnedBy(u)) /\ \A w \in Windows : got'[w] = got[w]
  BY <1>1 DEF Once
<1>2. ASSUME NEW t \in Threads, FetchAdd(t), pc' = [pc EXCEPT ![t] = "acquired"] PROVE Once'
  <2> PICK r \in RequestIndices, new \in Queues :
           /\ new = QueueOf(r, Out(r)) /\ Out(r) < replies[r].number
           /\ tasks' = tasks /\ got' = [got EXCEPT ![t] = Append(got[t], new)]
           /\ OwnedBy(t)' = OwnedBy(t) \cup {new}
           /\ \A u \in Threads \ {t} : OwnedBy(u)' = OwnedBy(u)
    BY <1>2, Receives
  <2>1. ~ Handed(new)
    BY NextQueueNew
  <2>2. /\ \A k \in Keys : new \notin Range(tasks[k])
        /\ \A u \in Threads : new \notin OwnedBy(u)
    BY <2>1 DEF Given
  <2>3. \A u \in Threads : OwnedBy(u)' = IF u = t THEN OwnedBy(u) \cup {new} ELSE OwnedBy(u)
    OBVIOUS
  <2>4. \A u, v \in Threads : u # v => OwnedBy(u)' \cap OwnedBy(v)' = {}
    BY <2>2, <2>3 DEF Once
  <2>5. \A u \in Threads, k \in Keys : OwnedBy(u)' \cap Range(tasks[k]) = {}
    BY <2>2, <2>3 DEF Once
  <2>6. ASSUME NEW w \in Windows PROVE IsInjective(got'[w])
    <3>1. CASE w = t
      <4>1. new \notin Range(got[t]) /\ IsInjective(got[t])
        BY <2>2, <3>1, PoolThread DEF OwnedBy, Once
      <4>2. got[t] \in Seq(Queues) /\ new \in Queues
        BY DEF DataTypes, ThreadTypes
      <4>3. IsInjective(Append(got[t], new))
        BY <4>1, <4>2, AppendNew
      <4> QED
        BY <3>1, <4>3 DEF DataTypes, ThreadTypes
    <3>2. CASE w # t
      BY <3>2 DEF Once, DataTypes, ThreadTypes
    <3> QED
      BY <3>1, <3>2
  <2> QED
    BY <2>4, <2>5, <2>6 DEF Once
<1>3. ASSUME NEW t \in Threads, Emplace(t) PROVE Once'
  <2>1. /\ key[t] \in Keys /\ got' = got
        /\ OwnedBy(t) = {got[t][1]} /\ OwnedBy(t)' = {} /\ got[t][1] \in Queues
        /\ tasks' = [tasks EXCEPT ![key[t]] = Append(tasks[key[t]], got[t][1])]
        /\ \A u \in Threads \ {t} : OwnedBy(u)' = OwnedBy(u)
    BY <1>3, Passes
  <2> PICK q : q = got[t][1]
    OBVIOUS
  <2>2. tasks[key[t]] \in Seq(Queues) /\ IsInjective(tasks[key[t]]) /\ \A k \in Keys : q \notin Range(tasks[k])
    BY <2>1 DEF Once, DataTypes, PoolTypes
  <2>3. IsInjective(Append(tasks[key[t]], q)) /\ Range(Append(tasks[key[t]], q)) = Range(tasks[key[t]]) \cup {q}
    BY <2>1, <2>2, AppendNew
  <2>4. \A k \in Keys : IsInjective(tasks'[k]) /\ Range(tasks'[k]) = IF k = key[t] THEN Range(tasks[k]) \cup {q} ELSE Range(tasks[k])
    BY <2>1, <2>3 DEF Once, DataTypes, PoolTypes
  <2>5. \A u \in Threads : OwnedBy(u)' = OwnedBy(u) \ {q}
    BY <2>1 DEF Once
  <2>6. \A k, l \in Keys : k # l => Range(tasks'[k]) \cap Range(tasks'[l]) = {}
    <3> SUFFICES ASSUME NEW k \in Keys, NEW l \in Keys, k # l, NEW x, x \in Range(tasks'[k]), x \in Range(tasks'[l])
                 PROVE  FALSE
      OBVIOUS
    <3>1. x \in Range(tasks[k]) \/ (k = key[t] /\ x = q)
      BY <2>4
    <3>2. x \in Range(tasks[l]) \/ (l = key[t] /\ x = q)
      BY <2>4
    <3> QED
      BY <2>2, <3>1, <3>2 DEF Once
  <2>7. \A u \in Threads, k \in Keys : OwnedBy(u)' \cap Range(tasks'[k]) = {}
    BY <2>4, <2>5 DEF Once
  <2>8. \A u, v \in Threads : u # v => OwnedBy(u)' \cap OwnedBy(v)' = {}
    BY <2>5 DEF Once
  <2> QED
    BY <2>1, <2>4, <2>6, <2>7, <2>8 DEF Once
<1> QED
  BY <1>1, <1>2, <1>3, QueuesMove

Exclusion == Replies /\ DataTypes /\ Counting /\ Split /\ Given /\ Once

LEMMA StepExclusion ==
  ASSUME Exclusion, [Next]_vars
  PROVE  Exclusion'
<1>1. Replies' /\ DataTypes' /\ Split'
  BY DataTypesKept DEF Exclusion, Split, replyVars
<1>2. Counting' /\ Given'
  BY StepCounting, StepGiven DEF Exclusion
<1>3. Once'
  BY StepOnce DEF Exclusion
<1> QED
  BY <1>1, <1>2, <1>3 DEF Exclusion

LEMMA Excludes ==
  ASSUME Exclusion
  PROVE  QueuesExclusive
<1>1. ASSUME NEW k \in Keys, NEW q \in Range(tasks[k]) PROVE q[2] < device[q[1]].count
  <2>1. Handed(q)
    BY <1>1 DEF Exclusion, Given
  <2> PICK r \in RequestIndices, n \in Nat : n < Out(r) /\ q = QueueOf(r, n)
    BY <2>1 DEF Handed
  <2>2. q[1] = replies[r].family /\ q[2] = replies[r].start + n
    BY DEF QueueOf
  <2>3. Out(r) \in Nat /\ replies[r].number \in Nat /\ Out(r) <= replies[r].number
    <3>1. replies[r].number \in Nat
      BY DEF Exclusion, Replies
    <3> QED
      BY <3>1 DEF Exclusion, Counting, Counted
  <2>4. /\ replies[r].start \in Nat /\ device[replies[r].family].count \in Nat
        /\ replies[r].start + replies[r].number <= device[replies[r].family].count
    BY DEF Exclusion, Split, Divided
  <2> PICK o \in Nat, N \in Nat, a \in Nat, c \in Nat :
           o = Out(r) /\ N = replies[r].number /\ a = replies[r].start /\ c = device[replies[r].family].count
    BY <2>3, <2>4
  <2>5. n < o /\ o <= N /\ a + N <= c
    BY <2>3, <2>4
  <2>6. a + n < c
    BY <2>5
  <2> QED
    BY <2>2, <2>6
<1> QED
  BY <1>1 DEF Exclusion, Once, OwnedBy, QueuesExclusive

(* No queue of the device is handed out twice: the ranges that the replies of a family
   were given are disjoint, and m_acquired of a reply never falls below the number of
   queues that were handed out, also while others give back what was never there.  For
   every number of threads, on a device whose queues were divided. *)
THEOREM Exclusive ==
  ASSUME \A d \in Devices : IsCompatible(d) => \A c \in BestConfigurations(d) : Divided(d, QueueReplies(c))
  PROVE  Spec => []QueuesExclusive
<1>1. Init => Split
  BY DEF Init, Split
<1>2. Init => Exclusion
  BY <1>1, InitReplies, InitDataTypes, InitCounting, InitOnce DEF Exclusion
<1> QED
  BY <1>2, StepExclusion, Excludes, PTL DEF Spec

--------------------------------------------------------------------------------
(* No queue is lost. *)

(* A queue that was handed out is with somebody who requests from its reply. *)
Held(r, n) ==
  \/ \E l \in Keys : r \in Requested(l) /\ QueueOf(r, n) \in Range(tasks[l])
  \/ \E t \in PoolThreads : r \in Requested(key[t]) /\ pc[t] = "acquired" /\ QueueOf(r, n) = Last(got[t])
  \/ \E w \in Windows : QueueOf(r, n) \in Range(got[w]) /\ \E l \in KeysOf(w) : r \in Requested(l)

Placed == \A r \in RequestIndices, n \in Nat : n < Out(r) => Held(r, n)

LEMMA InitPlaced == Init => Placed
<1> SUFFICES ASSUME Init PROVE Placed
  OBVIOUS
<1>1. \A r : TooMany(r) = {}
  BY DEF Init, TooMany
<1>2. \A r \in RequestIndices : Out(r) = 0
  <2>1. \A r \in RequestIndices : m_acquired[r] = 0
    BY DEF Init
  <2>2. \A r : Cardinality(TooMany(r)) = 0
    BY <1>1, FS_EmptySet
  <2> QED
    BY <2>1, <2>2 DEF Out
<1> QED
  BY <1>2 DEF Placed

(* Who acquired a queue for a pool does nothing but adding it. *)
LEMMA AcquiredStays ==
  ASSUME DataTypes, [Next]_vars, NEW u \in PoolThreads, pc[u] = "acquired", ~Emplace(u)
  PROVE  pc'[u] = pc[u] /\ key'[u] = key[u] /\ got'[u] = got[u]
<1> USE PoolThread DEF DataTypes, ThreadTypes, Goto, replyVars, mapVars, poolVars
<1>1. CASE UNCHANGED vars
  BY <1>1 DEF vars
<1>2. ASSUME NEW t \in Threads, t # u,
             pc' = pc \/ \E l : pc' = [pc EXCEPT ![t] = l],
             key' = key \/ \E l : key' = [key EXCEPT ![t] = l],
             got' = got \/ \E l : got' = [got EXCEPT ![t] = l]
      PROVE  pc'[u] = pc[u] /\ key'[u] = key[u] /\ got'[u] = got[u]
  BY <1>2
<1>3. ASSUME NEW t \in Threads, Start(t) \/ Instance(t)
      PROVE  pc'[u] = pc[u] /\ key'[u] = key[u] /\ got'[u] = got[u]
  BY <1>2, <1>3 DEF Start, Instance, ReadLock, Found, Convert, Insert, Rd2WrYield
<1>4. ASSUME NEW t \in Threads, FetchAdd(t) \/ TrySeparately(t) \/ AcquireFails(t) \/ SubtractOne(t) \/ Again(t)
      PROVE  pc'[u] = pc[u] /\ key'[u] = key[u] /\ got'[u] = got[u]
  BY <1>2, <1>4 DEF FetchAdd, TrySeparately, AcquireFails, SubtractOne, Again
<1>5. ASSUME NEW t \in Threads,
             LockPool(t) \/ SkipAcquire(t) \/ OutOfQueues(t) \/ Emplace(t) \/ Rotate(t) \/ KeepQueue(t)
      PROVE  pc'[u] = pc[u] /\ key'[u] = key[u] /\ got'[u] = got[u]
  BY <1>2, <1>5 DEF LockPool, SkipAcquire, OutOfQueues, Emplace, Rotate, KeepQueue
<1> QED
  BY <1>1, <1>3, <1>4, <1>5 DEF Next, Acquire, GetTask

(* No list of tasks, nor that of a window, loses a queue. *)
LEMMA HeldStays ==
  ASSUME Replies, DataTypes, Counting, [Next]_vars, NEW r \in RequestIndices, NEW n \in Nat, Held(r, n)
  PROVE  Held(r, n)'
<1> PICK q : q = QueueOf(r, n)
  OBVIOUS
<1>1. QueueOf(r, n)' = q /\ \A l : Requested(l)' = Requested(l)
  BY DataTypesKept DEF QueueOf, Requested, replyVars
<1>2. \A k \in Keys : Range(tasks[k]) \subseteq Range(tasks'[k])
  <2>1. ASSUME NEW t \in Threads, Emplace(t) PROVE \A k \in Keys : Range(tasks[k]) \subseteq Range(tasks'[k])
    <3>1. /\ key[t] \in Keys /\ got[t][1] \in Queues
          /\ tasks' = [tasks EXCEPT ![key[t]] = Append(tasks[key[t]], got[t][1])]
      BY <2>1, Passes
    <3>2. Range(Append(tasks[key[t]], got[t][1])) = Range(tasks[key[t]]) \cup {got[t][1]}
      BY <3>1, RangeAppend DEF DataTypes, PoolTypes
    <3> QED
      BY <3>1, <3>2 DEF DataTypes, PoolTypes
  <2>2. ASSUME NEW t \in Threads, FetchAdd(t) PROVE tasks' = tasks
    BY <2>2 DEF FetchAdd, poolVars
  <2> QED
    BY <2>1, <2>2, QueuesMove
<1>3. \A w \in Windows : Range(got[w]) \subseteq Range(got'[w])
  <2>1. ASSUME NEW t \in Threads, FetchAdd(t), pc' = [pc EXCEPT ![t] = "acquired"]
        PROVE  \A w \in Windows : Range(got[w]) \subseteq Range(got'[w])
    <3>1. PICK new \in Queues : got' = [got EXCEPT ![t] = Append(got[t], new)]
      BY <2>1, Receives
    <3>2. Range(Append(got[t], new)) = Range(got[t]) \cup {new}
      BY <3>1, RangeAppend DEF DataTypes, ThreadTypes
    <3> QED
      BY <3>1, <3>2, PoolThread DEF DataTypes, ThreadTypes
  <2>2. ASSUME NEW t \in Threads, Emplace(t) PROVE got' = got
    BY <2>2, Passes
  <2> QED
    BY <2>1, <2>2, QueuesMove
<1>4. CASE \E l \in Keys : r \in Requested(l) /\ q \in Range(tasks[l])
  BY <1>1, <1>2, <1>4 DEF Held
<1>5. CASE \E w \in Windows : q \in Range(got[w]) /\ \E l \in KeysOf(w) : r \in Requested(l)
  BY <1>1, <1>3, <1>5 DEF Held
<1>6. ASSUME NEW t \in PoolThreads, r \in Requested(key[t]), pc[t] = "acquired", q = Last(got[t])
      PROVE  Held(r, n)'
  <2>1. CASE Emplace(t)
    <3>1. /\ key[t] \in Keys /\ got[t][1] \in Queues
          /\ tasks' = [tasks EXCEPT ![key[t]] = Append(tasks[key[t]], got[t][1])]
      BY <2>1, Passes, PoolThread
    <3>2. q = got[t][1]
      BY <1>6, LastGot
    <3>3. Range(Append(tasks[key[t]], got[t][1])) = Range(tasks[key[t]]) \cup {got[t][1]}
      BY <3>1, RangeAppend DEF DataTypes, PoolTypes
    <3>4. q \in Range(tasks'[key[t]])
      BY <3>1, <3>2, <3>3 DEF DataTypes, PoolTypes
    <3> QED
      BY <1>1, <1>6, <3>1, <3>4 DEF Held
  <2>2. CASE ~Emplace(t)
    <3>1. pc'[t] = "acquired" /\ key'[t] = key[t] /\ got'[t] = got[t]
      BY <1>6, <2>2, AcquiredStays
    <3> QED
      BY <1>1, <1>6, <3>1 DEF Held
  <2> QED
    BY <2>1, <2>2
<1> QED
  BY <1>4, <1>5, <1>6 DEF Held

(* The one that was handed out last is with who asked for it. *)
LEMMA HandedOutHeld ==
  ASSUME Replies, DataTypes, WindowKeys, [Next]_vars, NEW r \in RequestIndices, NEW n \in Nat, n = Out(r),
         NEW t \in Threads, HandsOut(t, r)
  PROVE  Held(r, n)'
<1> PICK q : q = QueueOf(r, n)
  OBVIOUS
<1>1. QueueOf(r, n)' = q /\ \A l : Requested(l)' = Requested(l)
  BY DataTypesKept DEF QueueOf, Requested, replyVars
<1>2. r \in Requested(key[t]) /\ key' = key /\ pc'[t] = "acquired" /\ pc[t] = "acquire"
  BY ReplyFound DEF HandsOut, Requested, FetchAdd, DataTypes, ThreadTypes
<1>3. got[t] \in Seq(Queues) /\ got'[t] = Append(got[t], q)
  BY DEF HandsOut, QueueOf, DataTypes, ThreadTypes
<1>4. q \in Queues
  BY DEF QueueOf, Queues
<1>5. CASE t \in PoolThreads
  <2>1. got[t] = <<>>
    BY <1>2, <1>5 DEF DataTypes, OneQueue
  <2>2. got'[t] = <<q>>
    BY <1>3, <2>1
  <2>3. Last(got'[t]) = q
    BY <2>2 DEF Last
  <2> QED
    BY <1>1, <1>2, <1>5, <2>3 DEF Held
<1>6. CASE t \in Windows
  <2>1. q \in Range(got'[t])
    BY <1>3, <1>4, RangeAppend
  <2>2. key[t] \in KeysOf(t)
    BY <1>6 DEF WindowKeys
  <2> QED
    BY <1>1, <1>2, <1>6, <2>1, <2>2 DEF Held
<1> QED
  BY <1>5, <1>6, PoolThread

LEMMA StepPlaced ==
  ASSUME Replies, DataTypes, Counting, WindowKeys, Placed, [Next]_vars
  PROVE  Placed'
<1> SUFFICES ASSUME NEW r \in RequestIndices, NEW n \in Nat, n < Out(r)' PROVE Held(r, n)'
  BY DEF Placed
<1>1. CASE Out(r)' = Out(r)
  BY <1>1, HeldStays DEF Placed
<1>2. ASSUME NEW t \in Threads, HandsOut(t, r) PROVE Held(r, n)'
  <2>1. Out(r)' = Out(r) + 1 /\ Out(r) \in Nat
    BY <1>2 DEF HandsOut, Counting, Counted, Replies
  <2>2. n < Out(r) \/ n = Out(r)
    BY <2>1
  <2> QED
    BY <1>2, <2>2, HeldStays, HandedOutHeld DEF Placed
<1> QED
  BY <1>1, <1>2, OutChanges

Behind == Replies /\ DataTypes /\ Counting /\ Locks /\ Asked /\ WindowKeys /\ Stopped /\ Placed

LEMMA StepBehind ==
  ASSUME Behind, [Next]_vars
  PROVE  Behind'
<1>1. Replies' /\ DataTypes'
  BY DataTypesKept DEF Behind
<1>2. Counting'
  BY StepCounting DEF Behind
<1>3. Locks' /\ Asked' /\ WindowKeys'
  BY StepLocks, StepAsked, StepWindowKeys DEF Behind
<1>4. Stopped' /\ Placed'
  BY StepStopped, StepPlaced DEF Behind
<1> QED
  BY <1>1, <1>2, <1>3, <1>4 DEF Behind

(* A pool only stops acquiring queues when its reply has no more, and nobody lost one:
   each is in its list of tasks, or with a pool or a window that gets its queues from
   the same reply; no thread of this pool still has to add one. For every device,
   division of its queues, set of keys and number of threads. *)
THEOREM NothingLeft == Spec => []NoQueueLost
<1>1. Init => Behind
  BY InitReplies, InitDataTypes, InitCounting, InitBehind, InitPlaced DEF Behind
<1>2. Behind => NoQueueLost
  <2> SUFFICES ASSUME Behind, NEW k \in Keys, m_no_more_queues[k]
               PROVE  /\ \A t \in PoolThreads : key[t] = k => pc[t] # "acquired"
                      /\ \E r \in Requested(k) :
                            /\ replies[r].number > 0
                            /\ \A n \in 0 .. replies[r].number - 1 :
                                 QueueOf(r, n) \in Range(tasks[k]) \/ TakenByOther(k, r, QueueOf(r, n))
    BY DEF NoQueueLost, Requested, QueueOf
  <2>1. Requested(k) # {} /\ \A t \in PoolThreads : key[t] = k => pc[t] # "acquired"
    BY DEF Behind, Stopped, Acquired
  <2> PICK r : r = PoolReply(k)
    OBVIOUS
  <2>2. r \in Requested(k) /\ Exhausted(r)
    BY <2>1 DEF PoolReply, Requested, Behind, Counting
  <2>3. replies[r].combined = 0 /\ r \in RequestIndices
    BY <2>2 DEF Requested, RequestedReplies, SupportingReplies, Exhausted
  <2>4. replies[r].number > 0 /\ Out(r) = replies[r].number /\ replies[r].number \in Nat
    BY <2>2, <2>3 DEF Behind, Replies, Exhausted
  <2>5. ASSUME NEW n \in 0 .. replies[r].number - 1
        PROVE  QueueOf(r, n) \in Range(tasks[k]) \/ TakenByOther(k, r, QueueOf(r, n))
    <3>1. n \in Nat /\ n < Out(r)
      BY <2>4
    <3>2. Held(r, n)
      BY <2>3, <3>1 DEF Behind, Placed
    <3> QED
      BY <2>1, <3>2 DEF Held, TakenByOther, Requested
  <2> QED
    BY <2>1, <2>2, <2>4, <2>5
<1> QED
  BY <1>1, <1>2, StepBehind, PTL DEF Spec
==============================================================================
