------------------------------ MODULE QueuePool ------------------------------
(***************************************************************************)
(* Threads that need a queue: ImmediateSubmit tasks that ask the pool of   *)
(* their request key for a running ImmediateSubmitQueue task, and windows  *)
(* that acquire a queue of their own.                                      *)
(*                                                                         *)
(* The pools live in a map under a read/write spin lock.  Who finds no     *)
(* pool converts its read lock to a write lock; only one thread at a time  *)
(* can be converting: the next one drops its lock and starts again.  (The  *)
(* lock is external: a conversion waits until its thread is the only       *)
(* reader and keeps out new readers.)  The descriptor set layouts and the  *)
(* pipeline layouts of the logical device are found or created with the    *)
(* same protocol.  A pool acquires queues under a mutex until none is      *)
(* left, and then rotates over its tasks.  m_no_more_queues is relaxed: a  *)
(* stale false only takes the slow path once more.                         *)
(***************************************************************************)
EXTENDS QueueFamilies, SequencesExt

CONSTANTS
    Devices,            \* the devices that the application may run on
    Keys,               \* request keys: [flags, cookie]
    PoolThreads,        \* threads that run ImmediateSubmit tasks
    WindowKey,          \* the key of each window, by the thread that initializes it
    NoThread,           \* a lock that is not held
    MaxRequests         \* bound on the requests of each pool thread

Windows == DOMAIN WindowKey

Threads == PoolThreads \cup Windows

ASSUME KeysAssumption ==
    /\ Keys # {} /\ \A k \in Keys : Cardinality(k.flags) = 1
    /\ \A w \in Windows : WindowKey[w] = [flags |-> WindowKey[w].flags, cookie |-> WindowKey[w].cookie]

ASSUME ThreadsAssumption ==
    IsFiniteSet(Threads) /\ PoolThreads \cap Windows = {} /\ NoThread \notin Threads

VARIABLES
    device, replies,    \* chosen by LogicalDevice::prepare
    m_acquired,         \* of each QueueReply
    readers, converter, \* the lock of QueuePool::s_map
    pools,              \* s_map: the keys, in order of insertion
    m_no_more_queues, m_acquiring_queue, tasks, m_next_task,    \* of each pool
    pc, key, got, served,    \* of each thread
    todo                     \* the keys that a window still has to try

replyVars == <<device, replies>>
mapVars == <<readers, converter, pools>>
poolVars == <<m_no_more_queues, m_acquiring_queue, tasks, m_next_task>>
vars == <<replyVars, m_acquired, mapVars, poolVars, pc, key, got, served, todo>>

Init ==
    /\ device \in {d \in Devices : IsCompatible(d)}
    /\ replies \in {QueueReplies(c) : c \in BestConfigurations(device)}
    /\ m_acquired = [r \in RequestIndices |-> 0]
    /\ readers = {} /\ converter = NoThread /\ pools = <<>>
    /\ m_no_more_queues = [k \in Keys |-> FALSE]
    /\ m_acquiring_queue = [k \in Keys |-> NoThread]
    /\ tasks = [k \in Keys |-> <<>>]
    /\ m_next_task = [k \in Keys |-> 0]
    /\ pc = [t \in Threads |-> "idle"]
    /\ key = [t \in Threads |-> IF t \in Windows THEN WindowKey[t] ELSE CHOOSE k \in Keys : TRUE]
    /\ todo = [t \in Windows |-> <<>>]
    /\ got = [t \in Threads |-> <<>>]
    /\ served = [t \in Threads |-> 0]

Goto(t, label) == pc' = [pc EXCEPT ![t] = label]

\* A new request of an ImmediateSubmit task, or the initialization of a window.
Start(t) ==
    /\ pc[t] = "idle"
    /\ IF t \in Windows
       THEN Goto(t, "acquire") /\ key' = key
       ELSE Goto(t, "find") /\ \E k \in Keys : key' = [key EXCEPT ![t] = k]
    /\ UNCHANGED <<replyVars, m_acquired, mapVars, poolVars, got, served, todo>>

--------------------------------------------------------------------------------

\* Take a read lock and look for the pool of the key.
ReadLock(t) ==
    /\ pc[t] = "find"
    /\ converter = NoThread
    /\ readers' = readers \cup {t}
    /\ Goto(t, "lookup")
    /\ UNCHANGED <<replyVars, m_acquired, converter, pools, poolVars, key, got, served, todo>>

Found(t) ==
    /\ pc[t] = "lookup"
    /\ key[t] \in Range(pools)
    /\ readers' = readers \ {t}
    /\ Goto(t, "get")
    /\ UNCHANGED <<replyVars, m_acquired, converter, pools, poolVars, key, got, served, todo>>

\* Mutant: the read lock is still held while waiting for the other conversion.
ConvertKeepsReadLock(t) ==
    /\ pc[t] = "lookup"
    /\ key[t] \notin Range(pools)
    /\ IF converter = NoThread
       THEN converter' = t /\ Goto(t, "insert")
       ELSE converter' = converter /\ Goto(t, "yield")
    /\ UNCHANGED <<replyVars, m_acquired, readers, pools, poolVars, key, got, served, todo>>

Convert(t) ==
    /\ pc[t] = "lookup"
    /\ key[t] \notin Range(pools)
    /\ IF converter = NoThread
       THEN converter' = t /\ readers' = readers /\ Goto(t, "insert")
       ELSE converter' = converter /\ readers' = readers \ {t} /\ Goto(t, "yield")
    /\ UNCHANGED <<replyVars, m_acquired, pools, poolVars, key, got, served, todo>>

Insert(t) ==
    /\ pc[t] = "insert"
    /\ readers \subseteq {t}
    /\ pools' = Append(pools, key[t])
    /\ readers' = readers \ {t} /\ converter' = NoThread
    /\ Goto(t, "get")
    /\ UNCHANGED <<replyVars, m_acquired, poolVars, key, got, served, todo>>

\* Mutant: after the other conversion, insert the key without looking again.
InsertAfterOther(t) ==
    /\ pc[t] = "yield"
    /\ converter = NoThread
    /\ converter' = t
    /\ Goto(t, "insert")
    /\ UNCHANGED <<replyVars, m_acquired, readers, pools, poolVars, key, got, served, todo>>

\* Wait until the other conversion is done, and start again.
Rd2WrYield(t) ==
    /\ pc[t] = "yield"
    /\ converter = NoThread
    /\ Goto(t, "find")
    /\ UNCHANGED <<replyVars, m_acquired, mapVars, poolVars, key, got, served, todo>>

Instance(t) == ReadLock(t) \/ Found(t) \/ Convert(t) \/ Insert(t) \/ Rd2WrYield(t)

--------------------------------------------------------------------------------

\* Mutant: two threads may be acquiring a queue for the same pool.
EnterWithoutLock(t) ==
    /\ pc[t] = "get"
    /\ Goto(t, "acquire")
    /\ UNCHANGED <<replyVars, m_acquired, mapVars, poolVars, key, got, served, todo>>

\* Maybe there are still queues: lock the mutex of the pool.
LockPool(t) ==
    /\ pc[t] = "get"
    /\ m_acquiring_queue[key[t]] = NoThread
    /\ m_acquiring_queue' = [m_acquiring_queue EXCEPT ![key[t]] = t]
    /\ Goto(t, "acquire")
    /\ UNCHANGED <<replyVars, m_acquired, mapVars, m_no_more_queues, tasks, m_next_task, key, got, served, todo>>

\* The lock, if it is held by t, is released.
Unlocked(t) ==
    [k \in Keys |-> IF m_acquiring_queue[k] = t THEN NoThread ELSE m_acquiring_queue[k]]

TheReply(t) == CHOOSE r \in RequestedReplies(device, replies, key[t]) : TRUE

HasReply(t) == Cardinality(RequestedReplies(device, replies, key[t])) = 1

\* QueueReply::acquire_queue.
FetchAdd(t) ==
    /\ pc[t] = "acquire"
    /\ HasReply(t)
    /\ LET reply == replies[TheReply(t)]
           next == m_acquired[TheReply(t)]
       IN  /\ m_acquired' = [m_acquired EXCEPT ![TheReply(t)] = next + 1]
           /\ IF next >= reply.number
              THEN got' = got /\ Goto(t, "too_many")
              ELSE got' = [got EXCEPT ![t] = Append(@, <<reply.family, reply.start + next>>)] /\ Goto(t, "acquired")
    /\ UNCHANGED <<replyVars, mapVars, poolVars, key, served, todo>>

\* Nothing was requested with both flags: SynchronousWindow::acquire_queues tries them
\* one after the other.
TrySeparately(t) ==
    /\ pc[t] = "acquire" /\ t \in Windows
    /\ NoSuchCombination(device, replies, key[t])
    /\ \E f \in key[t].flags : f = Graphics /\
          LET Only(flags) == [key[t] EXCEPT !.flags = flags]
          IN  /\ key' = [key EXCEPT ![t] = Only({f})]
              /\ todo' = [todo EXCEPT ![t] = <<Only(key[t].flags \ {f})>>]
    /\ UNCHANGED <<replyVars, m_acquired, mapVars, poolVars, pc, got, served>>

\* Any other exception leaves the caller without a queue.
AcquireFails(t) ==
    /\ pc[t] = "acquire"
    /\ ~HasReply(t) /\ ~NoSuchCombination(device, replies, key[t])
    /\ m_acquiring_queue' = Unlocked(t)
    /\ Goto(t, "failed")
    /\ UNCHANGED <<replyVars, m_acquired, mapVars, m_no_more_queues, tasks, m_next_task, key, got, served, todo>>

\* Mutant: the counter is set back to its last queue, instead of decremented.
SetBack(t) ==
    /\ pc[t] = "too_many"
    /\ m_acquired' = [m_acquired EXCEPT ![TheReply(t)] = replies[TheReply(t)].number - 1]
    /\ Goto(t, IF t \in Windows THEN "failed" ELSE "out_of_queues")
    /\ UNCHANGED <<replyVars, mapVars, poolVars, key, got, served, todo>>

\* Give the queue back.
SubtractOne(t) ==
    /\ pc[t] = "too_many"
    /\ m_acquired' = [m_acquired EXCEPT ![TheReply(t)] = @ - 1]
    /\ Goto(t, IF t \in Windows THEN "failed" ELSE "out_of_queues")
    /\ UNCHANGED <<replyVars, mapVars, poolVars, key, got, served, todo>>

\* Remember it and call get_immediate_submit_queue_task again, with the lock held.
OutOfQueues(t) ==
    /\ pc[t] = "out_of_queues"
    /\ m_no_more_queues' = [m_no_more_queues EXCEPT ![key[t]] = TRUE]
    /\ Goto(t, "rotate")
    /\ UNCHANGED <<replyVars, m_acquired, mapVars, m_acquiring_queue, tasks, m_next_task, key, got, served, todo>>

\* Run a new ImmediateSubmitQueue task for the queue and add it to the tasks.
Emplace(t) ==
    /\ pc[t] = "acquired" /\ t \in PoolThreads
    /\ tasks' = [tasks EXCEPT ![key[t]] = Append(@, Last(got[t]))]
    /\ m_acquiring_queue' = Unlocked(t)
    /\ served' = [served EXCEPT ![t] = @ + 1]
    /\ Goto(t, "done")
    /\ UNCHANGED <<replyVars, m_acquired, mapVars, m_no_more_queues, m_next_task, key, got, todo>>

\* A window keeps its queue, and acquires the next one if it needs two.
KeepQueue(t) ==
    /\ pc[t] = "acquired" /\ t \in Windows
    /\ IF todo[t] = <<>>
       THEN Goto(t, "done") /\ UNCHANGED <<key, todo>>
       ELSE /\ Goto(t, "acquire")
            /\ key' = [key EXCEPT ![t] = Head(todo[t])]
            /\ todo' = [todo EXCEPT ![t] = Tail(@)]
    /\ UNCHANGED <<replyVars, m_acquired, mapVars, poolVars, got, served>>

SkipAcquire(t) ==
    /\ pc[t] = "get"
    /\ m_no_more_queues[key[t]]
    /\ Goto(t, "rotate")
    /\ UNCHANGED <<replyVars, m_acquired, mapVars, poolVars, key, got, served, todo>>

\* Rotate over the existing tasks; without a task this is a division by zero.
Rotate(t) ==
    /\ pc[t] = "rotate"
    /\ tasks[key[t]] # <<>>
    /\ m_next_task' = [m_next_task EXCEPT ![key[t]] = (@ + 1) % Len(tasks[key[t]])]
    /\ got' = [got EXCEPT ![t] = <<tasks[key[t]][m_next_task'[key[t]] + 1]>>]
    /\ m_acquiring_queue' = Unlocked(t)
    /\ served' = [served EXCEPT ![t] = @ + 1]
    /\ Goto(t, "done")
    /\ UNCHANGED <<replyVars, m_acquired, mapVars, m_no_more_queues, tasks, key, todo>>

Again(t) ==
    /\ pc[t] = "done" /\ t \in PoolThreads
    /\ served[t] < MaxRequests
    /\ Goto(t, "idle")
    /\ got' = [got EXCEPT ![t] = <<>>]
    /\ UNCHANGED <<replyVars, m_acquired, mapVars, poolVars, key, served, todo>>

Acquire(t) == FetchAdd(t) \/ TrySeparately(t) \/ AcquireFails(t) \/ SubtractOne(t)

GetTask(t) ==
    \/ LockPool(t) \/ SkipAcquire(t) \/ OutOfQueues(t) \/ Emplace(t) \/ Rotate(t) \/ KeepQueue(t)

Next ==
    \E t \in Threads : Start(t) \/ Instance(t) \/ Acquire(t) \/ GetTask(t) \/ Again(t)

\* Every thread runs; as requests are bounded, who waits for a lock is not overtaken
\* forever.
Fairness ==
    \A t \in Threads : WF_vars(Start(t) \/ Instance(t) \/ Acquire(t) \/ GetTask(t))

Spec == Init /\ [][Next]_vars

FairSpec == Spec /\ Fairness

--------------------------------------------------------------------------------

\* A key is inserted once, however many threads ask for its pool at the same time:
\* who waited for another conversion looks again.  (QueuePool::instance, and
\* LogicalDevice::realize_descriptor_set_layout and realize_pipeline_layout.)
OnePoolPerKey == IsInjective(pools)

\* No queue of the device is handed out twice, within a reply or by two replies of
\* the same family, and none that the family does not have.  (StartIndex and
\* QueueReply::acquire_queue: an external synchronization requirement of VkQueue.)
QueuesExclusive ==
    LET Own(t) == IF pc[t] = "acquired" \/ t \in Windows THEN Range(got[t]) ELSE {}
    IN  /\ \A k \in Keys : IsInjective(tasks[k])
        /\ \A k, l \in Keys : k # l => Range(tasks[k]) \cap Range(tasks[l]) = {}
        /\ \A t \in Threads, k \in Keys : Own(t) \cap Range(tasks[k]) = {}
        /\ \A t, u \in Threads : t # u => Own(t) \cap Own(u) = {}
        /\ \A w \in Windows : IsInjective(got[w])
        /\ \A k \in Keys : \A q \in Range(tasks[k]) : q[2] < device[q[1]].count

\* When a pool stops acquiring, every queue of its reply is in the list of tasks or
\* belongs to a window: nobody is left between acquiring a queue and adding the task,
\* and the rotation has something to rotate over.  (The comment on m_acquiring_queue.)
NothingLeftBehind ==
    \A k \in Keys : m_no_more_queues[k] =>
        /\ tasks[k] # <<>>
        /\ \A t \in PoolThreads : key[t] = k => pc[t] # "acquired"

\* The keys that a window may acquire a queue for, once it tries its flags separately.
KeysOf(w) ==
    {WindowKey[w]} \cup
        {[flags |-> F, cookie |-> WindowKey[w].cookie] : F \in (SUBSET WindowKey[w].flags) \ {{}}}

\* Another pool has the queue, or is about to get it, or a window has it: one that
\* gets its queues from the same reply.
TakenByOther(k, r, q) ==
    LET Shares(l) == r \in RequestedReplies(device, replies, l)
    IN  \/ \E l \in Keys \ {k} : Shares(l) /\ q \in Range(tasks[l])
        \/ \E t \in PoolThreads : key[t] # k /\ Shares(key[t]) /\ pc[t] = "acquired" /\ q = Last(got[t])
        \/ \E w \in Windows : q \in Range(got[w]) /\ \E l \in KeysOf(w) : Shares(l)

\* When a pool stops acquiring its reply has no queue that nobody uses: each is in the
\* list of tasks, unless it was taken for another key that gets the same reply (with the
\* default cookie, for instance).  When they all were, the pool has no task at all.
NoQueueLost ==
    \A k \in Keys : m_no_more_queues[k] =>
        /\ \A t \in PoolThreads : key[t] = k => pc[t] # "acquired"
        /\ \E r \in RequestedReplies(device, replies, k) :
              /\ replies[r].number > 0
              /\ \A n \in 0 .. replies[r].number - 1 :
                    LET q == <<replies[r].family, replies[r].start + n>>
                    IN  q \in Range(tasks[k]) \/ TakenByOther(k, r, q)

\* Every request is served, also when conversions of the lock keep failing and when
\* the queues run out.
EveryRequestServed ==
    \A t \in PoolThreads : pc[t] = "find" ~> pc[t] = "done"
================================================================================
