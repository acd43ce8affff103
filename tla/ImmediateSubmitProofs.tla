----------------------- MODULE ImmediateSubmitProofs -----------------------
(* Proofs about ImmediateSubmit: for every number of tasks, command buffers and
   requests that are handled at once, every request is executed once and in the
   order of the deque, no command buffer is used for two requests at the same time,
   and the window, the tasks and the queue task outlive what the GPU still uses. *)
EXTENDS ImmediateSubmit, SequenceTheorems, FiniteSetTheorems, TLAPS

IteratorType == [pos : Nat \cup {Garbage}, map : Nat]
Live == {"pushed", "waiting"}

(* How many requests were recorded since the start of the program, ... *)
AllRecorded == popped + m_pending_requests

(* ... and how many of those still have to be submitted. *)
Unsubmitted == IF pc = "submit" THEN Cardinality(acquired) ELSE 0

(* How many requests were signalled, ... *)
Signalled == popped + processed

(* ... and how many gave their command buffer back. *)
Released == IF pc = "pop" THEN Signalled ELSE popped

(* The types of the history, of the iterators and of the semaphore. An iterator was
   made with a map that the deque had, and while it has its first one all are good. *)
DataTypes ==
  /\ arrived \in Seq(Tasks) /\ executed \in Seq(Tasks)
  /\ m_last_submitted \in IteratorType /\ first_submit \in IteratorType
  /\ m_last_submitted.map <= map /\ first_submit.map <= map
  /\ map = 0 => first_submit.pos # Garbage
  /\ submitted \in [{m_semaphore} -> Nat] /\ counter \in [{m_semaphore} -> Nat]
  /\ counter[m_semaphore] <= submitted[m_semaphore]
  /\ counter_value <= counter[m_semaphore]

(* A task makes one request, that stays in the deque until it is erased. The first
   ones are those whose task was signalled: also some that still have to be erased,
   while the queue task processes the pending requests. *)
Arrivals ==
  /\ \A i, j \in DOMAIN arrived : arrived[i] = arrived[j] => i = j
  /\ \A t \in Tasks : task[t] \in {"new", "aborted"} <=> \A i \in DOMAIN arrived : arrived[i] # t
  /\ popped + Len(m_new_data) = Len(arrived)
  /\ \A i \in DOMAIN m_new_data : m_new_data[i] = arrived[popped + i]
  /\ \A i \in DOMAIN arrived : arrived[i] \in submit_finished <=> i <= Signalled
  /\ processed > 0 => pc \in {"finished", "pop"}
  /\ \A t \in submit_finished : task[t] \notin {"new", "aborted"}
  /\ \A t \in Tasks : task[t] = "done" => t \in submit_finished

(* What was submitted is what was recorded, apart from a submit that is underway. *)
Executions ==
  /\ Unsubmitted <= m_pending_requests
  /\ Len(executed) = AllRecorded - Unsubmitted
  /\ \A i \in DOMAIN executed : executed[i] = arrived[i]

(* The iterators that are kept are where the new requests start, unless their node
   could not be found anymore. *)
Iterators ==
  /\ m_pending_requests > 0 => m_last_submitted.pos = AllRecorded - 1
  /\ pc \in {"process", "finished", "pop", "acquire"} =>
       /\ n + m_pending_requests <= Len(m_new_data)
       /\ first_submit.pos \in {AllRecorded, Garbage}
  /\ pc = "submit" => first_submit.pos = AllRecorded - Unsubmitted

(* The values of the requests never decrease along the deque, are reached for what
   was signalled, and are the next one for the submit that is underway. *)
Values ==
  /\ \A i \in 1..AllRecorded : signal_value[arrived[i]] > 0
  /\ \A i \in 1..AllRecorded - Unsubmitted : signal_value[arrived[i]] <= submitted[m_semaphore]
  /\ \A i \in AllRecorded - Unsubmitted + 1..AllRecorded : signal_value[arrived[i]] = next_value
  /\ \A i, j \in 1..AllRecorded : i <= j => signal_value[arrived[i]] <= signal_value[arrived[j]]
  /\ \A i \in 1..Signalled : signal_value[arrived[i]] <= counter[m_semaphore]

(* Every pending request has its own command buffer, until it gave it back. *)
Buffers ==
  /\ \A i \in Released + 1..AllRecorded : command_buffer[arrived[i]] \in CommandBuffers \ free
  /\ \A i, j \in Released + 1..AllRecorded :
       command_buffer[arrived[i]] = command_buffer[arrived[j]] => i = j

(* The gate of the window counts the tasks that have a request, and the queue task
   ends after the window. *)
Gate ==
  /\ m_task_counter_gate = Cardinality({t \in Tasks : task[t] \in Live})
  /\ window = "destructed" => m_task_counter_gate = 0
  /\ aborted => window = "destructed"
  /\ pc = "destroyed" => window = "destructed"

IInv == TypeOK /\ DataTypes /\ Arrivals /\ Executions /\ Iterators /\ Values /\ Buffers /\ Gate

USE ImmediateSubmitAssumption

---------------------------------------------------------------------------
(* The arithmetic that every step needs. *)
LEMMA Facts ==
  ASSUME IInv
  PROVE  /\ Len(arrived) \in Nat /\ DOMAIN arrived = 1..Len(arrived)
         /\ \A i \in 1..Len(arrived) : arrived[i] \in Tasks
         /\ Len(executed) \in Nat /\ DOMAIN executed = 1..Len(executed)
         /\ Len(m_new_data) \in Nat /\ DOMAIN m_new_data = 1..Len(m_new_data)
         /\ popped \in Nat /\ m_pending_requests \in Nat /\ n \in Nat
         /\ m_pending_requests <= Len(m_new_data)
         /\ popped + Len(m_new_data) = Len(arrived)
         /\ processed \in Nat /\ processed <= m_pending_requests
         /\ AllRecorded \in Nat /\ AllRecorded <= Len(arrived)
         /\ Signalled \in Nat /\ popped <= Signalled /\ Signalled <= AllRecorded
         /\ Released \in Nat /\ popped <= Released /\ Released <= Signalled
         /\ IsFiniteSet(acquired) /\ IsFiniteSet(free)
         /\ Unsubmitted \in Nat
         /\ submitted[m_semaphore] \in Nat /\ counter[m_semaphore] \in Nat
         /\ counter[m_semaphore] <= submitted[m_semaphore]
         /\ counter_value \in Nat /\ counter_value <= counter[m_semaphore]
         /\ next_value \in Nat
         /\ \A t \in Tasks : signal_value[t] \in Nat
<1>1. /\ arrived \in Seq(Tasks) /\ executed \in Seq(Tasks) /\ m_new_data \in Seq(Tasks)
      /\ acquired \subseteq CommandBuffers /\ free \subseteq CommandBuffers
      /\ popped \in Nat /\ m_pending_requests \in 0..Len(m_new_data) /\ n \in 0..Reserve
      /\ popped + Len(m_new_data) = Len(arrived)
      /\ submitted \in [{m_semaphore} -> Nat] /\ counter \in [{m_semaphore} -> Nat]
      /\ counter[m_semaphore] <= submitted[m_semaphore]
      /\ signal_value \in [Tasks -> Nat]
      /\ processed \in 0..m_pending_requests
      /\ counter_value \in Nat /\ counter_value <= counter[m_semaphore]
  BY DEF IInv, TypeOK, DataTypes, Arrivals
<1>2. /\ Len(arrived) \in Nat /\ DOMAIN arrived = 1..Len(arrived)
      /\ Len(executed) \in Nat /\ DOMAIN executed = 1..Len(executed)
      /\ Len(m_new_data) \in Nat /\ DOMAIN m_new_data = 1..Len(m_new_data)
      /\ \A i \in 1..Len(arrived) : arrived[i] \in Tasks
  BY <1>1, LenProperties, ElementOfSeq
<1>3. IsFiniteSet(acquired) /\ IsFiniteSet(free)
  BY <1>1, FS_Subset
<1>4. Unsubmitted \in Nat
  BY <1>3, FS_CardinalityType DEF Unsubmitted
<1>5. processed \in Nat /\ processed <= m_pending_requests BY <1>1, <1>2
<1> QED BY <1>1, <1>2, <1>3, <1>4, <1>5 DEF AllRecorded, Signalled, Released, next_value

(* The gate counts the tasks with a request: it is open when there are none. *)
LEMMA GateFacts ==
  ASSUME IInv
  PROVE  /\ IsFiniteSet({t \in Tasks : task[t] \in Live})
         /\ window = "destructed" => \A t \in Tasks : task[t] \notin Live
<1> DEFINE L == {t \in Tasks : task[t] \in Live}
<1>1. IsFiniteSet(L) BY FS_Subset
<1>2. Cardinality(L) = 0 => L = {} BY <1>1, FS_EmptySet
<1> QED BY <1>1, <1>2 DEF IInv, Gate

LEMMA InitIInv ==
  ASSUME Init PROVE IInv
<1> USE DEF Init, Notification!Init
<1>1. arrived = <<>> /\ executed = <<>> /\ m_new_data = <<>> /\ AllRecorded = 0
      /\ Signalled = 0 /\ Released = 0
      /\ DOMAIN arrived = {} /\ DOMAIN executed = {} /\ DOMAIN m_new_data = {}
  BY DEF AllRecorded, Signalled, Released
<1>2. TypeOK
  <2>1. {subscribed, idle, need_action, aborted} \subseteq BOOLEAN OBVIOUS
  <2>2. m_new_data \in Seq(Tasks) BY EmptySeq
  <2>3. m_pending_requests \in 0..Len(m_new_data) /\ processed \in 0..m_pending_requests BY <1>1
  <2> QED BY <2>1, <2>2, <2>3 DEF TypeOK
<1>3. DataTypes BY <1>1 DEF DataTypes, IteratorType, Garbage
<1>4. Arrivals BY <1>1 DEF Arrivals
<1>5. Executions /\ Iterators BY <1>1 DEF Executions, Iterators, Unsubmitted
<1>6. Values BY <1>1 DEF Values, Unsubmitted
<1>7. Buffers BY <1>1 DEF Buffers
<1>8. Gate
  <2>1. {t \in Tasks : task[t] \in Live} = {} BY DEF Live
  <2> QED BY <2>1, FS_EmptySet DEF Gate
<1> QED BY <1>2, <1>3, <1>4, <1>5, <1>6, <1>7, <1>8 DEF IInv

---------------------------------------------------------------------------
(* The booleans of the queue task, apart from the rest of its type. *)
LEMMA Booleans ==
  ASSUME TypeOK, [Next]_vars
  PROVE  ({subscribed, idle, need_action, aborted} \subseteq BOOLEAN)'
<1>1. subscribed \in BOOLEAN /\ idle \in BOOLEAN /\ need_action \in BOOLEAN /\ aborted \in BOOLEAN
  BY DEF TypeOK
<1>2. CASE UNCHANGED state /\ UNCHANGED pool /\ UNCHANGED aborted
  BY <1>1, <1>2 DEF state, pool
<1>3. CASE Queue
  <2>1. CASE front_n \/ acquire_nothing \/ record \/ submit \/ add_poll \/ abort_impl
    BY <1>1, <2>1 DEF front_n, acquire_nothing, record, submit, add_poll, abort_impl, pool
  <2>2. CASE get_counter_value \/ finished \/ release_processed \/ pop_front_n
    BY <1>1, <2>2 DEF get_counter_value, finished, release_processed, pop_front_n, release, pool, state
  <2>3. CASE wait
    BY <1>1, <2>3 DEF wait
  <2> QED BY <1>3, <2>1, <2>2, <2>3 DEF Queue
<1>4. ASSUME NEW t \in Tasks, CopyDataToGPU(t)
      PROVE  ({subscribed, idle, need_action, aborted} \subseteq BOOLEAN)'
  <2>1. CASE have_new_datum_signal(t)
    BY <1>1, <2>1 DEF have_new_datum_signal, SignalNeedAction, pool
  <2> QED BY <1>1, <1>4, <2>1 DEF CopyDataToGPU, have_new_datum, increment_throws, continue, state, pool
<1>5. CASE semaphore_watcher
  BY <1>1, <1>5 DEF semaphore_watcher, SignalNeedAction, pool
<1>6. CASE terminate \/ gpu \/ close \/ finish_impl \/ Terminated
  BY <1>1, <1>6 DEF terminate, gpu, close, finish_impl, Terminated, vars, state, pool
<1>7. CASE UNCHANGED vars
  BY <1>1, <1>7 DEF vars
<1> QED BY <1>3, <1>4, <1>5, <1>6, <1>7 DEF Next

(* Each part depends on a few variables only. *)
LEMMA Unchanged ==
  ASSUME IInv
  PROVE  /\ UNCHANGED <<arrived, executed, m_last_submitted, first_submit, map, submitted, counter,
                        counter_value>> => DataTypes'
         /\ UNCHANGED <<task, arrived, popped, m_new_data, submit_finished, processed>>
              /\ (processed = 0 \/ pc' \in {"finished", "pop"}) => Arrivals'
         /\ UNCHANGED <<popped, m_pending_requests, executed, arrived>> /\ Unsubmitted' = Unsubmitted => Executions'
         /\ UNCHANGED <<popped, m_pending_requests, processed, arrived, signal_value, submitted, counter>>
              /\ Unsubmitted' = Unsubmitted => Values'
         /\ UNCHANGED <<popped, m_pending_requests, arrived, command_buffer, free>>
              /\ Released' = Released => Buffers'
         /\ UNCHANGED <<window, m_task_counter_gate, task, aborted, pc>> => Gate'
<1>1. UNCHANGED <<arrived, executed, m_last_submitted, first_submit, map, submitted, counter,
                  counter_value>> => DataTypes'
  BY DEF IInv, DataTypes
<1>2. UNCHANGED <<task, arrived, popped, m_new_data, submit_finished, processed>>
        /\ (processed = 0 \/ pc' \in {"finished", "pop"}) => Arrivals'
  <2>1. ASSUME UNCHANGED <<popped, processed>> PROVE Signalled' = Signalled BY <2>1 DEF Signalled
  <2> QED BY <2>1 DEF IInv, Arrivals
<1>3. UNCHANGED <<popped, m_pending_requests, executed, arrived>> /\ Unsubmitted' = Unsubmitted => Executions'
  BY DEF IInv, Executions, AllRecorded
<1>4. UNCHANGED <<popped, m_pending_requests, processed, arrived, signal_value, submitted, counter>>
              /\ Unsubmitted' = Unsubmitted => Values'
  BY DEF IInv, Values, AllRecorded, Signalled, next_value
<1>5. UNCHANGED <<popped, m_pending_requests, arrived, command_buffer, free>>
        /\ Released' = Released => Buffers'
  BY DEF IInv, Buffers, AllRecorded
<1>6. UNCHANGED <<window, m_task_counter_gate, task, aborted, pc>> => Gate'
  BY DEF IInv, Gate
<1> QED BY <1>1, <1>2, <1>3, <1>4, <1>5, <1>6

(* Nothing is signalled or released by a step of another actor, nor by a step of the queue
   task when it isn't processing the pending requests. *)
LEMMA NotProcessing ==
  ASSUME IInv, UNCHANGED <<popped, processed>>,
         pc' = pc \/ (pc \notin {"finished", "pop"} /\ pc' # "pop")
  PROVE  Signalled' = Signalled /\ Released' = Released
<1>1. Signalled' = Signalled BY DEF Signalled
<1>2. CASE pc' = pc BY <1>1, <1>2 DEF Released
<1>3. CASE pc \notin {"finished", "pop"} /\ pc' # "pop" BY <1>1, <1>3 DEF Released
<1> QED BY <1>2, <1>3

---------------------------------------------------------------------------
(* The tasks that copy data. *)
LEMMA HaveNewDatum ==
  ASSUME IInv, [Next]_vars, NEW t \in Tasks, have_new_datum(t)
  PROVE  IInv'
<1> USE Facts
<1>1. /\ task[t] = "new" /\ task' = [task EXCEPT ![t] = "pushed"]
      /\ m_new_data' = Append(m_new_data, t) /\ arrived' = Append(arrived, t)
      /\ window # "destructed" /\ m_task_counter_gate' = m_task_counter_gate + 1
      /\ map' \in {map, map + 1}
      /\ UNCHANGED <<window, submit_finished, popped, command_buffer, signal_value, m_pending_requests,
                     m_last_submitted, first_submit, n, acquired, counter_value, processed, free, subscribed, pc, idle, need_action,
                     aborted, executed, submitted, counter, waiting, signalled, removed>>
  BY DEF have_new_datum, increment, request, locals, pool, state, semaphore
<1>2. /\ arrived' \in Seq(Tasks) /\ m_new_data' \in Seq(Tasks)
      /\ Len(arrived') = Len(arrived) + 1 /\ Len(m_new_data') = Len(m_new_data) + 1
      /\ DOMAIN arrived' = 1..Len(arrived) + 1 /\ DOMAIN m_new_data' = 1..Len(m_new_data) + 1
      /\ \A i \in 1..Len(arrived) : arrived'[i] = arrived[i]
      /\ \A i \in 1..Len(m_new_data) : m_new_data'[i] = m_new_data[i]
      /\ arrived'[Len(arrived) + 1] = t /\ m_new_data'[Len(m_new_data) + 1] = t
  <2>1. arrived \in Seq(Tasks) /\ m_new_data \in Seq(Tasks) BY DEF IInv, TypeOK, DataTypes
  <2> QED BY SMTT(30), <1>1, <2>1, AppendProperties, LenProperties
<1>3. TypeOK'
  <2>1. TypeOK BY DEF IInv
  <2>2. ({subscribed, idle, need_action, aborted} \subseteq BOOLEAN)' BY <2>1, Booleans
  <2>3. task' \in [Tasks -> {"new", "pushed", "waiting", "done", "aborted"}] BY <1>1, <2>1 DEF TypeOK
  <2>4. m_pending_requests' \in 0..Len(m_new_data') BY <1>1, <1>2
  <2> QED BY SMTT(30), <1>1, <1>2, <2>1, <2>2, <2>3, <2>4 DEF TypeOK
<1>4. DataTypes'
  <2>1. map \in Nat /\ map' \in Nat /\ map <= map' /\ (map' = 0 => map = 0) BY <1>1 DEF IInv, TypeOK
  <2>2. m_last_submitted.map \in Nat /\ first_submit.map \in Nat BY DEF IInv, DataTypes, IteratorType
  <2>3. m_last_submitted.map <= map' /\ first_submit.map <= map'
    <3>1. m_last_submitted.map <= map /\ first_submit.map <= map BY DEF IInv, DataTypes
    <3>2. \A a, b, c \in Nat : a <= b /\ b <= c => a <= c OBVIOUS
    <3> QED BY <2>1, <2>2, <3>1, <3>2
  <2> QED BY <1>1, <1>2, <2>1, <2>3 DEF IInv, DataTypes
<1>5. Arrivals'
  <2>1. \A i \in 1..Len(arrived) : arrived[i] # t
    BY <1>1 DEF IInv, Arrivals
  <2>2. t \notin submit_finished BY <1>1 DEF IInv, Arrivals
  <2>3. \A i, j \in DOMAIN arrived' : arrived'[i] = arrived'[j] => i = j
    <3>1. \A i, j \in 1..Len(arrived) : arrived[i] = arrived[j] => i = j BY DEF IInv, Arrivals
    <3> TAKE i, j \in DOMAIN arrived'
    <3>2. CASE i \in 1..Len(arrived) /\ j \in 1..Len(arrived) BY <1>2, <3>1, <3>2
    <3>3. CASE i \in 1..Len(arrived) /\ j = Len(arrived) + 1 BY <1>2, <2>1, <3>3
    <3>4. CASE j \in 1..Len(arrived) /\ i = Len(arrived) + 1 BY <1>2, <2>1, <3>4
    <3>5. CASE i = Len(arrived) + 1 /\ j = Len(arrived) + 1 BY <3>5
    <3> QED BY SMTT(30), <1>2, <3>2, <3>3, <3>4, <3>5
  <2>4. \A u \in Tasks : task'[u] \in {"new", "aborted"} <=> \A i \in DOMAIN arrived' : arrived'[i] # u
    <3> TAKE u \in Tasks
    <3>1. CASE u = t
      <4>1. task'[u] = "pushed" BY <1>1, <3>1 DEF IInv, TypeOK
      <4>2. Len(arrived) + 1 \in DOMAIN arrived' BY <1>2
      <4> QED BY <1>2, <3>1, <4>1, <4>2
    <3>2. CASE u # t
      <4>1. task'[u] = task[u] BY <1>1, <3>2 DEF IInv, TypeOK
      <4>2. task[u] \in {"new", "aborted"} <=> \A i \in 1..Len(arrived) : arrived[i] # u
        BY DEF IInv, Arrivals
      <4>3. (\A i \in 1..Len(arrived) + 1 : arrived'[i] # u) <=> \A i \in 1..Len(arrived) : arrived[i] # u
        <5>1. \A i \in 1..Len(arrived) : i \in 1..Len(arrived) + 1 /\ arrived'[i] = arrived[i] BY <1>2
        <5>2. \A i \in 1..Len(arrived) + 1 : i \in 1..Len(arrived) \/ arrived'[i] = t BY SMTT(30), <1>2
        <5>3. ASSUME \A i \in 1..Len(arrived) + 1 : arrived'[i] # u, NEW i \in 1..Len(arrived)
              PROVE  arrived[i] # u
          BY <5>1, <5>3
        <5>4. ASSUME \A i \in 1..Len(arrived) : arrived[i] # u, NEW i \in 1..Len(arrived) + 1
              PROVE  arrived'[i] # u
          BY <3>2, <5>1, <5>2, <5>4
        <5> QED BY <5>3, <5>4
      <4> QED BY <1>2, <4>1, <4>2, <4>3
    <3> QED BY <3>1, <3>2
  <2>5. (popped + Len(m_new_data) = Len(arrived))' BY SMTT(30), <1>1, <1>2
  <2>6. \A i \in DOMAIN m_new_data' : m_new_data'[i] = arrived'[popped' + i]
    <3> TAKE i \in DOMAIN m_new_data'
    <3>1. CASE i = Len(m_new_data) + 1 BY SMTT(30), <1>1, <1>2, <3>1
    <3>2. CASE i \in 1..Len(m_new_data)
      <4>1. popped + i \in 1..Len(arrived) BY SMTT(30), <3>2
      <4>2. m_new_data[i] = arrived[popped + i] BY <3>2 DEF IInv, Arrivals
      <4>3. m_new_data'[i] = m_new_data[i] BY <1>2, <3>2
      <4>4. arrived'[popped + i] = arrived[popped + i] BY <1>2, <4>1
      <4>5. popped' = popped BY <1>1
      <4> QED BY Zenon, <4>2, <4>3, <4>4, <4>5
    <3> QED BY SMTT(30), <1>2, <3>1, <3>2
  <2>7. \A i \in DOMAIN arrived' : arrived'[i] \in submit_finished' <=> i <= Signalled'
    <3>1. Signalled' = Signalled BY <1>1 DEF Signalled
    <3>2. ~(Len(arrived) + 1 <= Signalled) OBVIOUS
    <3>3. \A i \in 1..Len(arrived) : arrived[i] \in submit_finished <=> i <= Signalled BY DEF IInv, Arrivals
    <3> TAKE i \in DOMAIN arrived'
    <3>4. CASE i = Len(arrived) + 1 BY <1>1, <1>2, <2>2, <3>1, <3>2, <3>4
    <3>5. CASE i \in 1..Len(arrived) BY <1>1, <1>2, <3>1, <3>3, <3>5
    <3> QED BY SMTT(30), <1>2, <3>4, <3>5
  <2>8. \A u \in submit_finished' : task'[u] \notin {"new", "aborted"}
    BY <1>1, <2>2 DEF IInv, TypeOK, Arrivals
  <2>9. \A u \in Tasks : task'[u] = "done" => u \in submit_finished'
    BY <1>1 DEF IInv, TypeOK, Arrivals
  <2>10. processed' > 0 => pc' \in {"finished", "pop"} BY <1>1 DEF IInv, Arrivals
  <2> QED BY <2>3, <2>4, <2>5, <2>6, <2>7, <2>8, <2>9, <2>10 DEF Arrivals
<1>6. \A i \in 1..AllRecorded : i \in 1..Len(arrived) OBVIOUS
<1>7. /\ AllRecorded' = AllRecorded /\ Unsubmitted' = Unsubmitted /\ next_value' = next_value
      /\ Signalled' = Signalled /\ Released' = Released
  BY <1>1 DEF AllRecorded, Unsubmitted, next_value, Signalled, Released
<1>8. Executions'
  BY SMTT(30), <1>1, <1>2, <1>7 DEF IInv, Executions
<1>9. Iterators'
  <2>1. n' + m_pending_requests' <= Len(m_new_data) => n' + m_pending_requests' <= Len(m_new_data')
    <3>1. n' \in Nat /\ m_pending_requests' \in Nat BY <1>1
    <3>2. Len(m_new_data') = Len(m_new_data) + 1 /\ Len(m_new_data) \in Nat BY <1>2
    <3> HIDE Facts
    <3> QED BY SMTT(30), <3>1, <3>2
  <2>2. Iterators BY DEF IInv
  <2> HIDE Facts
  <2> QED BY SMTT(30), <1>1, <1>7, <2>1, <2>2 DEF Iterators
<1>10. Values'
  <2>1. \A i \in 1..AllRecorded : arrived'[i] = arrived[i] BY <1>2, <1>6
  <2>2. \A i \in 1..Signalled : i \in 1..AllRecorded OBVIOUS
  <2>3. Unsubmitted <= AllRecorded BY DEF IInv, Executions, AllRecorded
  <2>4. \A i \in 1..AllRecorded : signal_value'[arrived'[i]] = signal_value[arrived[i]] BY <1>1, <2>1
  <2>5. /\ \A i \in 1..AllRecorded - Unsubmitted : i \in 1..AllRecorded
        /\ \A i \in AllRecorded - Unsubmitted + 1..AllRecorded : i \in 1..AllRecorded
    BY SMTT(30), <2>3
  <2>6. Values BY DEF IInv
  <2>7. submitted' = submitted /\ counter' = counter BY <1>1
  <2> HIDE DEF AllRecorded, Unsubmitted, next_value
  <2> QED BY <1>7, <2>2, <2>4, <2>5, <2>6, <2>7 DEF Values
<1>11. Buffers'
  <2> DEFINE R == Released + 1..AllRecorded
  <2>1. Released' = Released /\ free' = free BY <1>1, <1>7
  <2>2. R' = R BY <1>7, <2>1
  <2>3. \A i \in R : i \in 1..AllRecorded OBVIOUS
  <2>4. Buffers BY DEF IInv
  <2>5. \A i \in R : command_buffer[arrived[i]] \in CommandBuffers \ free BY <2>4 DEF Buffers
  <2>6. \A i, j \in R : command_buffer[arrived[i]] = command_buffer[arrived[j]] => i = j BY <2>4 DEF Buffers
  <2> HIDE DEF AllRecorded, R
  <2>7. \A i \in R : arrived'[i] = arrived[i]
    <3> TAKE i \in R
    <3>1. i \in 1..Len(arrived) BY <1>6, <2>3
    <3> QED BY <1>2, <3>1
  <2>8. \A i \in R : command_buffer'[arrived'[i]] = command_buffer[arrived[i]] BY <1>1, <2>7
  <2>9. /\ \A i \in R' : command_buffer'[arrived'[i]] \in CommandBuffers \ free'
        /\ \A i, j \in R' : command_buffer'[arrived'[i]] = command_buffer'[arrived'[j]] => i = j
    BY SMTT(30), <2>1, <2>2, <2>5, <2>6, <2>8
  <2> QED BY <2>9 DEF Buffers, R
<1>12. Gate'
  <2> DEFINE L == {u \in Tasks : task[u] \in Live}
  <2>1. {u \in Tasks : task'[u] \in Live} = L \cup {t} BY <1>1 DEF IInv, TypeOK, Live
  <2>2. t \notin L BY <1>1 DEF Live
  <2>3. IsFiniteSet(L) BY GateFacts
  <2>4. Cardinality(L \cup {t}) = Cardinality(L) + 1 BY <2>2, <2>3, FS_AddElement
  <2> QED BY <1>1, <2>1, <2>4 DEF IInv, Gate
<1> QED BY <1>3, <1>4, <1>5, <1>8, <1>9, <1>10, <1>11, <1>12 DEF IInv

LEMMA IncrementThrows ==
  ASSUME IInv, [Next]_vars, NEW t \in Tasks, increment_throws(t)
  PROVE  IInv'
<1>1. /\ task[t] = "new" /\ task' = [task EXCEPT ![t] = "aborted"]
      /\ UNCHANGED <<window, m_task_counter_gate, submit_finished, m_new_data, popped, map, command_buffer,
                     signal_value, m_pending_requests, m_last_submitted, first_submit, n, acquired, counter_value,
                     processed, free,
                     pc, aborted, arrived, executed, submitted, counter>>
  BY DEF increment_throws, gate, deque, request, locals, pool, state, semaphore
<1>2. Unsubmitted' = Unsubmitted /\ Signalled' = Signalled /\ Released' = Released
  BY <1>1, NotProcessing DEF Unsubmitted
<1>3. TypeOK'
  <2>1. TypeOK BY DEF IInv
  <2>2. ({subscribed, idle, need_action, aborted} \subseteq BOOLEAN)' BY <2>1, Booleans
  <2> QED BY <1>1, <2>1, <2>2 DEF TypeOK
<1>4. DataTypes' /\ Executions' /\ Values' /\ Buffers' BY <1>1, <1>2, Unchanged
<1>5. Arrivals'
  <2>1. \A u \in Tasks : task'[u] = task[u] \/ (u = t /\ task'[u] = "aborted") BY <1>1 DEF IInv, TypeOK
  <2> QED BY <1>1, <1>2, <2>1 DEF IInv, Arrivals
<1>6. Iterators' BY <1>1, <1>2 DEF IInv, Iterators, AllRecorded
<1>7. Gate'
  <2>1. {u \in Tasks : task'[u] \in Live} = {u \in Tasks : task[u] \in Live}
    BY <1>1 DEF IInv, TypeOK, Live
  <2> QED BY <1>1, <2>1 DEF IInv, Gate
<1> QED BY <1>3, <1>4, <1>5, <1>6, <1>7 DEF IInv

LEMMA HaveNewDatumSignal ==
  ASSUME IInv, [Next]_vars, NEW t \in Tasks, have_new_datum_signal(t)
  PROVE  IInv'
<1>1. /\ task[t] = "pushed" /\ task' = [task EXCEPT ![t] = "waiting"]
      /\ UNCHANGED <<window, m_task_counter_gate, submit_finished, m_new_data, popped, map, command_buffer,
                     signal_value, m_pending_requests, m_last_submitted, first_submit, n, acquired, counter_value,
                     processed, free,
                     pc, aborted, arrived, executed, submitted, counter>>
  BY DEF have_new_datum_signal, gate, deque, request, locals, pool, semaphore
<1>2. Unsubmitted' = Unsubmitted /\ Signalled' = Signalled /\ Released' = Released
  BY <1>1, NotProcessing DEF Unsubmitted
<1>3. TypeOK'
  <2>1. TypeOK BY DEF IInv
  <2>2. ({subscribed, idle, need_action, aborted} \subseteq BOOLEAN)' BY <2>1, Booleans
  <2> QED BY <1>1, <2>1, <2>2 DEF TypeOK
<1>4. DataTypes' /\ Executions' /\ Values' /\ Buffers' BY <1>1, <1>2, Unchanged
<1>5. Arrivals'
  <2>1. \A u \in Tasks : task'[u] = task[u] \/ (task[u] = "pushed" /\ task'[u] = "waiting")
    BY <1>1 DEF IInv, TypeOK
  <2> QED BY <1>1, <1>2, <2>1 DEF IInv, Arrivals
<1>6. Iterators' BY <1>1, <1>2 DEF IInv, Iterators, AllRecorded
<1>7. Gate'
  <2>1. {u \in Tasks : task'[u] \in Live} = {u \in Tasks : task[u] \in Live}
    BY <1>1 DEF IInv, TypeOK, Live
  <2> QED BY <1>1, <2>1 DEF IInv, Gate
<1> QED BY <1>3, <1>4, <1>5, <1>6, <1>7 DEF IInv

LEMMA Continue ==
  ASSUME IInv, [Next]_vars, NEW t \in Tasks, continue(t)
  PROVE  IInv'
<1> USE Facts
<1>1. /\ task[t] = "waiting" /\ task' = [task EXCEPT ![t] = "done"] /\ t \in submit_finished
      /\ m_task_counter_gate' = m_task_counter_gate - 1
      /\ UNCHANGED <<window, submit_finished, m_new_data, popped, map, command_buffer, counter_value, processed,
                     signal_value, m_pending_requests, m_last_submitted, first_submit, n, acquired, free,
                     pc, aborted, arrived, executed, submitted, counter>>
  BY DEF continue, deque, request, locals, pool, state, semaphore
<1>2. Unsubmitted' = Unsubmitted /\ Signalled' = Signalled /\ Released' = Released
  BY <1>1, NotProcessing DEF Unsubmitted
<1>3. Gate' /\ m_task_counter_gate' \in Nat
  <2> DEFINE L == {u \in Tasks : task[u] \in Live}
  <2>1. {u \in Tasks : task'[u] \in Live} = L \ {t} BY <1>1 DEF IInv, TypeOK, Live
  <2>2. t \in L BY <1>1 DEF Live
  <2>3. IsFiniteSet(L) BY GateFacts
  <2>4. Cardinality(L \ {t}) = Cardinality(L) - 1 /\ IsFiniteSet(L \ {t}) BY <2>2, <2>3, FS_RemoveElement
  <2>5. m_task_counter_gate = Cardinality(L) BY DEF IInv, Gate
  <2>6. Cardinality(L \ {t}) \in Nat BY <2>4, FS_CardinalityType
  <2>7. window # "destructed" BY <2>2, GateFacts
  <2> HIDE DEF L
  <2>8. Gate'
    <3>1. m_task_counter_gate' = Cardinality({u \in Tasks : task'[u] \in Live})
      BY <1>1, <2>1, <2>4, <2>5
    <3> QED BY <1>1, <2>7, <3>1 DEF IInv, Gate
  <2> QED BY <1>1, <2>4, <2>5, <2>6, <2>8
<1>4. TypeOK'
  <2>1. TypeOK BY DEF IInv
  <2>2. ({subscribed, idle, need_action, aborted} \subseteq BOOLEAN)' BY <2>1, Booleans
  <2> QED BY <1>1, <1>3, <2>1, <2>2 DEF TypeOK
<1>5. DataTypes' /\ Executions' /\ Values' /\ Buffers' BY <1>1, <1>2, Unchanged
<1>6. Arrivals'
  <2>1. \A u \in Tasks : task'[u] = task[u] \/ (u = t /\ task[u] = "waiting" /\ task'[u] = "done")
    BY <1>1 DEF IInv, TypeOK
  <2> QED BY <1>1, <1>2, <2>1 DEF IInv, Arrivals
<1>7. Iterators' BY <1>1, <1>2 DEF IInv, Iterators, AllRecorded
<1> QED BY <1>3, <1>4, <1>5, <1>6, <1>7 DEF IInv

---------------------------------------------------------------------------
(* The window, the end of the queue task, the GPU and the semaphore watcher. *)
LEMMA Window ==
  ASSUME IInv, [Next]_vars, close \/ finish_impl \/ terminate
  PROVE  IInv'
<1>1. /\ window' \in {"open", "closing", "destructed"}
      /\ window' = "destructed" => m_task_counter_gate = 0
      /\ aborted' => window' = "destructed"
      /\ window = "destructed" => window' = "destructed"
      /\ UNCHANGED <<m_task_counter_gate, task, submit_finished, m_new_data, popped, map, command_buffer,
                     signal_value, m_pending_requests, m_last_submitted, first_submit, n, acquired, counter_value,
                     processed, free,
                     pc, arrived, executed, submitted, counter>>
  BY DEF IInv, Gate, close, finish_impl, terminate, gate, deque, request, locals, pool, state, semaphore
<1>2. Unsubmitted' = Unsubmitted /\ Signalled' = Signalled /\ Released' = Released
  BY <1>1, NotProcessing DEF Unsubmitted
<1>3. TypeOK'
  <2>1. TypeOK BY DEF IInv
  <2>2. ({subscribed, idle, need_action, aborted} \subseteq BOOLEAN)' BY <2>1, Booleans
  <2> QED BY <1>1, <2>1, <2>2 DEF TypeOK
<1>4. DataTypes' /\ Executions' /\ Values' /\ Buffers' BY <1>1, <1>2, Unchanged
<1>7. Arrivals' BY <1>1, <1>2 DEF IInv, Arrivals
<1>5. Iterators' BY <1>1, <1>2 DEF IInv, Iterators, AllRecorded
<1>6. Gate' BY <1>1 DEF IInv, Gate
<1> QED BY <1>3, <1>4, <1>5, <1>6, <1>7 DEF IInv

LEMMA AbortImpl ==
  ASSUME IInv, [Next]_vars, abort_impl
  PROVE  IInv'
<1> USE Facts
<1>1. /\ pc = "start" /\ pc' = "destroyed" /\ aborted
      /\ m_new_data' = <<>> /\ popped' = popped + Len(m_new_data)
      /\ UNCHANGED <<window, m_task_counter_gate, task, submit_finished, map, command_buffer, signal_value,
                     m_pending_requests, m_last_submitted, first_submit, n, acquired, counter_value, processed, free, aborted,
                     arrived, executed, submitted, counter>>
  BY DEF abort_impl, Run, Notification!RemovePoll, gate, request, locals, pool
<1>2. window = "destructed" BY <1>1 DEF IInv, Gate
<1>3. \A t \in Tasks : task[t] \notin Live BY <1>2, GateFacts
<1>4. \A i \in 1..Len(arrived) : arrived[i] \in submit_finished
  <2> TAKE i \in 1..Len(arrived)
  <2>1. arrived[i] \in Tasks OBVIOUS
  <2>2. task[arrived[i]] \notin {"new", "aborted"} BY <2>1 DEF IInv, Arrivals
  <2>3. task[arrived[i]] \in {"new", "pushed", "waiting", "done", "aborted"} BY <2>1 DEF IInv, TypeOK
  <2>4. task[arrived[i]] = "done" BY <1>3, <2>1, <2>2, <2>3 DEF Live
  <2> QED BY <2>1, <2>4 DEF IInv, Arrivals
<1>13. processed = 0 /\ Signalled = popped
  <2>1. processed = 0 BY <1>1 DEF IInv, Arrivals
  <2> QED BY <2>1 DEF Signalled
<1>5. Len(m_new_data) = 0
  <2>1. SUFFICES ASSUME Len(m_new_data) > 0 PROVE FALSE OBVIOUS
  <2>2. popped + 1 \in 1..Len(arrived) BY SMTT(30), <2>1
  <2>3. ~(popped + 1 <= Signalled) BY <1>13
  <2> QED BY <1>4, <2>2, <2>3 DEF IInv, Arrivals
<1>6. m_new_data = <<>>
  <2>1. m_new_data \in Seq(Tasks) BY DEF IInv, TypeOK
  <2> QED BY <1>5, <2>1, EmptySeq
<1>7. UNCHANGED <<m_new_data, popped>> BY <1>1, <1>5, <1>6
<1>8. Unsubmitted' = Unsubmitted /\ Signalled' = Signalled /\ Released' = Released
  BY <1>1, <1>7, NotProcessing DEF Unsubmitted
<1>9. TypeOK'
  <2>1. TypeOK BY DEF IInv
  <2>2. ({subscribed, idle, need_action, aborted} \subseteq BOOLEAN)' BY <2>1, Booleans
  <2> QED BY <1>1, <1>7, <2>1, <2>2 DEF TypeOK
<1>10. DataTypes' /\ Arrivals' /\ Executions' /\ Values' /\ Buffers' BY <1>1, <1>7, <1>8, <1>13, Unchanged
<1>11. Iterators' BY <1>1, <1>7, <1>8 DEF IInv, Iterators, AllRecorded
<1>12. Gate' BY <1>1, <1>2 DEF IInv, Gate
<1> QED BY <1>9, <1>10, <1>11, <1>12 DEF IInv

LEMMA Gpu ==
  ASSUME IInv, [Next]_vars, gpu \/ semaphore_watcher
  PROVE  IInv'
<1> USE Facts
<1>1. /\ \/ counter' = counter
         \/ /\ counter[m_semaphore] < submitted[m_semaphore]
            /\ counter' = [counter EXCEPT ![m_semaphore] = @ + 1]
      /\ UNCHANGED <<window, m_task_counter_gate, task, submit_finished, m_new_data, popped, map,
                     command_buffer, signal_value, m_pending_requests, m_last_submitted, first_submit, n,
                     acquired, counter_value, processed, free, pc, aborted, arrived, executed, submitted>>
  BY DEF gpu, semaphore_watcher, Notification!Advance, Notification!Notify,
         gate, deque, request, locals, pool, state
<1>2. /\ Unsubmitted' = Unsubmitted /\ AllRecorded' = AllRecorded /\ next_value' = next_value
      /\ Signalled' = Signalled /\ Released' = Released
  BY <1>1, NotProcessing DEF Unsubmitted, AllRecorded, next_value
<1>3. /\ counter' \in [{m_semaphore} -> Nat]
      /\ counter'[m_semaphore] <= submitted[m_semaphore] /\ counter[m_semaphore] <= counter'[m_semaphore]
  BY SMTT(30), <1>1 DEF IInv, DataTypes
<1>4. TypeOK'
  <2>1. TypeOK BY DEF IInv
  <2>2. ({subscribed, idle, need_action, aborted} \subseteq BOOLEAN)' BY <2>1, Booleans
  <2> QED BY <1>1, <2>1, <2>2 DEF TypeOK
<1>5. DataTypes'
  <2>1. counter'[m_semaphore] \in Nat BY <1>3
  <2>2. counter_value <= counter'[m_semaphore] BY <1>3, <2>1
  <2> QED BY <1>1, <1>3, <2>2 DEF IInv, DataTypes
<1>9. Arrivals' BY <1>1, <1>2 DEF IInv, Arrivals
<1>6. Executions' /\ Buffers' /\ Gate' BY <1>1, <1>2, Unchanged
<1>7. Iterators' BY <1>1, <1>2 DEF IInv, Iterators
<1>8. Values'
  <2>1. \A i \in 1..Signalled : signal_value[arrived[i]] <= counter'[m_semaphore]
    <3> TAKE i \in 1..Signalled
    <3>1. signal_value[arrived[i]] <= counter[m_semaphore] BY DEF IInv, Values
    <3>2. i \in 1..Len(arrived) OBVIOUS
    <3>3. signal_value[arrived[i]] \in Nat BY <3>2
    <3>4. counter'[m_semaphore] \in Nat BY <1>3
    <3> QED BY SMTT(30), <1>3, <3>1, <3>3, <3>4
  <2> QED BY <1>1, <1>2, <2>1 DEF IInv, Values
<1> QED BY <1>4, <1>5, <1>6, <1>7, <1>8, <1>9 DEF IInv

---------------------------------------------------------------------------
(* The queue task. *)
LEMMA AdvanceFacts ==
  ASSUME NEW it \in IteratorType, NEW k \in Int, it.pos # Garbage, it.pos + k >= 0
  PROVE  Advance(it, k) \in IteratorType /\ Advance(it, k).pos \in {it.pos + k, Garbage}
<1>1. it.pos \in Nat BY DEF IteratorType
<1>2. it.pos + k \in Nat BY <1>1
<1>3. [it EXCEPT !.pos = it.pos + k] \in IteratorType /\ [it EXCEPT !.pos = it.pos + k].pos = it.pos + k
  BY <1>2 DEF IteratorType
<1>4. [it EXCEPT !.pos = Garbage] \in IteratorType /\ [it EXCEPT !.pos = Garbage].pos = Garbage
  BY DEF IteratorType
<1>5. Advance(it, k) \in {[it EXCEPT !.pos = it.pos + k], [it EXCEPT !.pos = Garbage]}
  BY DEF Advance
<1> QED BY <1>3, <1>4, <1>5

(* As long as the map wasn't reallocated the next node is found. *)
LEMMA AdvanceMap ==
  ASSUME map \in Nat, NEW it \in IteratorType, NEW k \in Int, it.map <= map, it.pos + k >= 0
  PROVE  /\ Advance(it, k).map <= map
         /\ map = 0 => Advance(it, k).pos = it.pos + k
<1>1. it.map \in Nat BY DEF IteratorType
<1>2. Advance(it, k).map = it.map BY DEF Advance, IteratorType
<1>3. map = 0 => it.map = map BY <1>1
<1>4. it.map = map => Advance(it, k).pos = it.pos + k BY DEF Advance, IteratorType
<1> QED BY <1>2, <1>3, <1>4

LEMMA FrontN ==
  ASSUME IInv, [Next]_vars, front_n
  PROVE  IInv'
<1> USE Facts
<1> DEFINE size == Len(m_new_data)
           max == m_pending_requests + Reserve
<1>1. /\ pc = "start" /\ pc' = "process"
      /\ n' = (IF max <= size THEN max ELSE size) - m_pending_requests
      /\ first_submit' = IF m_pending_requests > 0 THEN Advance(m_last_submitted, 1) ELSE begin
      /\ UNCHANGED <<window, m_task_counter_gate, task, submit_finished, m_new_data, popped, map,
                     command_buffer, signal_value, m_pending_requests, m_last_submitted,
                     acquired, counter_value, processed, free, aborted, arrived, executed, submitted, counter>>
  BY DEF front_n, Run, gate, deque, request, pool, semaphore
<1>2. /\ Unsubmitted' = Unsubmitted /\ AllRecorded' = AllRecorded
      /\ Signalled' = Signalled /\ Released' = Released
  BY <1>1, NotProcessing DEF Unsubmitted, AllRecorded
<1>3. n' \in 0..Reserve /\ n' + m_pending_requests <= size
  <2>1. /\ Reserve \in Nat /\ m_pending_requests \in Nat /\ size \in Nat
        /\ m_pending_requests <= size
    OBVIOUS
  <2> HIDE Facts DEF size
  <2> QED BY SMTT(30), <1>1, <2>1
<1>4. first_submit' \in IteratorType /\ first_submit'.pos \in {AllRecorded, Garbage}
  <2>1. m_last_submitted \in IteratorType /\ map \in Nat BY DEF IInv, DataTypes, TypeOK
  <2>2. CASE m_pending_requests > 0
    <3>1. m_last_submitted.pos = AllRecorded - 1 BY <2>2 DEF IInv, Iterators
    <3>2. AllRecorded >= 1 BY <2>2 DEF AllRecorded
    <3>3. m_last_submitted.pos # Garbage /\ m_last_submitted.pos + 1 = AllRecorded
      BY <3>1, <3>2 DEF Garbage
    <3> HIDE DEF AllRecorded
    <3> QED BY SMTT(30), <1>1, <2>1, <2>2, <3>3, AdvanceFacts
  <2>3. CASE ~(m_pending_requests > 0)
    <3>1. begin \in IteratorType /\ begin.pos = popped BY <2>1 DEF begin, Iterator, IteratorType
    <3>2. AllRecorded = popped BY <2>3 DEF AllRecorded
    <3> QED BY <1>1, <2>3, <3>1, <3>2
  <2> QED BY <2>2, <2>3
<1>5. TypeOK'
  <2>1. TypeOK BY DEF IInv
  <2>2. ({subscribed, idle, need_action, aborted} \subseteq BOOLEAN)' BY <2>1, Booleans
  <2> QED BY <1>1, <1>3, <2>1, <2>2 DEF TypeOK
<1>10. first_submit'.map <= map /\ (map = 0 => first_submit'.pos # Garbage)
  <2>1. /\ map \in Nat /\ m_last_submitted \in IteratorType /\ m_last_submitted.map <= map
    BY DEF IInv, DataTypes, TypeOK
  <2>2. CASE m_pending_requests > 0
    <3>1. m_last_submitted.pos = AllRecorded - 1 BY <2>2 DEF IInv, Iterators
    <3>2. m_last_submitted.pos + 1 # Garbage /\ AllRecorded >= 1 BY SMTT(30), <2>2, <3>1 DEF Garbage, AllRecorded
    <3>3. m_last_submitted.pos # Garbage /\ m_last_submitted.pos + 1 >= 0 BY <3>1, <3>2 DEF Garbage
    <3>4. first_submit' = Advance(m_last_submitted, 1) BY <1>1, <2>2
    <3>5. first_submit'.map <= map BY SMTT(30), <2>1, <3>3, <3>4, AdvanceMap
    <3>6. map = 0 => first_submit'.pos = m_last_submitted.pos + 1 BY SMTT(30), <2>1, <3>3, <3>4, AdvanceMap
    <3> QED BY <3>2, <3>5, <3>6
  <2>3. CASE ~(m_pending_requests > 0)
    <3>1. first_submit' = [pos |-> popped, map |-> map] BY <1>1, <2>3 DEF begin, Iterator
    <3> QED BY SMTT(30), <2>1, <3>1 DEF Garbage
  <2> QED BY <2>2, <2>3
<1>6. DataTypes' BY <1>1, <1>4, <1>10 DEF IInv, DataTypes
<1>11. processed = 0 BY <1>1 DEF IInv, Arrivals
<1>7. Arrivals' /\ Executions' /\ Values' /\ Buffers' BY <1>1, <1>2, <1>11, Unchanged
<1>8. Iterators' BY <1>1, <1>2, <1>3, <1>4 DEF IInv, Iterators
<1>9. Gate' BY <1>1 DEF IInv, Gate
<1> QED BY <1>5, <1>6, <1>7, <1>8, <1>9 DEF IInv

(* What remains of a sequence when its first k elements are erased. *)
LEMMA DropPrefix ==
  ASSUME NEW S, NEW s \in Seq(S), NEW k \in 0..Len(s)
  PROVE  /\ SubSeq(s, k + 1, Len(s)) \in Seq(S)
         /\ Len(SubSeq(s, k + 1, Len(s))) = Len(s) - k
         /\ \A i \in 1..Len(s) - k : SubSeq(s, k + 1, Len(s))[i] = s[k + i]
<1> DEFINE m == k + 1
           l == Len(s)
<1>1. k \in Nat /\ l \in Nat /\ k <= l BY LenProperties
<1>2. m \in Int /\ l \in Int BY <1>1
<1>3. \A i \in m..l : s[i] \in S
  <2> TAKE i \in m..l
  <2>1. i \in 1..Len(s) BY <1>1
  <2> QED BY <2>1, ElementOfSeq
<1> HIDE DEF m, l
<1>4. /\ SubSeq(s, m, l) \in Seq(S)
      /\ Len(SubSeq(s, m, l)) = IF m <= l THEN l - m + 1 ELSE 0
      /\ \A i \in 1..l - m + 1 : SubSeq(s, m, l)[i] = s[m + i - 1]
  BY <1>2, <1>3, SubSeqProperties
<1>5. Len(SubSeq(s, m, l)) = l - k BY <1>1, <1>4 DEF m
<1>6. \A i \in 1..l - k : SubSeq(s, m, l)[i] = s[k + i]
  <2> TAKE i \in 1..l - k
  <2>1. i \in 1..l - m + 1 /\ m + i - 1 = k + i BY <1>1 DEF m
  <2> QED BY <1>4, <2>1
<1> QED BY <1>4, <1>5, <1>6 DEF m, l

(* The pending requests, by their place in the order of arrival. *)
LEMMA PendingRequests ==
  ASSUME IInv
  PROVE  \A i \in 1..m_pending_requests :
           /\ i \in 1..Len(m_new_data) /\ m_new_data[i] = arrived[popped + i] /\ m_new_data[i] \in Tasks
           /\ popped + i \in 1..Len(arrived) /\ popped + i \in 1..AllRecorded
<1> USE Facts
<1> TAKE i \in 1..m_pending_requests
<1>1. i \in 1..Len(m_new_data) OBVIOUS
<1>2. m_new_data[i] = arrived[popped + i] BY <1>1 DEF IInv, Arrivals
<1>3. popped + i \in 1..Len(arrived) /\ popped + i \in 1..AllRecorded BY SMTT(30), <1>1 DEF AllRecorded
<1> QED BY <1>1, <1>2, <1>3

LEMMA GetCounterValue ==
  ASSUME IInv, [Next]_vars, get_counter_value
  PROVE  IInv'
<1> USE Facts
<1>1. /\ pc = "process" /\ pc' \in {"finished", "acquire"}
      /\ counter_value' \in {counter_value, counter[m_semaphore]}
      /\ UNCHANGED <<window, m_task_counter_gate, task, submit_finished, m_new_data, popped, map,
                     command_buffer, signal_value, m_pending_requests, m_last_submitted, first_submit, n,
                     acquired, processed, free, aborted, arrived, executed, submitted, counter>>
  BY DEF get_counter_value, gate, deque, request, pool, semaphore
<1>2. /\ Unsubmitted' = Unsubmitted /\ AllRecorded' = AllRecorded
      /\ Signalled' = Signalled /\ Released' = Released
  BY <1>1, NotProcessing DEF Unsubmitted, AllRecorded
<1>3. processed = 0 BY <1>1 DEF IInv, Arrivals
<1>4. TypeOK'
  <2>1. TypeOK BY DEF IInv
  <2>2. ({subscribed, idle, need_action, aborted} \subseteq BOOLEAN)' BY <2>1, Booleans
  <2> QED BY <1>1, <2>1, <2>2 DEF TypeOK
<1>5. DataTypes' BY <1>1 DEF IInv, DataTypes
<1>6. Arrivals' /\ Executions' /\ Values' /\ Buffers' BY <1>1, <1>2, <1>3, Unchanged
<1>7. Iterators' BY <1>1, <1>2 DEF IInv, Iterators
<1>8. Gate' BY <1>1 DEF IInv, Gate
<1> QED BY <1>4, <1>5, <1>6, <1>7, <1>8 DEF IInv

LEMMA FinishedStep ==
  ASSUME IInv, [Next]_vars, finished
  PROVE  IInv'
<1> USE Facts
<1> DEFINE t == pending_request
<1>1. /\ pc = "finished" /\ pc' = "finished"
      /\ processed < m_pending_requests /\ counter_value >= signal_value[t]
      /\ submit_finished' = submit_finished \cup {t}
      /\ processed' = processed + 1
      /\ UNCHANGED <<window, m_task_counter_gate, task, m_new_data, popped, map,
                     command_buffer, signal_value, m_pending_requests, m_last_submitted, first_submit, n,
                     acquired, counter_value, free, aborted, arrived, executed, submitted, counter>>
  BY DEF finished, Reached, gate, deque, request, pool, state, semaphore
<1>2. /\ Unsubmitted' = Unsubmitted /\ AllRecorded' = AllRecorded /\ next_value' = next_value
      /\ Signalled' = Signalled + 1 /\ Released = popped /\ Released' = popped
  BY <1>1 DEF Unsubmitted, AllRecorded, Signalled, Released, next_value
<1>3. /\ t = arrived[Signalled + 1] /\ t \in Tasks
      /\ Signalled + 1 \in 1..Len(arrived) /\ Signalled + 1 \in 1..AllRecorded
  <2>1. processed + 1 \in 1..m_pending_requests BY SMTT(30), <1>1
  <2>2. popped + (processed + 1) = Signalled + 1 BY DEF Signalled
  <2> QED BY <2>1, <2>2, PendingRequests DEF pending_request
<1> HIDE DEF t
<1>4. TypeOK'
  <2>1. TypeOK BY DEF IInv
  <2>2. ({subscribed, idle, need_action, aborted} \subseteq BOOLEAN)' BY <2>1, Booleans
  <2>3. processed' \in 0..m_pending_requests' BY SMTT(30), <1>1
  <2>4. submit_finished' \subseteq Tasks BY <1>1, <1>3, <2>1 DEF TypeOK
  <2> QED BY <1>1, <2>1, <2>2, <2>3, <2>4 DEF TypeOK
<1>5. DataTypes' /\ Executions' /\ Buffers' BY <1>1, <1>2, Unchanged
<1>6. Arrivals'
  <2>1. \A i \in 1..Len(arrived) : arrived[i] \in submit_finished' <=> i <= Signalled'
    <3> TAKE i \in 1..Len(arrived)
    <3>1. arrived[i] \in submit_finished <=> i <= Signalled BY DEF IInv, Arrivals
    <3>2. arrived[i] = t <=> i = Signalled + 1 BY <1>3 DEF IInv, Arrivals
    <3>3. i <= Signalled \/ i = Signalled + 1 <=> i <= Signalled + 1 BY SMTT(30)
    <3> QED BY <1>1, <1>2, <3>1, <3>2, <3>3
  <2>2. task[t] \notin {"new", "aborted"} BY <1>3 DEF IInv, Arrivals
  <2> QED BY <1>1, <2>1, <2>2 DEF IInv, Arrivals
<1>7. Iterators' BY <1>1, <1>2 DEF IInv, Iterators
<1>8. Values'
  <2>1. \A i \in 1..Signalled + 1 : signal_value[arrived[i]] <= counter[m_semaphore]
    <3> TAKE i \in 1..Signalled + 1
    <3>1. CASE i \in 1..Signalled BY <3>1 DEF IInv, Values
    <3>2. CASE i = Signalled + 1
      <4>1. signal_value[t] \in Nat /\ counter_value >= signal_value[t] BY <1>1, <1>3
      <4> QED BY SMTT(30), <1>3, <3>2, <4>1
    <3> QED BY SMTT(30), <3>1, <3>2
  <2> QED BY <1>1, <1>2, <2>1 DEF IInv, Values
<1>9. Gate' BY <1>1 DEF IInv, Gate
<1> QED BY <1>4, <1>5, <1>6, <1>7, <1>8, <1>9 DEF IInv

LEMMA ReleaseProcessed ==
  ASSUME IInv, [Next]_vars, release_processed
  PROVE  IInv'
<1> USE Facts
<1> DEFINE released == {command_buffer[t] : t \in Processed}
<1>1. /\ pc = "finished"
      /\ \/ processed > 0 /\ pc' = "pop" /\ free' = free \cup released /\ counter_value' = counter_value
         \/ processed = 0 /\ pc' = "acquire" /\ free' = free /\ counter_value' = 0
      /\ UNCHANGED <<window, m_task_counter_gate, task, submit_finished, m_new_data, popped, map,
                     command_buffer, signal_value, m_pending_requests, m_last_submitted, first_submit, n,
                     acquired, processed, aborted, arrived, executed, submitted, counter>>
  BY DEF release_processed, release, gate, deque, request, pool, semaphore
<1>2. /\ Unsubmitted' = Unsubmitted /\ AllRecorded' = AllRecorded /\ next_value' = next_value
      /\ Signalled' = Signalled /\ Released = popped /\ Released' = Signalled
  BY <1>1 DEF Unsubmitted, AllRecorded, Signalled, Released, next_value
<1>3. Processed = {arrived[i] : i \in popped + 1..Signalled}
  <2>1. ASSUME NEW t \in Processed PROVE t \in {arrived[i] : i \in popped + 1..Signalled}
    <3>1. PICK i \in 1..processed : t = m_new_data[i] BY DEF Processed
    <3>2. popped + i \in popped + 1..Signalled /\ i \in 1..m_pending_requests BY SMTT(30) DEF Signalled
    <3> QED BY <3>1, <3>2, PendingRequests
  <2>2. ASSUME NEW i \in popped + 1..Signalled PROVE arrived[i] \in Processed
    <3>1. i - popped \in 1..processed /\ i - popped \in 1..m_pending_requests /\ popped + (i - popped) = i
      BY SMTT(30) DEF Signalled
    <3> QED BY <3>1, PendingRequests DEF Processed
  <2> QED BY <2>1, <2>2
<1>4. /\ \A i \in popped + 1..AllRecorded : command_buffer[arrived[i]] \in CommandBuffers \ free
      /\ \A i, j \in popped + 1..AllRecorded :
           command_buffer[arrived[i]] = command_buffer[arrived[j]] => i = j
  BY <1>2 DEF IInv, Buffers
<1>5. released \subseteq CommandBuffers
  <2>1. \A i \in popped + 1..Signalled : i \in popped + 1..AllRecorded OBVIOUS
  <2> QED BY SMTT(30), <1>3, <1>4, <2>1
<1>6. TypeOK'
  <2>1. TypeOK BY DEF IInv
  <2>2. ({subscribed, idle, need_action, aborted} \subseteq BOOLEAN)' BY <2>1, Booleans
  <2>3. free' \subseteq CommandBuffers /\ counter_value' \in Nat BY <1>1, <1>5, <2>1 DEF TypeOK
  <2>4. pc' \in {"pop", "acquire"} BY <1>1
  <2> HIDE DEF released
  <2> QED BY <1>1, <2>1, <2>2, <2>3, <2>4 DEF TypeOK
<1>7. DataTypes'
  <2>1. counter_value' <= counter[m_semaphore] BY <1>1
  <2> HIDE DEF released
  <2> QED BY <1>1, <2>1 DEF IInv, DataTypes
<1>8. Arrivals' /\ Executions' /\ Values' BY <1>1, <1>2, Unchanged
<1>9. Iterators' BY <1>1, <1>2 DEF IInv, Iterators
<1>10. Buffers'
  <2>1. \A i \in Signalled + 1..AllRecorded : i \in popped + 1..AllRecorded OBVIOUS
  <2>2. \A i \in Signalled + 1..AllRecorded : command_buffer[arrived[i]] \notin released
    <3> TAKE i \in Signalled + 1..AllRecorded
    <3>1. SUFFICES ASSUME NEW t \in Processed, command_buffer[arrived[i]] = command_buffer[t] PROVE FALSE
      OBVIOUS
    <3>2. PICK j \in popped + 1..Signalled : t = arrived[j] BY <1>3
    <3>3. j \in popped + 1..AllRecorded OBVIOUS
    <3>4. i = j BY <1>4, <2>1, <3>1, <3>2, <3>3
    <3> QED BY <3>4
  <2>3. free' \subseteq free \cup released BY <1>1
  <2>4. \A i \in Signalled + 1..AllRecorded : command_buffer[arrived[i]] \in CommandBuffers \ free'
    BY <1>4, <2>1, <2>2, <2>3
  <2>5. \A i, j \in Signalled + 1..AllRecorded :
          command_buffer[arrived[i]] = command_buffer[arrived[j]] => i = j
    BY <1>4, <2>1
  <2> QED BY <1>1, <1>2, <2>4, <2>5 DEF Buffers
<1>11. Gate' BY <1>1 DEF IInv, Gate
<1> QED BY <1>6, <1>7, <1>8, <1>9, <1>10, <1>11 DEF IInv

LEMMA PopFrontN ==
  ASSUME IInv, [Next]_vars, pop_front_n
  PROVE  IInv'
<1> USE Facts
<1> DEFINE k == processed
<1>1. /\ pc = "pop" /\ pc' = "acquire"
      /\ m_new_data' = SubSeq(m_new_data, k + 1, Len(m_new_data))
      /\ popped' = popped + k /\ m_pending_requests' = m_pending_requests - k
      /\ processed' = 0 /\ counter_value' = 0
      /\ command_buffer' = [t \in Tasks |-> IF t \in Processed THEN None ELSE command_buffer[t]]
      /\ UNCHANGED <<window, m_task_counter_gate, task, submit_finished, map, signal_value,
                     m_last_submitted, first_submit, n, acquired, free, aborted, arrived, executed,
                     submitted, counter>>
  BY DEF pop_front_n, Run, still_pending, gate, pool, semaphore
<1>2. /\ Unsubmitted = 0 /\ Unsubmitted' = 0 /\ AllRecorded' = AllRecorded /\ next_value' = next_value
      /\ Signalled' = Signalled /\ Released = Signalled /\ Released' = Signalled
      /\ Signalled = popped + k
  <2>1. Unsubmitted = 0 /\ Unsubmitted' = 0 /\ next_value' = next_value
    BY <1>1 DEF Unsubmitted, next_value
  <2>2. (popped + k) + (m_pending_requests - k) = popped + m_pending_requests /\ (popped + k) + 0 = popped + k
    OBVIOUS
  <2>3. AllRecorded' = AllRecorded BY <1>1, <2>2 DEF AllRecorded
  <2>4. Signalled = popped + k /\ Signalled' = popped + k BY <1>1, <2>2 DEF Signalled
  <2>5. Released = Signalled /\ Released' = Signalled BY <1>1, <2>4 DEF Released
  <2> QED BY <2>1, <2>3, <2>4, <2>5
<1>3. /\ k \in Nat /\ k <= m_pending_requests /\ k \in 0..Len(m_new_data)
      /\ popped + k \in Nat /\ m_pending_requests - k \in 0..Len(m_new_data) - k
      /\ m_pending_requests - k \in Nat
  <2>1. /\ k \in Nat /\ m_pending_requests \in Nat /\ Len(m_new_data) \in Nat /\ popped \in Nat
        /\ k <= m_pending_requests /\ m_pending_requests <= Len(m_new_data)
    OBVIOUS
  <2> HIDE DEF k
  <2> QED BY SMTT(30), <2>1
<1> HIDE DEF k
<1>4. /\ m_new_data' \in Seq(Tasks) /\ Len(m_new_data') = Len(m_new_data) - k
      /\ \A i \in 1..Len(m_new_data) - k : m_new_data'[i] = m_new_data[k + i]
  <2>1. m_new_data \in Seq(Tasks) BY DEF IInv, TypeOK
  <2> QED BY <1>1, <1>3, <2>1, DropPrefix
<1>5. TypeOK'
  <2>1. TypeOK BY DEF IInv
  <2>2. ({subscribed, idle, need_action, aborted} \subseteq BOOLEAN)' BY <2>1, Booleans
  <2>3. m_pending_requests' \in 0..Len(m_new_data') /\ popped' \in Nat
    <3> QED BY <1>1, <1>3, <1>4
  <2>4. processed' \in 0..m_pending_requests'
    <3>1. m_pending_requests' \in Nat /\ m_pending_requests' >= 0 BY <1>1, <1>3
    <3> QED BY <1>1, <3>1
  <2>5. command_buffer' \in [Tasks -> CommandBuffers \cup {None}] BY <1>1, <2>1 DEF TypeOK
  <2> QED BY <1>1, <1>4, <2>1, <2>2, <2>3, <2>4, <2>5 DEF TypeOK
<1>6. DataTypes'
  <2>1. counter_value' <= counter[m_semaphore] BY <1>1
  <2> QED BY <1>1, <2>1 DEF IInv, DataTypes
<1>7. Arrivals'
  <2>1. (popped + Len(m_new_data) = Len(arrived))'
    <3>1. (popped + k) + (Len(m_new_data) - k) = popped + Len(m_new_data) BY SMTT(30), <1>3
    <3> QED BY <1>1, <1>4, <3>1
  <2>2. \A i \in DOMAIN m_new_data' : m_new_data'[i] = arrived'[popped' + i]
    <3>1. DOMAIN m_new_data' = 1..Len(m_new_data) - k BY <1>4, LenProperties
    <3> SUFFICES ASSUME NEW i \in 1..Len(m_new_data) - k PROVE m_new_data'[i] = arrived'[popped' + i]
      BY <3>1
    <3>2. k + i \in 1..Len(m_new_data) /\ popped + (k + i) = (popped + k) + i
      <4>1. /\ k \in Nat /\ i \in Nat /\ popped \in Nat /\ Len(m_new_data) \in Nat
            /\ i >= 1 /\ i <= Len(m_new_data) - k
        BY <1>3
      <4> QED BY SMTT(30), <4>1
    <3>3. m_new_data[k + i] = arrived[popped + (k + i)] BY <3>2 DEF IInv, Arrivals
    <3> QED BY <1>1, <1>4, <3>2, <3>3
  <2>3. UNCHANGED <<arrived, task, submit_finished>> /\ Signalled' = Signalled /\ processed' = 0
    BY <1>1, <1>2
  <2>4. ~(processed' > 0) BY <2>3
  <2>5. Arrivals BY DEF IInv
  <2> QED BY <2>1, <2>2, <2>3, <2>4, <2>5 DEF Arrivals
<1>8. Executions' BY <1>1, <1>2, <1>3 DEF IInv, Executions
<1>9. Iterators'
  <2>1. m_pending_requests' > 0 => m_pending_requests > 0
    <3>1. m_pending_requests' = m_pending_requests - k /\ k \in Nat /\ m_pending_requests \in Nat BY <1>1, <1>3
    <3> HIDE Facts
    <3> QED BY SMTT(30), <3>1
  <2>2. n' + m_pending_requests' <= Len(m_new_data')
    <3>1. n \in Nat /\ m_pending_requests \in Nat /\ Len(m_new_data) \in Nat /\ k \in Nat
          /\ n + m_pending_requests <= Len(m_new_data)
      BY <1>1, <1>3 DEF IInv, Iterators
    <3> HIDE Facts
    <3> QED BY SMTT(30), <1>1, <1>4, <3>1
  <2>3. Iterators BY DEF IInv
  <2>4. m_pending_requests' > 0 => m_last_submitted'.pos = AllRecorded' - 1
    <3> HIDE Facts
    <3> QED BY SMTT(30), <1>1, <1>2, <2>1, <2>3 DEF Iterators
  <2>5. first_submit' \in {first_submit} /\ first_submit.pos \in {AllRecorded, Garbage} /\ pc' = "acquire"
    <3> HIDE Facts
    <3> QED BY SMTT(30), <1>1, <2>3 DEF Iterators
  <2> HIDE Facts
  <2> QED BY SMTT(30), <1>2, <2>2, <2>4, <2>5 DEF Iterators
<1>10. Values'
  <2>1. \A i \in 1..popped' : i \in 1..Signalled BY <1>1, <1>2
  <2> QED BY <1>1, <1>2 DEF IInv, Values
<1>11. Buffers'
  <2>1. /\ \A i \in Signalled + 1..AllRecorded : command_buffer[arrived[i]] \in CommandBuffers \ free
        /\ \A i, j \in Signalled + 1..AllRecorded :
             command_buffer[arrived[i]] = command_buffer[arrived[j]] => i = j
    BY <1>2 DEF IInv, Buffers
  <2>2. \A i \in Signalled + 1..AllRecorded :
          /\ i \in 1..Len(arrived) /\ arrived[i] \in Tasks /\ ~(i <= Signalled)
    BY SMTT(30)
  <2>3. Processed \subseteq submit_finished
    <3> SUFFICES ASSUME NEW i \in 1..processed PROVE m_new_data[i] \in submit_finished BY DEF Processed
    <3>1. i \in 1..m_pending_requests /\ popped + i <= Signalled BY SMTT(30) DEF Signalled
    <3> QED BY SMTT(30), <3>1, PendingRequests DEF IInv, Arrivals
  <2>4. \A i \in Signalled + 1..AllRecorded : arrived[i] \notin Processed BY <2>2, <2>3 DEF IInv, Arrivals
  <2>5. \A i \in Signalled + 1..AllRecorded : command_buffer'[arrived[i]] = command_buffer[arrived[i]]
    BY <1>1, <2>2, <2>4
  <2>6. /\ \A i \in Signalled + 1..AllRecorded : command_buffer'[arrived[i]] \in CommandBuffers \ free
        /\ \A i, j \in Signalled + 1..AllRecorded :
             command_buffer'[arrived[i]] = command_buffer'[arrived[j]] => i = j
    BY <2>1, <2>5
  <2>7. UNCHANGED <<arrived, free>> BY <1>1
  <2>8. Released' = Signalled /\ AllRecorded' = AllRecorded BY <1>2
  <2> HIDE DEF Signalled, AllRecorded, Released
  <2> QED BY <2>6, <2>7, <2>8 DEF Buffers
<1>12. Gate' BY <1>1 DEF IInv, Gate
<1> QED BY <1>5, <1>6, <1>7, <1>8, <1>9, <1>10, <1>11, <1>12 DEF IInv

LEMMA Idle ==
  ASSUME IInv, [Next]_vars, acquire_nothing \/ add_poll \/ wait
  PROVE  IInv'
<1>1. /\ pc \in {"acquire", "add_poll", "wait"} /\ pc' \in {"start", "wait"}
      /\ acquired' \in {{}, acquired} /\ free' = free
      /\ UNCHANGED <<window, m_task_counter_gate, task, submit_finished, m_new_data, popped, map,
                     command_buffer, signal_value, m_pending_requests, m_last_submitted, first_submit,
                     n, counter_value, processed, aborted, arrived, executed, submitted, counter>>
  BY DEF acquire_nothing, acquire, add_poll, wait, Run, Notification!AddPoll,
         gate, deque, request, locals, pool, semaphore
<1>2. /\ Unsubmitted' = Unsubmitted /\ AllRecorded' = AllRecorded
      /\ Signalled' = Signalled /\ Released' = Released /\ processed = 0
  <2>1. Signalled' = Signalled /\ Released' = Released BY <1>1, NotProcessing
  <2>2. processed = 0 BY <1>1, Facts DEF IInv, Arrivals
  <2> QED BY <1>1, <2>1, <2>2 DEF Unsubmitted, AllRecorded
<1>3. TypeOK'
  <2>1. TypeOK BY DEF IInv
  <2>2. ({subscribed, idle, need_action, aborted} \subseteq BOOLEAN)' BY <2>1, Booleans
  <2> QED BY <1>1, <2>1, <2>2 DEF TypeOK
<1>4. DataTypes' /\ Arrivals' /\ Executions' /\ Values' /\ Buffers' BY <1>1, <1>2, Unchanged
<1>5. Iterators' BY <1>1, <1>2 DEF IInv, Iterators
<1>6. Gate' BY <1>1 DEF IInv, Gate
<1> QED BY <1>3, <1>4, <1>5, <1>6 DEF IInv

(* The command buffers are handed out one to each request, in some order. *)
LEMMA HandedOut ==
  ASSUME NEW B, IsFiniteSet(B),
         NEW b, b = CHOOSE f \in [1..Cardinality(B) -> B] : {f[i] : i \in DOMAIN f} = B
  PROVE  /\ b \in [1..Cardinality(B) -> B]
         /\ \A i, j \in 1..Cardinality(B) : b[i] = b[j] => i = j
<1> DEFINE c == Cardinality(B)
<1>1. c \in Nat /\ ExistsBijection(1..c, B) BY FS_CardinalityType
<1>2. PICK f \in Bijection(1..c, B) : TRUE BY <1>1 DEF ExistsBijection
<1>3. f \in [1..c -> B] /\ \A x \in B : \E i \in 1..c : f[i] = x
  BY <1>2 DEF Bijection, Surjection
<1>4. {f[i] : i \in DOMAIN f} = B BY <1>3
<1>5. b \in [1..c -> B] /\ {b[i] : i \in DOMAIN b} = B
  <2>1. \E g \in [1..Cardinality(B) -> B] : {g[i] : i \in DOMAIN g} = B BY <1>3, <1>4
  <2> QED BY <2>1, Zenon
<1> HIDE DEF c
<1>6. b \in Surjection(1..c, B)
  <2>1. \A x \in B : \E i \in 1..c : b[i] = x BY <1>5
  <2> QED BY <1>5, <2>1 DEF Surjection
<1>7. IsFiniteSet(1..c) /\ Cardinality(1..c) = c BY <1>1, FS_Interval
<1>8. Cardinality(1..c) = Cardinality(B) BY <1>7 DEF c
<1>9. b \in Injection(1..c, B) BY <1>6, <1>7, <1>8, FS_SurjSameCardinalityImpliesInj
<1> QED BY <1>5, <1>9 DEF Injection, IsInjective, c

LEMMA Record ==
  ASSUME IInv, [Next]_vars, record
  PROVE  IInv'
<1> USE Facts
<1>1. PICK buffers \in (SUBSET free) \ {{}} :
        /\ acquire(buffers)
        /\ first_submit.pos # Garbage /\ LastRecorded(buffers).pos # Garbage
        /\ LET b == CHOOSE b \in [1..Cardinality(buffers) -> buffers] : {b[i] : i \in DOMAIN b} = buffers
               Index(t) == {i \in DOMAIN b : Recorded(i) = t}
           IN /\ command_buffer' = [t \in Tasks |->
                   IF Index(t) # {} THEN b[CHOOSE i \in Index(t) : TRUE] ELSE command_buffer[t]]
              /\ signal_value' = [t \in Tasks |->
                   IF Index(t) # {} THEN next_value ELSE signal_value[t]]
        /\ m_last_submitted' = LastRecorded(buffers)
        /\ m_pending_requests' = m_pending_requests + Cardinality(buffers)
  BY DEF record
<1> DEFINE c == Cardinality(buffers)
           b == CHOOSE f \in [1..c -> buffers] : {f[i] : i \in DOMAIN f} = buffers
           R == AllRecorded
<1>2. /\ pc = "acquire" /\ pc' = "submit"
      /\ UNCHANGED <<window, m_task_counter_gate, task, submit_finished, m_new_data, popped, map,
                     first_submit, n, counter_value, processed, aborted, arrived, executed, submitted, counter>>
  BY DEF record, Run, gate, deque, semaphore
<1>3. /\ IsFiniteSet(buffers) /\ c \in Nat \ {0} /\ c <= n
      /\ acquired' = buffers /\ free' = free \ buffers /\ buffers \subseteq CommandBuffers
  <2>1. buffers \subseteq free /\ buffers # {} BY <1>1
  <2>2. IsFiniteSet(buffers) BY <2>1, FS_Subset
  <2>3. c \in Nat /\ c # 0 BY <2>1, <2>2, FS_CardinalityType, FS_EmptySet
  <2>4. Cardinality(free) \in Nat BY FS_CardinalityType
  <2>5. c = (IF n <= Cardinality(free) THEN n ELSE Cardinality(free))
        /\ acquired' = buffers /\ free' = free \ buffers
    BY <1>1 DEF acquire
  <2>6. c <= n BY <2>4, <2>5
  <2> QED BY <2>1, <2>2, <2>3, <2>5, <2>6 DEF IInv, TypeOK
<1>4. /\ b \in [1..c -> buffers]
      /\ \A i, j \in 1..c : b[i] = b[j] => i = j
  BY <1>3, HandedOut
<1>5. /\ command_buffer' = [t \in Tasks |->
           IF {i \in DOMAIN b : Recorded(i) = t} # {}
             THEN b[CHOOSE i \in {i \in DOMAIN b : Recorded(i) = t} : TRUE] ELSE command_buffer[t]]
      /\ signal_value' = [t \in Tasks |->
           IF {i \in DOMAIN b : Recorded(i) = t} # {} THEN next_value ELSE signal_value[t]]
      /\ m_pending_requests' = m_pending_requests + c
  BY <1>1
<1> HIDE DEF c, b
<1>6. /\ first_submit \in IteratorType /\ first_submit.pos = R /\ R \in Nat
      /\ m_last_submitted' \in IteratorType /\ m_last_submitted'.pos = R + c - 1
      /\ R + c <= Len(arrived) /\ m_pending_requests + c <= Len(m_new_data)
  <2>1. first_submit \in IteratorType /\ R \in Nat BY DEF IInv, DataTypes
  <2>2. first_submit.pos = R BY <1>1, <1>2 DEF IInv, Iterators
  <2>3. n + m_pending_requests <= Len(m_new_data) BY <1>2 DEF IInv, Iterators
  <2>4. m_last_submitted' = Advance(first_submit, c - 1) BY <1>1 DEF LastRecorded, c
  <2>5. c - 1 \in Int /\ R + (c - 1) >= 0 BY <1>3, <2>1
  <2>6. m_last_submitted' \in IteratorType /\ m_last_submitted'.pos \in {R + (c - 1), Garbage}
    BY <1>1, <2>1, <2>2, <2>4, <2>5, AdvanceFacts
  <2>7. m_last_submitted'.pos # Garbage BY <1>1
  <2>8. m_last_submitted'.pos = R + c - 1 BY <1>3, <2>1, <2>6, <2>7
  <2>9. R + c <= Len(arrived) /\ m_pending_requests + c <= Len(m_new_data)
    BY SMTT(30), <1>3, <2>3 DEF AllRecorded
  <2> QED BY <2>1, <2>2, <2>6, <2>8, <2>9
<1>7. \A i \in 1..c : R + i \in 1..Len(arrived) /\ Recorded(i) = arrived[R + i]
  <2> TAKE i \in 1..c
  <2>1. i \in Nat /\ R + i \in 1..Len(arrived) BY SMTT(30), <1>3, <1>6
  <2>2. [first_submit EXCEPT !.pos = @ + i - 1].pos = R + i - 1 BY <1>6 DEF IteratorType
  <2>3. Recorded(i) = m_new_data[(R + i - 1) - popped + 1] BY <2>2 DEF Recorded, At
  <2>4. (R + i - 1) - popped + 1 = m_pending_requests + i
    <3>1. popped \in Nat /\ m_pending_requests \in Nat /\ i \in Nat BY <2>1
    <3>2. R = popped + m_pending_requests BY DEF AllRecorded
    <3> QED BY <3>1, <3>2
  <2>5. m_pending_requests + i \in 1..Len(m_new_data)
    <3>1. i >= 1 /\ i <= c /\ c \in Nat BY <1>3, <2>1
    <3>2. m_pending_requests \in Nat /\ Len(m_new_data) \in Nat /\ m_pending_requests + c <= Len(m_new_data)
      BY <1>6
    <3> QED BY <2>1, <3>1, <3>2
  <2>6. m_new_data[m_pending_requests + i] = arrived[popped + (m_pending_requests + i)]
    BY <2>5 DEF IInv, Arrivals
  <2>7. popped + (m_pending_requests + i) = R + i BY SMTT(30), <2>1 DEF AllRecorded
  <2> QED BY <2>1, <2>3, <2>4, <2>6, <2>7
<1>8. \A i, j \in 1..Len(arrived) : arrived[i] = arrived[j] => i = j
  <2>1. Arrivals /\ DOMAIN arrived = 1..Len(arrived) BY DEF IInv
  <2>2. \A i, j \in DOMAIN arrived : arrived[i] = arrived[j] => i = j BY <2>1 DEF Arrivals
  <2> QED BY <2>1, <2>2
<1>9. \A i \in 1..c : /\ command_buffer'[arrived[R + i]] = b[i]
                      /\ signal_value'[arrived[R + i]] = next_value
  <2> TAKE i \in 1..c
  <2> DEFINE t == arrived[R + i]
             Index == {j \in DOMAIN b : Recorded(j) = t}
  <2>1. DOMAIN b = 1..c /\ t \in Tasks BY <1>4, <1>7
  <2>2. i \in Index BY <1>7, <2>1
  <2>3. \A j \in Index : j = i
    <3> TAKE j \in Index
    <3>1. j \in 1..c /\ arrived[R + j] = arrived[R + i] BY <1>7, <2>1
    <3>2. R + j = R + i BY <1>7, <1>8, <3>1
    <3>3. j \in Int /\ i \in Int /\ R \in Int BY <1>3, <1>6, <3>1
    <3> HIDE DEF R
    <3> QED BY <3>2, <3>3
  <2>4. (CHOOSE j \in Index : TRUE) = i BY <2>2, <2>3
  <2>5. Index # {} BY <2>2
  <2>6. /\ command_buffer'[t] = IF Index # {} THEN b[CHOOSE j \in Index : TRUE] ELSE command_buffer[t]
        /\ signal_value'[t] = IF Index # {} THEN next_value ELSE signal_value[t]
    BY <1>5, <2>1
  <2> QED BY <2>4, <2>5, <2>6
<1>10. \A i \in 1..R : /\ i \in 1..Len(arrived)
                       /\ command_buffer'[arrived[i]] = command_buffer[arrived[i]]
                       /\ signal_value'[arrived[i]] = signal_value[arrived[i]]
  <2> TAKE i \in 1..R
  <2>1. i \in 1..Len(arrived) /\ arrived[i] \in Tasks BY <1>6
  <2>2. {j \in DOMAIN b : Recorded(j) = arrived[i]} = {}
    <3>1. SUFFICES ASSUME NEW j \in 1..c, Recorded(j) = arrived[i] PROVE FALSE BY <1>4
    <3>2. R + j = i BY <1>7, <1>8, <2>1, <3>1
    <3> QED BY <1>3, <1>6, <3>2
  <2> QED BY <1>5, <2>1, <2>2
<1>11. /\ AllRecorded' = R + c /\ Unsubmitted' = c /\ Unsubmitted = 0 /\ next_value' = next_value
       /\ Signalled' = Signalled /\ Released' = Released
  <2>1. Signalled' = Signalled /\ Released' = Released BY <1>2, NotProcessing
  <2> QED BY <1>1, <1>2, <1>3, <1>5, <2>1 DEF AllRecorded, Unsubmitted, next_value, c
<1>12. TypeOK'
  <2>1. TypeOK BY DEF IInv
  <2>2. ({subscribed, idle, need_action, aborted} \subseteq BOOLEAN)' BY <2>1, Booleans
  <2>3. command_buffer' \in [Tasks -> CommandBuffers \cup {None}]
    <3>1. \A t \in Tasks : command_buffer[t] \in CommandBuffers \cup {None} BY <2>1 DEF TypeOK
    <3>2. SUFFICES ASSUME NEW t \in Tasks PROVE command_buffer'[t] \in CommandBuffers \cup {None}
      BY <1>5
    <3>3. CASE \E i \in DOMAIN b : Recorded(i) = t
      <4>1. PICK i \in 1..c : arrived[R + i] = t BY <1>4, <1>7, <3>3
      <4> QED BY <1>3, <1>4, <1>9, <4>1
    <3>4. CASE ~\E i \in DOMAIN b : Recorded(i) = t
      <4>1. {i \in DOMAIN b : Recorded(i) = t} = {} BY <3>4
      <4> QED BY <1>5, <3>1, <4>1
    <3> QED BY <3>3, <3>4
  <2>4. signal_value' \in [Tasks -> Nat] BY <1>5
  <2>5. m_pending_requests' \in 0..Len(m_new_data') /\ processed' \in 0..m_pending_requests'
    <3>1. /\ m_pending_requests \in Nat /\ c \in Nat /\ Len(m_new_data) \in Nat
          /\ m_pending_requests + c <= Len(m_new_data)
          /\ processed \in Nat /\ processed <= m_pending_requests
      BY <1>3, <1>6
    <3>2. m_pending_requests + c \in 0..Len(m_new_data) /\ processed \in 0..m_pending_requests + c BY <3>1
    <3> QED BY <1>2, <1>5, <3>2
  <2> QED BY <1>2, <1>3, <2>1, <2>2, <2>3, <2>4, <2>5 DEF TypeOK
<1>26. m_last_submitted'.map <= map
  <2>1. m_last_submitted' = Advance(first_submit, c - 1) BY <1>1 DEF LastRecorded, c
  <2>2. map \in Nat /\ first_submit.map <= map BY DEF IInv, TypeOK, DataTypes
  <2>3. c - 1 \in Int /\ first_submit.pos + (c - 1) >= 0
    <3>1. c \in Nat /\ c >= 1 /\ first_submit.pos = R /\ R \in Nat BY <1>3, <1>6
    <3> HIDE DEF c, R
    <3> QED BY <3>1
  <2> HIDE DEF c, R
  <2> QED BY <1>6, <2>1, <2>2, <2>3, AdvanceMap
<1>13. DataTypes' BY <1>2, <1>6, <1>26 DEF IInv, DataTypes
<1>27. processed = 0 BY <1>2 DEF IInv, Arrivals
<1>14. Arrivals' BY <1>2, <1>27, Unchanged
<1>15. Executions'
  <2>1. c <= m_pending_requests' /\ (R + c) - c = R - 0 BY SMTT(30), <1>3, <1>5, <1>6
  <2> QED BY <1>2, <1>11, <2>1 DEF IInv, Executions
<1>16. Iterators'
  <2>1. first_submit'.pos = AllRecorded' - Unsubmitted'
    <3>1. (R + c) - c = R BY <1>3, <1>6
    <3> QED BY <1>2, <1>6, <1>11, <3>1
  <2>2. m_last_submitted'.pos = AllRecorded' - 1
    <3>1. m_last_submitted'.pos = R + c - 1 /\ R \in Nat /\ c \in Nat BY <1>3, <1>6
    <3>2. AllRecorded' = R + c BY <1>11
    <3> HIDE DEF R
    <3> QED BY SMTT(30), <3>1, <3>2
  <2> QED BY <1>2, <2>1, <2>2 DEF Iterators
<1>17. /\ \A i \in 1..R : /\ signal_value[arrived[i]] > 0
                          /\ signal_value[arrived[i]] <= submitted[m_semaphore]
       /\ \A i, j \in 1..R : i <= j => signal_value[arrived[i]] <= signal_value[arrived[j]]
       /\ \A i \in 1..Signalled : signal_value[arrived[i]] <= counter[m_semaphore]
  BY <1>6, <1>11 DEF IInv, Values
<1>18. \A i \in R + 1..R + c : i - R \in 1..c /\ R + (i - R) = i
  <2>1. R \in Nat /\ c \in Nat BY <1>3, <1>6
  <2> HIDE DEF R
  <2> QED BY SMTT(30), <2>1
<1>19. \A i \in R + 1..R + c : /\ command_buffer'[arrived[i]] = b[i - R]
                               /\ signal_value'[arrived[i]] = next_value
  BY SMTT(30), <1>9, <1>18
<1>20. \A i \in 1..R + c : i \in 1..R \/ i \in R + 1..R + c BY <1>3, <1>6
<1>21. \A i \in 1..R : signal_value[arrived[i]] \in Nat BY <1>10
<1>22. next_value = submitted[m_semaphore] + 1 BY DEF next_value
<1>23. Values'
  <2>1. \A i \in 1..R + c : signal_value'[arrived[i]] > 0
    <3> TAKE i \in 1..R + c
    <3>1. CASE i \in 1..R BY <1>10, <1>17, <3>1
    <3>2. CASE i \in R + 1..R + c
      <4>1. signal_value'[arrived[i]] = submitted[m_semaphore] + 1 BY <1>19, <1>22, <3>2
      <4> QED BY <4>1
    <3> QED BY <1>20, <3>1, <3>2
  <2>2. \A i \in 1..R : signal_value'[arrived[i]] <= submitted[m_semaphore]
    BY <1>10, <1>17
  <2>3. \A i, j \in 1..R + c : i <= j => signal_value'[arrived[i]] <= signal_value'[arrived[j]]
    <3> TAKE i, j \in 1..R + c
    <3>1. HAVE i <= j
    <3>2. CASE i \in 1..R /\ j \in 1..R BY <1>10, <1>17, <3>1, <3>2
    <3>3. CASE i \in 1..R /\ j \in R + 1..R + c
      <4>1. signal_value'[arrived[i]] <= submitted[m_semaphore] /\ signal_value'[arrived[i]] \in Nat
        BY <1>10, <1>17, <1>21, <3>3
      <4>2. signal_value'[arrived[j]] = submitted[m_semaphore] + 1 BY <1>19, <1>22, <3>3
      <4> QED BY SMTT(30), <4>1, <4>2
    <3>4. CASE i \in R + 1..R + c /\ j \in R + 1..R + c BY SMTT(30), <1>19, <1>22, <3>4
    <3>5. ~(i \in R + 1..R + c /\ j \in 1..R) BY <1>6, <3>1
    <3> QED BY <1>20, <3>2, <3>3, <3>4, <3>5
  <2>4. \A i \in 1..Signalled : signal_value'[arrived[i]] <= counter[m_semaphore]
    <3>1. \A i \in 1..Signalled : i \in 1..R OBVIOUS
    <3> QED BY <1>10, <1>17, <3>1
  <2>5. (R + c) - c = R BY <1>3, <1>6
  <2> HIDE DEF R
  <2> QED BY <1>2, <1>11, <1>19, <2>1, <2>2, <2>3, <2>4, <2>5 DEF Values
<1>24. Buffers'
  <2>1. \A i \in Released + 1..R : command_buffer[arrived[i]] \in CommandBuffers \ free
    BY DEF IInv, Buffers
  <2>2. \A i, j \in Released + 1..R :
          command_buffer[arrived[i]] = command_buffer[arrived[j]] => i = j
    BY DEF IInv, Buffers
  <2>3. \A i \in Released + 1..R : i \in 1..R OBVIOUS
  <2>4. \A i \in Released + 1..R : command_buffer'[arrived[i]] = command_buffer[arrived[i]] BY <1>10, <2>3
  <2>5. \A i \in R + 1..R + c : command_buffer'[arrived[i]] \in buffers BY SMTT(30), <1>4, <1>18, <1>19
  <2>6. \A i \in Released + 1..R + c : i \in Released + 1..R \/ i \in R + 1..R + c
    <3>1. Released \in Nat /\ R \in Nat /\ c \in Nat BY <1>3, <1>6
    <3> HIDE DEF R, c
    <3> QED BY SMTT(30), <3>1
  <2>7. buffers \subseteq free /\ buffers \subseteq CommandBuffers BY <1>1, <1>3
  <2>8. \A i \in Released + 1..R + c : command_buffer'[arrived[i]] \in CommandBuffers \ free'
    BY <1>3, <2>1, <2>4, <2>5, <2>6, <2>7
  <2>9. \A i, j \in Released + 1..R + c : command_buffer'[arrived[i]] = command_buffer'[arrived[j]] => i = j
    <3> TAKE i, j \in Released + 1..R + c
    <3>1. HAVE command_buffer'[arrived[i]] = command_buffer'[arrived[j]]
    <3>2. CASE i \in Released + 1..R /\ j \in Released + 1..R BY <2>2, <2>4, <3>1, <3>2
    <3>3. CASE i \in Released + 1..R /\ j \in R + 1..R + c BY <2>1, <2>4, <2>5, <2>7, <3>1, <3>3
    <3>4. CASE i \in R + 1..R + c /\ j \in Released + 1..R BY <2>1, <2>4, <2>5, <2>7, <3>1, <3>4
    <3>5. CASE i \in R + 1..R + c /\ j \in R + 1..R + c
      <4>1. b[i - R] = b[j - R] BY <1>19, <3>1, <3>5
      <4>2. i - R = j - R BY <1>4, <1>18, <3>5, <4>1
      <4> QED BY <1>18, <3>5, <4>2
    <3> QED BY <2>6, <3>2, <3>3, <3>4, <3>5
  <2> QED BY <1>2, <1>11, <2>8, <2>9 DEF Buffers
<1>25. Gate' BY <1>2 DEF IInv, Gate
<1> QED BY <1>12, <1>13, <1>14, <1>15, <1>16, <1>23, <1>24, <1>25 DEF IInv

LEMMA SubmitStep ==
  ASSUME IInv, [Next]_vars, submit
  PROVE  IInv'
<1> USE Facts
<1> DEFINE c == Cardinality(acquired)
           R == AllRecorded
           r == [i \in 1..c |-> Recorded(i)]
<1>1. /\ pc = "submit" /\ pc' = "add_poll" /\ executed' = executed \o r
      /\ submitted' = [submitted EXCEPT ![m_semaphore] = @ + 1]
      /\ UNCHANGED <<window, m_task_counter_gate, task, submit_finished, m_new_data, popped, map,
                     command_buffer, signal_value, m_pending_requests, m_last_submitted, first_submit,
                     n, acquired, counter_value, processed, free, aborted, arrived, counter>>
  BY DEF submit, Run, Notification!Submit, gate, deque, request, locals, pool
<1>2. /\ c \in Nat /\ R \in Nat /\ c <= m_pending_requests /\ Unsubmitted = c /\ Unsubmitted' = 0
      /\ AllRecorded' = R
      /\ Len(executed) = R - c /\ first_submit.pos = R - c /\ first_submit \in IteratorType
  <2>1. c \in Nat BY FS_CardinalityType
  <2>2. Unsubmitted = c /\ Unsubmitted' = 0 BY <1>1 DEF Unsubmitted
  <2>3. AllRecorded' = R BY <1>1 DEF AllRecorded
  <2>4. c <= m_pending_requests /\ Len(executed) = R - c BY <2>2 DEF IInv, Executions
  <2>5. first_submit.pos = R - c BY <1>1, <2>2 DEF IInv, Iterators
  <2>6. first_submit \in IteratorType BY DEF IInv, DataTypes
  <2> QED BY <2>1, <2>2, <2>3, <2>4, <2>5, <2>6
<1>3. \A i \in 1..c : Recorded(i) = arrived[Len(executed) + i] /\ Len(executed) + i \in 1..R
  <2> TAKE i \in 1..c
  <2>1. i \in Nat /\ i >= 1 /\ i <= c BY <1>2
  <2>2. [first_submit EXCEPT !.pos = @ + i - 1].pos = (R - c) + i - 1 BY <1>2 DEF IteratorType
  <2>3. Recorded(i) = m_new_data[((R - c) + i - 1) - popped + 1] BY <2>2 DEF Recorded, At
  <2> DEFINE j == m_pending_requests - c + i
  <2>4. R = popped + m_pending_requests /\ popped \in Nat /\ m_pending_requests \in Nat
        /\ Len(m_new_data) \in Nat /\ m_pending_requests <= Len(m_new_data)
    BY DEF AllRecorded
  <2>5. ((R - c) + i - 1) - popped + 1 = j /\ popped + j = (R - c) + i BY SMTT(30), <1>2, <2>1, <2>4
  <2>6. j \in 1..Len(m_new_data) BY SMTT(30), <1>2, <2>1, <2>4
  <2> HIDE DEF j, R
  <2>7. m_new_data[j] = arrived[popped + j] BY <2>6 DEF IInv, Arrivals
  <2>8. (R - c) + i \in 1..R
    <3>1. c \in Nat /\ R \in Nat /\ c <= R BY <1>2, <2>4
    <3> HIDE DEF c
    <3> QED BY SMTT(30), <2>1, <3>1
  <2> QED BY <1>2, <2>3, <2>5, <2>7, <2>8
<1>4. /\ executed' \in Seq(Tasks) /\ Len(executed') = R
      /\ \A i \in 1..R : executed'[i] = arrived[i]
  <2>1. \A i \in 1..R : i \in 1..Len(arrived) OBVIOUS
  <2>2. r \in [1..c -> Tasks] BY <1>3, <2>1
  <2>3. r \in Seq(Tasks)
    <3>1. c \in Nat BY <1>2
    <3> HIDE Facts DEF r, c
    <3> QED BY SMTT(30), <2>2, <3>1, SeqDef
  <2>4. Len(r) = c
    <3>1. DOMAIN r = 1..c /\ DOMAIN r = 1..Len(r) /\ Len(r) \in Nat BY <2>3, LenProperties
    <3> HIDE DEF r
    <3> QED BY <1>2, <3>1
  <2>5. \A i \in 1..c : r[i] = Recorded(i) OBVIOUS
  <2> HIDE DEF r, R
  <2>6. executed \in Seq(Tasks) BY DEF IInv, DataTypes
  <2>7. /\ executed' \in Seq(Tasks) /\ Len(executed') = Len(executed) + Len(r)
        /\ \A i \in 1..Len(executed) + Len(r) :
             executed'[i] = IF i <= Len(executed) THEN executed[i] ELSE r[i - Len(executed)]
    BY <1>1, <2>3, <2>6, ConcatProperties
  <2>8. Len(executed) + Len(r) = R BY <1>2, <2>4
  <2>9. ASSUME NEW i \in 1..R PROVE executed'[i] = arrived[i]
    <3>1. CASE i <= Len(executed)
      <4>1. i \in 1..Len(executed) BY <3>1
      <4> QED BY <2>7, <2>8, <3>1, <4>1 DEF IInv, Executions
    <3>2. CASE ~(i <= Len(executed))
      <4>1. i - Len(executed) \in 1..c /\ Len(executed) + (i - Len(executed)) = i
        <5>1. i \in Nat /\ i <= R /\ R \in Nat /\ c \in Nat /\ Len(executed) \in Nat
              /\ Len(executed) = R - c
          BY <1>2
        <5> HIDE DEF c
        <5>2. i > Len(executed) BY <3>2, <5>1
        <5>3. i - Len(executed) >= 1 /\ i - Len(executed) <= c BY <5>1, <5>2
        <5> QED BY <5>1, <5>3
      <4> QED BY <1>3, <2>5, <2>7, <2>8, <3>2, <4>1
    <3> QED BY <3>1, <3>2
  <2> QED BY <2>7, <2>8, <2>9
<1>5. /\ submitted' \in [{m_semaphore} -> Nat]
      /\ submitted'[m_semaphore] = submitted[m_semaphore] + 1
      /\ next_value = submitted[m_semaphore] + 1
      /\ counter[m_semaphore] <= submitted'[m_semaphore]
  BY <1>1 DEF IInv, DataTypes, next_value
<1>6. TypeOK'
  <2>1. TypeOK BY DEF IInv
  <2>2. ({subscribed, idle, need_action, aborted} \subseteq BOOLEAN)' BY <2>1, Booleans
  <2> QED BY <1>1, <2>1, <2>2 DEF TypeOK
<1>7. DataTypes' BY <1>1, <1>4, <1>5 DEF IInv, DataTypes
<1>13. Signalled' = Signalled /\ Released' = Released /\ processed = 0
  BY <1>1, NotProcessing DEF IInv, Arrivals
<1>8. Arrivals' /\ Buffers' BY <1>1, <1>13, Unchanged
<1>9. Executions'
  <2>1. DOMAIN executed' = 1..R BY <1>4, LenProperties
  <2>2. Len(executed') = AllRecorded' - Unsubmitted'
    <3>1. R = R - 0 BY <1>2
    <3> QED BY <1>2, <1>4, <3>1
  <2>3. Unsubmitted' <= m_pending_requests' BY <1>1, <1>2
  <2>4. \A i \in DOMAIN executed' : executed'[i] = arrived'[i] BY <1>1, <1>4, <2>1
  <2> QED BY <2>2, <2>3, <2>4 DEF Executions
<1>10. Iterators'
  BY <1>1, <1>2 DEF IInv, Iterators
<1>11. Values'
  <2> HIDE DEF R, c
  <2>1. Values /\ R = AllRecorded BY DEF IInv, R
  <2>2. \A i \in 1..R : i \in 1..R - c \/ i \in R - c + 1..R BY <1>2
  <2>3. \A i \in 1..R : signal_value[arrived[i]] <= submitted'[m_semaphore]
    <3> TAKE i \in 1..R
    <3>1. CASE i \in 1..R - c
      <4>1. signal_value[arrived[i]] <= submitted[m_semaphore] BY <1>2, <2>1, <3>1 DEF Values
      <4>2. i \in 1..Len(arrived) BY <2>1
      <4>3. signal_value[arrived[i]] \in Nat BY <4>2
      <4> QED BY SMTT(30), <1>5, <4>1, <4>3
    <3>2. CASE i \in R - c + 1..R
      <4>1. signal_value[arrived[i]] = next_value BY <1>2, <2>1, <3>2 DEF Values
      <4> QED BY <1>5, <4>1
    <3> QED BY <2>2, <3>1, <3>2
  <2>4. R - 0 = R /\ R - 0 + 1..R = {} BY SMTT(30), <1>2
  <2> QED BY <1>1, <1>2, <1>13, <2>1, <2>3, <2>4 DEF Values
<1>12. Gate' BY <1>1 DEF IInv, Gate
<1> QED BY <1>6, <1>7, <1>8, <1>9, <1>10, <1>11, <1>12 DEF IInv

---------------------------------------------------------------------------
LEMMA NextIInv ==
  ASSUME IInv, [Next]_vars PROVE IInv'
<1>1. CASE Queue
  BY <1>1, FrontN, GetCounterValue, FinishedStep, ReleaseProcessed, PopFrontN, Idle, Record, SubmitStep, AbortImpl DEF Queue
<1>2. ASSUME NEW t \in Tasks, CopyDataToGPU(t) PROVE IInv'
  BY <1>2, HaveNewDatum, IncrementThrows, HaveNewDatumSignal, Continue DEF CopyDataToGPU
<1>3. CASE close \/ finish_impl \/ terminate BY <1>3, Window
<1>4. CASE gpu \/ semaphore_watcher BY <1>4, Gpu
<1>5. CASE UNCHANGED vars
  <2>1. TypeOK' BY <1>5 DEF IInv, TypeOK, vars
  <2>2. /\ Unsubmitted' = Unsubmitted
        /\ Signalled' = Signalled /\ Released' = Released
    BY <1>5, NotProcessing DEF Unsubmitted, vars
  <2>5. Arrivals' BY <1>5, <2>2 DEF IInv, Arrivals, vars
  <2>3. DataTypes' /\ Executions' /\ Values' /\ Buffers' /\ Gate'
    BY <1>5, <2>2, Unchanged DEF vars
  <2>4. Iterators' BY <1>5, <2>2 DEF IInv, Iterators, AllRecorded, vars
  <2> QED BY <2>1, <2>3, <2>4, <2>5 DEF IInv
<1> QED BY <1>1, <1>2, <1>3, <1>4, <1>5 DEF Next, Terminated

LEMMA Inductive == Spec => []IInv
<1>1. Init => IInv BY InitIInv
<1>2. IInv /\ [Next]_vars => IInv' BY NextIInv
<1> QED BY <1>1, <1>2, PTL DEF Spec

(* The types, for any number of tasks and command buffers. *)
THEOREM TypeCorrect == Spec => []TypeOK
<1>1. IInv => TypeOK BY DEF IInv
<1> QED BY <1>1, Inductive, PTL

(* The GPU gets the requests in the order of the deque, each of them once: also when
   only some of the new requests got a command buffer, and when others come in
   while the queue task works on the front of the deque. The specification ends where
   the queue task follows an iterator that a push invalidated, since what the code
   does then is undefined: this says nothing of it (ValidWhileMapStays says when no
   iterator is invalid). *)
THEOREM InOrder == Spec => []ExecutedInOrder
<1>1. ASSUME IInv PROVE ExecutedInOrder
  <2> USE Facts
  <2> DEFINE l == Len(executed)
             s == SubSeq(arrived, 1, l)
  <2>1. l \in Nat /\ l <= Len(arrived)
    <3>1. Len(executed) = AllRecorded - Unsubmitted BY <1>1 DEF IInv, Executions
    <3> QED BY <1>1, <3>1
  <2>2. executed \in Seq(Tasks) /\ arrived \in Seq(Tasks) BY <1>1 DEF IInv, DataTypes
  <2>3. \A i \in 1..l : arrived[i] \in Tasks
    <3>1. \A i \in 1..l : i \in 1..Len(arrived) BY <1>1, <2>1
    <3> QED BY <1>1, <3>1
  <2> HIDE DEF l
  <2>4. /\ s \in Seq(Tasks) /\ Len(s) = IF 1 <= l THEN l - 1 + 1 ELSE 0
        /\ \A i \in 1..l - 1 + 1 : s[i] = arrived[1 + i - 1]
    BY <2>1, <2>3, SubSeqProperties
  <2>5. Len(s) = l BY <2>1, <2>4
  <2>6. \A i \in 1..l : s[i] = arrived[i]
    <3> TAKE i \in 1..l
    <3>1. i \in 1..l - 1 + 1 /\ 1 + i - 1 = i BY <2>1
    <3> QED BY <2>4, <3>1
  <2>7. \A i \in 1..l : executed[i] = arrived[i]
    <3>1. DOMAIN executed = 1..l BY <1>1 DEF l
    <3> QED BY <1>1, <3>1 DEF IInv, Executions
  <2> HIDE DEF s
  <2>8. executed = s BY <2>2, <2>4, <2>5, <2>6, <2>7, SeqEqual DEF l
  <2> QED BY <2>1, <2>8 DEF ExecutedInOrder, l, s
<1> QED BY <1>1, Inductive, PTL

(* What the GPU still uses is submitted, and its task was not signalled. *)
LEMMA InFlightPosition ==
  ASSUME IInv, NEW t \in Tasks, InFlight(t)
  PROVE  \E i \in Signalled + 1..AllRecorded : i \in 1..Len(arrived) /\ arrived[i] = t
<1> USE Facts
<1>1. PICK i \in 1..Len(executed) : executed[i] = t BY DEF InFlight
<1>2. Len(executed) = AllRecorded - Unsubmitted BY DEF IInv, Executions
<1>3. i \in 1..AllRecorded /\ i \in 1..Len(arrived) BY SMTT(30), <1>1, <1>2
<1>4. arrived[i] = t BY <1>1 DEF IInv, Executions
<1>5. ~(i <= Signalled)
  <2>1. SUFFICES ASSUME i \in 1..Signalled PROVE FALSE BY <1>3
  <2>2. signal_value[t] <= counter[m_semaphore] BY <1>4, <2>1 DEF IInv, Values
  <2>3. signal_value[t] > counter[m_semaphore] /\ signal_value[t] \in Nat /\ counter[m_semaphore] \in Nat
    BY DEF InFlight
  <2> HIDE Facts
  <2> QED BY SMTT(30), <2>2, <2>3
<1> QED BY <1>3, <1>4, <1>5

(* A command buffer that the GPU uses is neither in the pool nor used for another
   request, however many there are. *)
THEOREM OneRequestEach == Spec => []CommandBuffersExclusive
<1>1. ASSUME IInv, NEW t \in Tasks, InFlight(t)
      PROVE  /\ command_buffer[t] \notin free
             /\ \A u \in Tasks \ {t} : InFlight(u) => command_buffer[u] # command_buffer[t]
  <2>4. \A i \in Signalled + 1..AllRecorded : i \in Released + 1..AllRecorded BY <1>1, Facts
  <2>1. PICK i \in Released + 1..AllRecorded : arrived[i] = t BY <1>1, <2>4, InFlightPosition
  <2>2. command_buffer[t] \notin free BY <1>1, <2>1 DEF IInv, Buffers
  <2>3. ASSUME NEW u \in Tasks \ {t}, InFlight(u) PROVE command_buffer[u] # command_buffer[t]
    <3>1. PICK j \in Released + 1..AllRecorded : arrived[j] = u BY <1>1, <2>3, <2>4, InFlightPosition
    <3> QED BY <1>1, <2>1, <3>1 DEF IInv, Buffers
  <2> QED BY <2>2, <2>3
<1>2. IInv => CommandBuffersExclusive BY <1>1 DEF CommandBuffersExclusive
<1> QED BY <1>2, Inductive, PTL

(* The window, the task and the queue task exist as long as the GPU, or a request
   that it still has to get, needs them: requests that are in the deque after the end
   of the window were signalled, and their tasks finished; they are gone before
   abort_impl can look for tasks to abort. *)
THEOREM OutlivesCopies == Spec => []WindowOutlivesCopies
<1> USE Facts
<1>1. ASSUME IInv, NEW t \in Tasks, InFlight(t) PROVE task[t] \in Live
  <2>1. PICK i \in Signalled + 1..AllRecorded : i \in 1..Len(arrived) /\ arrived[i] = t
    BY <1>1, InFlightPosition
  <2>2. task[t] \notin {"new", "aborted"} BY <1>1, <2>1 DEF IInv, Arrivals
  <2>3. ~(i <= Signalled) BY <1>1, <2>1
  <2>4. t \notin submit_finished BY <1>1, <2>1, <2>3 DEF IInv, Arrivals
  <2>5. task[t] # "done" BY <1>1, <2>4 DEF IInv, Arrivals
  <2>6. task[t] \in {"new", "pushed", "waiting", "done", "aborted"} BY <1>1 DEF IInv, TypeOK
  <2> QED BY <2>2, <2>5, <2>6 DEF Live
<1>2. ASSUME IInv, window = "destructed" \/ pc = "destroyed"
      PROVE  /\ \A t \in Tasks : task[t] \in {"new", "done", "aborted"} /\ ~InFlight(t)
             /\ m_new_data # <<>> => pc \in {"finished", "pop"}
             /\ \A i \in DOMAIN m_new_data : m_new_data[i] \in submit_finished
  <2>1. window = "destructed" BY <1>2 DEF IInv, Gate
  <2>2. \A t \in Tasks : task[t] \notin Live BY <1>2, <2>1, GateFacts
  <2>3. \A t \in Tasks : task[t] \in {"new", "done", "aborted"} BY <1>2, <2>2 DEF IInv, TypeOK, Live
  <2>4. \A i \in 1..Len(arrived) : arrived[i] \in submit_finished
    <3> TAKE i \in 1..Len(arrived)
    <3>1. arrived[i] \in Tasks BY <1>2
    <3>2. task[arrived[i]] = "done" BY <1>2, <2>3, <3>1 DEF IInv, Arrivals
    <3> QED BY <1>2, <3>1, <3>2 DEF IInv, Arrivals
  <2>5. \A i \in DOMAIN m_new_data : m_new_data[i] \in submit_finished
    <3> TAKE i \in DOMAIN m_new_data
    <3>1. popped + i \in 1..Len(arrived) BY SMTT(30), <1>2
    <3> QED BY <1>2, <2>4, <3>1 DEF IInv, Arrivals
  <2>6. ASSUME m_new_data # <<>> PROVE pc \in {"finished", "pop"}
    <3>1. m_new_data \in Seq(Tasks) BY <1>2 DEF IInv, TypeOK
    <3>2. Len(m_new_data) > 0 BY <1>2, <2>6, <3>1, EmptySeq
    <3>3. Len(arrived) \in 1..Len(arrived) BY <1>2, <3>2
    <3>4. Len(arrived) <= Signalled BY <1>2, <2>4, <3>3 DEF IInv, Arrivals
    <3>5. processed > 0 BY <1>2, <3>2, <3>4 DEF Signalled
    <3> QED BY <1>2, <3>5 DEF IInv, Arrivals
  <2>7. \A t \in Tasks : ~InFlight(t) BY <1>1, <1>2, <2>2
  <2> QED BY <2>3, <2>5, <2>6, <2>7
<1>3. IInv => WindowOutlivesCopies BY <1>1, <1>2 DEF WindowOutlivesCopies, Live
<1> QED BY <1>3, Inductive, PTL

(* A task continues only when the GPU executed its command buffer. *)
THEOREM ContinuesAfterExecution == Spec => []FinishedAfterExecution
<1> USE Facts
<1>1. ASSUME IInv, NEW t \in submit_finished
      PROVE  /\ \E i \in DOMAIN executed : executed[i] = t
             /\ signal_value[t] \in 1..counter[m_semaphore]
  <2>1. t \in Tasks /\ task[t] \notin {"new", "aborted"} BY <1>1 DEF IInv, TypeOK, Arrivals
  <2>2. PICK i \in 1..Len(arrived) : arrived[i] = t BY <1>1, <2>1 DEF IInv, Arrivals
  <2>3. i <= Signalled BY <1>1, <2>2 DEF IInv, Arrivals
  <2>4. i \in 1..Signalled /\ i \in 1..AllRecorded /\ Signalled <= Len(executed)
    <3>1. processed > 0 => Unsubmitted = 0 BY <1>1 DEF IInv, Arrivals, Unsubmitted
    <3>2. Len(executed) = AllRecorded - Unsubmitted /\ Unsubmitted <= m_pending_requests
      BY <1>1 DEF IInv, Executions
    <3>3. Signalled <= Len(executed) BY SMTT(30), <1>1, <3>1, <3>2 DEF AllRecorded, Signalled
    <3> QED BY <1>1, <2>2, <2>3, <3>3
  <2>5. i \in 1..Len(executed) BY <1>1, <2>4
  <2>6. executed[i] = t BY <1>1, <2>2, <2>5 DEF IInv, Executions
  <2>7. signal_value[t] > 0 /\ signal_value[t] <= counter[m_semaphore] /\ signal_value[t] \in Nat
    BY <1>1, <2>1, <2>2, <2>4 DEF IInv, Values
  <2> QED BY SMTT(30), <1>1, <2>5, <2>6, <2>7
<1>2. IInv => FinishedAfterExecution BY <1>1 DEF FinishedAfterExecution
<1> QED BY <1>2, Inductive, PTL

(* "producer threads can add new elements in the meantime without invalidating
   submit_request" (ImmediateSubmitQueue.cxx:129) is true for as long as no push_back
   had to reallocate the map of the deque. *)
THEOREM ValidWhileMapStays == Spec => [](map = 0 => IteratorsValid)
<1>1. ASSUME IInv, map = 0 PROVE IteratorsValid
  <2>1. /\ first_submit \in IteratorType /\ first_submit.map <= map /\ first_submit.pos # Garbage
        /\ map \in Nat
    BY <1>1 DEF IInv, DataTypes, TypeOK
  <2>2. first_submit.pos \in Nat BY <2>1 DEF IteratorType
  <2>3. ASSUME NEW k \in 1..n PROVE Advance(first_submit, k - 1).pos # Garbage
    <3>1. k \in Int /\ k - 1 \in Int /\ first_submit.pos + (k - 1) >= 0 BY SMTT(30), <1>1, <2>2, Facts
    <3>2. Advance(first_submit, k - 1).pos = first_submit.pos + (k - 1) BY <1>1, <2>1, <3>1, AdvanceMap
    <3> QED BY <3>1, <3>2 DEF Garbage
  <2> QED BY <2>1, <2>3 DEF IteratorsValid
<1>2. IInv => (map = 0 => IteratorsValid) BY <1>1
<1> QED BY <1>2, Inductive, PTL

==========================================================================
