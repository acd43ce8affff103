------------------------- MODULE ImmediateSubmit -------------------------
(* task::CopyDataToGPU, its base class task::ImmediateSubmit,
   task::ImmediateSubmitQueue and the deque between them
   (vk_utils::TaskToTaskDeque): tasks that copy data to a resource of a window
   hand requests to record and submit a command buffer to the task that owns a
   queue, and continue when the GPU executed it. The window waits for them
   before it is destructed. The submits are watched by the
   AsyncSemaphoreWatcher of the logical device, that is represented by what it
   promises. *)
EXTENDS Sequences, FiniteSets, Integers

CONSTANTS Tasks,          \* the CopyDataToGPU tasks, that make one request each
          CommandBuffers, \* the command buffers that m_command_buffer_pool can hand out
          Reserve,        \* how many new requests are handled at once (64)
          NodeSize,       \* how many requests a node of the std::deque holds
          None            \* no command buffer

ASSUME ImmediateSubmitAssumption ==
  /\ IsFiniteSet(Tasks) /\ IsFiniteSet(CommandBuffers)
  /\ Reserve \in Nat \ {0} /\ NodeSize \in Nat \ {0}
  /\ None \notin CommandBuffers

VARIABLES
  window,           \* the window that owns the resources: "open", "closing" or "destructed"
  m_task_counter_gate, \* the number of tasks that it waits for
  task,             \* what each CopyDataToGPU task is doing
  submit_finished,  \* tasks that got the signal submit_finished
  m_new_data,       \* the deque with requests: its elements, ...
  popped,           \* ... how many were erased from its front, ...
  map,              \* ... and how often its map of nodes was reallocated
  command_buffer,   \* ImmediateSubmitRequest::m_command_buffer
  signal_value,     \* ImmediateSubmitRequest::m_signal_value
  m_pending_requests,
  m_last_submitted, \* an iterator into the deque
  first_submit,     \* first_submit_request, an iterator into the deque
  n,                \* number of new requests to handle in this run
  acquired,         \* the command buffers that were acquired for them
  counter_value,    \* what the semaphore was when the pending requests are processed
  processed,        \* how many of them were signalled in this run
  free,             \* command buffers in the pool
  subscribed,       \* the pool will call the queue task back
  pc,               \* where the queue task is in multiplex_impl
  idle,             \* the queue task is idle, waiting for need_action
  need_action,      \* need_action was signalled while it wasn't idle
  aborted,          \* abort() was called
  arrived,          \* history: the tasks in the order of their have_new_datum
  executed,         \* history: the tasks in the order the GPU gets them
  submitted, counter, waiting, signalled, removed  \* the timeline semaphore

gate == <<window, m_task_counter_gate>>
deque == <<m_new_data, popped, map>>
request == <<command_buffer, signal_value>>
locals == <<m_pending_requests, m_last_submitted, first_submit, n, acquired, counter_value, processed>>
pool == <<free, subscribed>>
state == <<pc, idle, need_action>>
semaphore == <<submitted, counter, waiting, signalled, removed>>
vars == <<window, m_task_counter_gate, task, submit_finished, m_new_data, popped, map, command_buffer, signal_value,
          m_pending_requests, m_last_submitted, first_submit, n, acquired, counter_value, processed,
          free, subscribed,
          pc, idle, need_action, aborted, arrived, executed,
          submitted, counter, waiting, signalled, removed>>

m_semaphore == "m_semaphore"
Notification == INSTANCE SemaphoreNotification
                  WITH Semaphores <- {m_semaphore}, MaxValue <- Cardinality(Tasks)

(* An iterator of the deque: the position of its element, counted from the first
   request ever, and the map that it was made with. *)
Iterator(pos) == [pos |-> pos, map |-> map]
Garbage == -1
begin == Iterator(popped)

(* it + k. Within a node that is pointer arithmetic; otherwise the next node is
   looked up in the map of the time the iterator was made, which is gone when
   a push_back reallocated it. *)
Advance(it, k) ==
  IF \/ it.pos \div NodeSize = (it.pos + k) \div NodeSize
     \/ it.map = map
    THEN [it EXCEPT !.pos = it.pos + k]
    ELSE [it EXCEPT !.pos = Garbage]

(* The request that an iterator points at. *)
At(it) == m_new_data[it.pos - popped + 1]

(* AIStatefulTask::signal(need_action) *)
SignalNeedAction ==
  IF idle THEN idle' = FALSE /\ UNCHANGED need_action
          ELSE need_action' = TRUE /\ UNCHANGED idle

Init ==
  /\ window = "open" /\ m_task_counter_gate = 0
  /\ task = [t \in Tasks |-> "new"]
  /\ submit_finished = {}
  /\ m_new_data = <<>> /\ popped = 0 /\ map = 0
  /\ command_buffer = [t \in Tasks |-> None]
  /\ signal_value = [t \in Tasks |-> 0]
  /\ m_pending_requests = 0
  /\ m_last_submitted = [pos |-> 0, map |-> 0]
  /\ first_submit = [pos |-> 0, map |-> 0]
  /\ n = 0 /\ acquired = {} /\ counter_value = 0 /\ processed = 0
  /\ free = CommandBuffers /\ subscribed = FALSE
  /\ pc = "start" /\ idle = FALSE /\ need_action = FALSE /\ aborted = FALSE
  /\ arrived = <<>> /\ executed = <<>>
  /\ Notification!Init

---------------------------------------------------------------------------
(* The CopyDataToGPU tasks. *)

(* The gate counts the task. *)
increment ==
  /\ window # "destructed"
  /\ m_task_counter_gate' = m_task_counter_gate + 1
  /\ UNCHANGED window

(* Unless the window already waits for it: then increment may throw, and always does
   when the wait is over; initialize_impl aborts the task, that forgets its owner. *)
increment_throws(t) ==
  /\ task[t] = "new" /\ window # "open"
  /\ task' = [task EXCEPT ![t] = "aborted"]
  /\ UNCHANGED <<gate, submit_finished, deque, request, locals, pool, state, aborted, arrived, executed, semaphore>>

(* push_back needs another node, for which it may have to reallocate the map. *)
NewNode ==
  LET pos == popped + Len(m_new_data)
  IN pos > 0 /\ pos % NodeSize = 0

(* Mutant: the gate is not incremented before the request is made. *)
have_new_datum_uncounted(t) ==
  /\ task[t] = "new"
  /\ task' = [task EXCEPT ![t] = "pushed"]
  /\ m_new_data' = Append(m_new_data, t)
  /\ arrived' = Append(arrived, t)
  /\ map' \in IF NewNode THEN {map, map + 1} ELSE {map}
  /\ UNCHANGED <<gate, submit_finished, popped, request, locals, pool, state, aborted, executed, semaphore>>

(* initialize_impl, then CopyDataToGPU_start, _write and _flush, that fill the
   staging buffer and fall through to ImmediateSubmit_start; have_new_datum:
   push_back under the lock of the deque ... *)
have_new_datum(t) ==
  /\ task[t] = "new"
  /\ increment
  /\ task' = [task EXCEPT ![t] = "pushed"]
  /\ m_new_data' = Append(m_new_data, t)
  /\ arrived' = Append(arrived, t)
  /\ map' \in IF NewNode THEN {map, map + 1} ELSE {map}
  /\ UNCHANGED <<submit_finished, popped, request, locals, pool, state, aborted, executed, semaphore>>

(* ... then signal(need_action). The task waits for submit_finished. *)
have_new_datum_signal(t) ==
  /\ task[t] = "pushed"
  /\ task' = [task EXCEPT ![t] = "waiting"]
  /\ SignalNeedAction
  /\ UNCHANGED <<gate, submit_finished, deque, request, locals, pool, pc, aborted, arrived, executed, semaphore>>

(* The task got submit_finished, and continues with m_continue_state, where it
   finishes: finish_impl opens the gate when it was the last one, and the task is
   destructed with its staging buffer. Its request may still be in the deque. *)
continue(t) ==
  /\ task[t] = "waiting"
  /\ t \in submit_finished
  /\ task' = [task EXCEPT ![t] = "done"]
  /\ m_task_counter_gate' = m_task_counter_gate - 1
  /\ UNCHANGED <<window, submit_finished, deque, request, locals, pool, state, aborted, arrived,
                 executed, semaphore>>

---------------------------------------------------------------------------
(* The window. *)

close ==
  /\ window = "open"
  /\ window' = "closing"
  /\ UNCHANGED <<m_task_counter_gate, task, submit_finished, deque, request, locals, pool, state, aborted,
                 arrived, executed, semaphore>>

(* finish_impl waits until no task is left. *)
finish_impl ==
  /\ window = "closing"
  /\ m_task_counter_gate = 0
  /\ window' = "destructed"
  /\ UNCHANGED <<m_task_counter_gate, task, submit_finished, deque, request, locals, pool, state, aborted,
                 arrived, executed, semaphore>>

---------------------------------------------------------------------------
(* ImmediateSubmitQueue_need_action *)

Run(from, to) == pc = from /\ pc' = to

(* front_n, and where the new requests start. *)
front_n ==
  /\ Run("start", "process")
  /\ ~idle /\ ~aborted
  /\ LET size == Len(m_new_data)
         max == m_pending_requests + Reserve
     IN n' = (IF max <= size THEN max ELSE size) - m_pending_requests
  /\ first_submit' = IF m_pending_requests > 0 THEN Advance(m_last_submitted, 1) ELSE begin
  /\ UNCHANGED <<gate, task, submit_finished, deque, request, m_pending_requests, m_last_submitted,
                 acquired, counter_value, processed, pool, idle, need_action, aborted, arrived, executed,
                 semaphore>>

(* When there are pending requests, see how far the GPU is. *)
get_counter_value ==
  /\ pc = "process"
  /\ IF m_pending_requests > 0
       THEN pc' = "finished" /\ counter_value' = counter[m_semaphore]
       ELSE pc' = "acquire" /\ UNCHANGED counter_value
  /\ UNCHANGED <<gate, task, submit_finished, deque, request, m_pending_requests, m_last_submitted,
                 first_submit, n, acquired, processed, pool, idle, need_action, aborted, arrived,
                 executed, semaphore>>

pending_request == m_new_data[processed + 1]

(* Mutant: the value that comes next counts as reached. *)
Reached_early == processed < m_pending_requests /\ counter_value + 1 >= signal_value[pending_request]

(* The GPU finished the next pending request. *)
Reached == processed < m_pending_requests /\ counter_value >= signal_value[pending_request]

(* pending_request->finished() wakes up its task. *)
finished ==
  /\ pc = "finished" /\ Reached
  /\ submit_finished' = submit_finished \cup {pending_request}
  /\ processed' = processed + 1
  /\ UNCHANGED <<gate, task, deque, request, m_pending_requests, m_last_submitted, first_submit, n,
                 acquired, counter_value, pool, state, aborted, arrived, executed, semaphore>>

(* Mutant: m_pending_requests is reset to zero. *)
still_pending_none == 0

(* What remains pending when the processed requests were erased. *)
still_pending == m_pending_requests - processed

(* The pool calls a subscriber back when command buffers are released. *)
release(buffers) ==
  /\ free' = free \cup buffers
  /\ subscribed' = FALSE
  /\ need_action' = (need_action \/ (subscribed /\ buffers # {}))

Processed == {m_new_data[i] : i \in 1..processed}

(* The end of the loop. The command buffers of the processed requests, if any, go back
   to the pool ... *)
release_processed ==
  /\ pc = "finished" /\ ~Reached
  /\ IF processed > 0
       THEN pc' = "pop" /\ release({command_buffer[t] : t \in Processed}) /\ UNCHANGED counter_value
       ELSE pc' = "acquire" /\ counter_value' = 0 /\ UNCHANGED <<pool, need_action>>
  /\ UNCHANGED <<gate, task, submit_finished, deque, request, m_pending_requests, m_last_submitted,
                 first_submit, n, acquired, processed, idle, aborted, arrived, executed, semaphore>>

(* ... and the requests are erased, under the lock of the deque. *)
pop_front_n ==
  /\ Run("pop", "acquire")
  /\ m_new_data' = SubSeq(m_new_data, processed + 1, Len(m_new_data))
  /\ popped' = popped + processed
  /\ m_pending_requests' = still_pending
  /\ command_buffer' = [t \in Tasks |-> IF t \in Processed THEN None ELSE command_buffer[t]]
  /\ processed' = 0 /\ counter_value' = 0
  /\ UNCHANGED <<gate, task, submit_finished, map, signal_value, m_last_submitted, first_submit, n, acquired,
                 pool, idle, need_action, aborted, arrived, executed, semaphore>>

(* m_command_buffer_pool.acquire returns as many command buffers as it can. *)
acquire(buffers) ==
  /\ buffers \subseteq free
  /\ Cardinality(buffers) = IF n <= Cardinality(free) THEN n ELSE Cardinality(free)
  /\ acquired' = buffers
  /\ free' = free \ buffers

(* There are no new requests, or no command buffers for them. *)
acquire_nothing ==
  /\ Run("acquire", "wait")
  /\ acquire({})
  /\ UNCHANGED <<gate, task, submit_finished, deque, request, m_pending_requests, m_last_submitted,
                 first_submit, n, counter_value, processed, subscribed, idle, need_action, aborted, arrived,
                 executed, semaphore>>

(* The last request that a command buffer was acquired for. *)
LastRecorded(buffers) == Advance(first_submit, Cardinality(buffers) - 1)

(* The request of the i-th command buffer: they are handed out in the order of the deque. *)
Recorded(i) == At([first_submit EXCEPT !.pos = @ + i - 1])

(* The value that the next submit is going to use. *)
next_value == submitted[m_semaphore] + 1

(* Record the command buffers, and remember them and the value that the submit is
   going to use in their requests. The pool, and the requests that are already in
   the deque, are used by this task only. With an iterator that a push_back
   invalidated the behaviour is undefined, and the model stops here. *)
record ==
  /\ Run("acquire", "submit")
  /\ \E buffers \in (SUBSET free) \ {{}} :
       /\ acquire(buffers)
       /\ first_submit.pos # Garbage /\ LastRecorded(buffers).pos # Garbage
       /\ LET b == CHOOSE b \in [1..Cardinality(buffers) -> buffers] : {b[i] : i \in DOMAIN b} = buffers
              Index(t) == {i \in DOMAIN b : Recorded(i) = t}
          IN /\ command_buffer' = [t \in Tasks |->
                  IF Index(t) # {} THEN b[CHOOSE i \in Index(t) : TRUE] ELSE command_buffer[t]]
             /\ signal_value' = [t \in Tasks |->
                  IF Index(t) # {} THEN next_value ELSE signal_value[t]]
       /\ m_last_submitted' = LastRecorded(buffers)
       /\ m_pending_requests' = m_pending_requests + Cardinality(buffers)
  /\ UNCHANGED <<gate, task, submit_finished, deque, first_submit, n, counter_value, processed, subscribed,
                 idle, need_action, aborted, arrived, executed, semaphore>>

(* m_queue.submit *)
submit ==
  /\ Run("submit", "add_poll")
  /\ executed' = executed \o [i \in 1..Cardinality(acquired) |-> Recorded(i)]
  /\ Notification!Submit(m_semaphore)
  /\ UNCHANGED <<gate, task, submit_finished, deque, request, locals, pool, idle, need_action, aborted, arrived>>

(* m_semaphore.add_poll(this, need_action) *)
add_poll ==
  /\ Run("add_poll", "wait")
  /\ Notification!AddPoll(m_semaphore)
  /\ UNCHANGED <<gate, task, submit_finished, deque, request, locals, pool, idle, need_action,
                 aborted, arrived, executed>>

(* Mutant: a signal that came before the wait is lost. *)
wait_lost ==
  /\ Run("wait", "start")
  /\ subscribed' = (subscribed \/ Cardinality(acquired) < n)
  /\ acquired' = {}
  /\ need_action' = FALSE
  /\ idle' = TRUE
  /\ UNCHANGED <<gate, task, submit_finished, deque, request, m_pending_requests, m_last_submitted,
                 first_submit, n, counter_value, processed, free, aborted, arrived, executed, semaphore>>

(* Subscribe to the pool when some requests got no command buffer. Then
   producer_not_finished(), which is always the case: wait(need_action). *)
wait ==
  /\ Run("wait", "start")
  /\ subscribed' = (subscribed \/ Cardinality(acquired) < n)
  /\ acquired' = {}
  /\ need_action' = FALSE
  /\ idle' = ~need_action
  /\ UNCHANGED <<gate, task, submit_finished, deque, request, m_pending_requests, m_last_submitted,
                 first_submit, n, counter_value, processed, free, aborted, arrived, executed, semaphore>>

(* Application::run calls QueuePool::clean_up when all windows are gone, which
   terminates the queue task. *)
terminate ==
  /\ window = "destructed"
  /\ ~aborted
  /\ aborted' = TRUE
  /\ UNCHANGED <<gate, task, submit_finished, deque, request, locals, pool, state, arrived, executed, semaphore>>

(* abort_impl: stop polling, abort the requests in the deque; then finish. *)
abort_impl ==
  /\ Run("start", "destroyed")
  /\ aborted
  /\ Notification!RemovePoll(m_semaphore)
  /\ m_new_data' = <<>>
  /\ popped' = popped + Len(m_new_data)
  /\ UNCHANGED <<gate, task, submit_finished, map, request, locals, pool, idle, need_action, aborted,
                 arrived, executed>>

---------------------------------------------------------------------------
(* The GPU executes the oldest submit. *)
gpu ==
  /\ Notification!Advance(m_semaphore)
  /\ UNCHANGED <<gate, task, submit_finished, deque, request, locals, pool, state, aborted, arrived, executed>>

(* The semaphore watcher signals the queue task. *)
semaphore_watcher ==
  /\ Notification!Notify(m_semaphore)
  /\ SignalNeedAction
  /\ UNCHANGED <<gate, task, submit_finished, deque, request, locals, pool, pc, aborted, arrived, executed>>

Queue ==
  \/ front_n \/ get_counter_value \/ finished \/ release_processed \/ pop_front_n
  \/ acquire_nothing \/ record \/ submit \/ add_poll \/ wait \/ abort_impl

CopyDataToGPU(t) ==
  have_new_datum(t) \/ increment_throws(t) \/ have_new_datum_signal(t) \/ continue(t)

(* The program ended. *)
Terminated == pc = "destroyed" /\ UNCHANGED vars

Next ==
  \/ Queue \/ terminate \/ gpu \/ semaphore_watcher \/ Terminated
  \/ close \/ finish_impl
  \/ \E t \in Tasks : CopyDataToGPU(t)

Spec == Init /\ [][Next]_vars

(* The engine runs every task that isn't idle, the threads that close a window and
   the program get on with it, the GPU executes what it got, and the semaphore
   watcher keeps its promise (EverySignalled of SemaphoreWatcher). The user may
   never start a task and never close the window. *)
FairSpec ==
  /\ Spec
  /\ WF_vars(Queue) /\ WF_vars(gpu) /\ WF_vars(semaphore_watcher)
  /\ WF_vars(finish_impl) /\ WF_vars(terminate)
  /\ \A t \in Tasks : WF_vars(have_new_datum_signal(t) \/ continue(t))

---------------------------------------------------------------------------
(* The type invariant. *)
TypeOK ==
  /\ window \in {"open", "closing", "destructed"}
  /\ m_task_counter_gate \in Nat
  /\ task \in [Tasks -> {"new", "pushed", "waiting", "done", "aborted"}]
  /\ submit_finished \subseteq Tasks
  /\ m_new_data \in Seq(Tasks)
  /\ popped \in Nat /\ map \in Nat
  /\ command_buffer \in [Tasks -> CommandBuffers \cup {None}]
  /\ signal_value \in [Tasks -> Nat]
  /\ m_pending_requests \in 0..Len(m_new_data)
  /\ n \in 0..Reserve /\ counter_value \in Nat /\ processed \in 0..m_pending_requests
  /\ acquired \subseteq CommandBuffers /\ free \subseteq CommandBuffers
  /\ {subscribed, idle, need_action, aborted} \subseteq BOOLEAN
  /\ pc \in {"start", "process", "finished", "pop", "acquire", "submit", "add_poll", "wait", "destroyed"}

(* Every request is submitted once, in the order of have_new_datum, whatever the
   number of requests that come in at the same time and of command buffers. *)
ExecutedInOrder ==
  /\ Len(executed) <= Len(arrived)
  /\ executed = SubSeq(arrived, 1, Len(executed))

(* A task continues only when the GPU executed its command buffer. *)
FinishedAfterExecution ==
  \A t \in submit_finished :
    /\ \E i \in DOMAIN executed : executed[i] = t
    /\ signal_value[t] \in 1..counter[m_semaphore]

(* The GPU still uses the command buffer of t. *)
InFlight(t) ==
  /\ signal_value[t] > counter[m_semaphore]
  /\ \E i \in DOMAIN executed : executed[i] = t

(* A command buffer that the GPU uses is not in the pool, and was not recorded
   into for another request. *)
CommandBuffersExclusive ==
  \A t \in Tasks : InFlight(t) =>
    /\ command_buffer[t] \notin free
    /\ \A u \in Tasks \ {t} : InFlight(u) => command_buffer[u] # command_buffer[t]

(* The window and its resources, the staging buffers of the tasks, and the queue
   task exist as long as the GPU, or a request that it still has to get, uses them:
   also when the window is closed while a task starts, and when a task that was
   aborted because of that finishes. (CopyDataToGPU::initialize_impl and finish_impl.)
   The requests that the queue task has left when the window is gone belong to tasks that
   finished: it only releases their command buffers and erases them, and that is done
   before abort_impl can come, that would abort their tasks. *)
WindowOutlivesCopies ==
  /\ \A t \in Tasks : InFlight(t) => task[t] \in {"pushed", "waiting"}
  /\ window = "destructed" \/ pc = "destroyed" =>
       /\ \A t \in Tasks : task[t] \in {"new", "done", "aborted"} /\ ~InFlight(t)
       /\ m_new_data # <<>> => pc \in {"finished", "pop"}
       /\ \A i \in DOMAIN m_new_data : m_new_data[i] \in submit_finished

(* While the queue task sleeps something is going to wake it up for whatever is
   in its deque. *)
NotForgotten ==
  idle /\ m_new_data # <<>> =>
    \/ \E t \in Tasks : task[t] = "pushed"
    \/ waiting[m_semaphore] # {}

(* Every task that made its request eventually copied its data, and when the window is closed
   the program ends. *)
EveryRequestFinishes ==
  /\ \A t \in Tasks : task[t] = "pushed" ~> task[t] = "done"
  /\ window = "closing" ~> pc = "destroyed"

(* "producer threads can add new elements in the meantime without invalidating
   submit_request": the iterators that are kept point into the deque. *)
IteratorsValid ==
  /\ pc \in {"process", "finished", "pop"} /\ n > 0 => first_submit.pos # Garbage
  /\ pc = "acquire" => \A k \in 1..n : Advance(first_submit, k - 1).pos # Garbage
==========================================================================
