------------------------ MODULE SemaphoreWatcher ------------------------
(* task::SemaphoreWatcher<BASE> and task::AsyncSemaphoreWatcher: the task that
   polls timeline semaphores and signals the tasks that wait for a value.
   Client threads call add and remove under the mutex of m_watch_set; poll()
   holds that mutex for its whole loop, while the GPU keeps advancing the
   counters. *)
EXTENDS Sequences, FiniteSets, Integers

CONSTANTS Semaphores,   \* the timeline semaphores
          MaxValue      \* bound on the values a semaphore is submitted with

ASSUME MaxValueAssumption == MaxValue \in Nat

VARIABLES
  submitted,    \* TimelineSemaphore::m_signal_value
  counter,      \* what get_counter_value() returns
  removed,      \* semaphores that remove was called for (and are destroyed)
  signalled,    \* history: the values whose task was signalled
  added,        \* history: the values that add was called with
  m_watch_set,  \* m_watch_data and m_notify_data, that have the same indices
  wsi,          \* the index of poll()'s loop
  pc,           \* where the watcher is in multiplex_impl
  idle,         \* the condition that the watcher is idle for, or "none"
  skip_wait,    \* conditions that were signalled while the task was not idle
  limiter       \* m_poll_rate_limiter; "none": the watcher isn't asynchronous

client == <<submitted, removed, added>>
task == <<pc, idle, skip_wait>>
vars == <<submitted, counter, removed, signalled, added,
          m_watch_set, wsi, pc, idle, skip_wait, limiter>>

have_semaphores == "have_semaphores"
poll_timer == "poll_timer"

(* An entry of the watch set: its semaphore, the value that the counter must
   reach before its tasks are looked at, and the values tasks wait for. *)
Entry(s, value) == [semaphore |-> s, value |-> value, triplets |-> <<value>>]

Watched == {m_watch_set[i].semaphore : i \in DOMAIN m_watch_set}

(* poll() holds the mutex of m_watch_set. *)
Locked == pc = "poll"

(* AIStatefulTask::signal: wakes the task up if it is idle for c. *)
Signal(c) ==
  IF idle = c THEN idle' = "none" /\ UNCHANGED skip_wait
              ELSE skip_wait' = skip_wait \cup {c} /\ UNCHANGED idle

(* AIStatefulTask::wait: goes idle, unless c was signalled already. *)
Wait(c) ==
  IF c \in skip_wait THEN skip_wait' = skip_wait \ {c} /\ UNCHANGED idle
                     ELSE idle' = c /\ UNCHANGED skip_wait

(* The task was created and run() before the first add. *)
Init ==
  /\ submitted = [s \in Semaphores |-> 0]
  /\ counter = [s \in Semaphores |-> 0]
  /\ removed = {}
  /\ signalled = [s \in Semaphores |-> {}]
  /\ added = [s \in Semaphores |-> {}]
  /\ m_watch_set = <<>>
  /\ wsi = 1
  /\ pc = "start"
  /\ idle = "none"
  /\ skip_wait = {}
  /\ limiter \in {"none", "off"}

---------------------------------------------------------------------------
(* The clients. *)

(* Queue::submit: get_next_value_ptr increments m_signal_value. *)
submit(s) ==
  /\ s \notin removed
  /\ submitted[s] < MaxValue
  /\ submitted' = [submitted EXCEPT ![s] = @ + 1]
  /\ UNCHANGED <<counter, removed, signalled, added, m_watch_set, wsi, task, limiter>>

(* add_poll(task, condition) with a value that grows per semaphore. *)
CanAdd(s) ==
  /\ ~Locked
  /\ s \notin removed
  /\ submitted[s] > 0
  /\ submitted[s] \notin added[s]
  /\ added' = [added EXCEPT ![s] = @ \cup {submitted[s]}]

(* The semaphore is watched already: append a triplet, without a signal. *)
add_existing(s) ==
  /\ CanAdd(s)
  /\ \E i \in DOMAIN m_watch_set :
       /\ m_watch_set[i].semaphore = s
       /\ m_watch_set' = [m_watch_set EXCEPT ![i].triplets = Append(@, submitted[s])]
  /\ UNCHANGED <<submitted, counter, removed, signalled, wsi, task, limiter>>

(* Mutant: the watcher is not signalled. *)
add_new_without_signal(s) ==
  /\ CanAdd(s)
  /\ s \notin Watched
  /\ m_watch_set' = Append(m_watch_set, Entry(s, submitted[s]))
  /\ UNCHANGED <<submitted, counter, removed, signalled, wsi, task, limiter>>

(* A new semaphore: append an entry and wake the watcher up. *)
add_new(s) ==
  /\ CanAdd(s)
  /\ s \notin Watched
  /\ m_watch_set' = Append(m_watch_set, Entry(s, submitted[s]))
  /\ Signal(have_semaphores)
  /\ UNCHANGED <<submitted, counter, removed, signalled, wsi, pc, limiter>>

(* Remove entry i: the last entry takes its place. *)
remove_at(ws, i) ==
  SubSeq([ws EXCEPT ![i] = ws[Len(ws)]], 1, Len(ws) - 1)

(* remove_poll(), which does nothing when the semaphore isn't watched. *)
remove(s) ==
  /\ ~Locked
  /\ s \notin removed
  /\ removed' = removed \cup {s}
  /\ IF s \in Watched
       THEN \E i \in DOMAIN m_watch_set :
              /\ m_watch_set[i].semaphore = s
              /\ m_watch_set' = remove_at(m_watch_set, i)
       ELSE UNCHANGED m_watch_set
  /\ UNCHANGED <<submitted, counter, signalled, added, wsi, task, limiter>>

(* The GPU finishes the oldest submit. *)
gpu(s) ==
  /\ counter[s] < submitted[s]
  /\ counter' = [counter EXCEPT ![s] = @ + 1]
  /\ UNCHANGED <<client, signalled, m_watch_set, wsi, task, limiter>>

---------------------------------------------------------------------------
(* The watcher. *)

(* Start the poll rate limiter (asynchronous watcher only), lock the mutex. *)
poll_start ==
  /\ pc = "start"
  /\ idle = "none"
  /\ limiter' = IF limiter = "none" THEN "none" ELSE "running"
  /\ pc' = "poll"
  /\ wsi' = 1
  /\ UNCHANGED <<client, counter, signalled, m_watch_set, idle, skip_wait>>

(* The first triplet whose value was not reached yet, as an index. *)
FirstUnreached(triplets, value) ==
  IF \E k \in DOMAIN triplets : value < triplets[k]
    THEN CHOOSE k \in DOMAIN triplets :
           value < triplets[k] /\ \A j \in 1..k-1 : value >= triplets[j]
    ELSE Len(triplets) + 1

(* What *value_task_condition_triplet reads after the k - 1 triplets before it
   were erased: the iterator still points at the k-th slot of the vector.
   That slot now holds triplet 2k - 1, or, when it is past the new end, the
   triplet that it held before the erase. *)
erased_iterator(triplets, k) ==
  IF k <= Len(triplets) - (k - 1) THEN triplets[2 * k - 1] ELSE triplets[k]

poll_not_reached(entry, value) ==
  /\ value < entry.value
  /\ wsi' = wsi + 1
  /\ UNCHANGED <<signalled, m_watch_set>>

(* Mutant: the task of the first value that was not reached is signalled too. *)
signal_early(entry, value) ==
  LET n == FirstUnreached(entry.triplets, value)
  IN [signalled EXCEPT ![entry.semaphore] = @ \cup
        {entry.triplets[j] : j \in 1..IF n > Len(entry.triplets) THEN n - 1 ELSE n}]

(* The tasks whose value was reached are signalled. *)
signal_tasks(entry, value) ==
  [signalled EXCEPT ![entry.semaphore] = @ \cup
     {entry.triplets[j] : j \in 1..FirstUnreached(entry.triplets, value)-1}]

(* Some values of the semaphore are not reached yet: keep watching it. *)
poll_some_reached(entry, value) ==
  LET n == FirstUnreached(entry.triplets, value)
  IN /\ value >= entry.value
     /\ n <= Len(entry.triplets)
     /\ signalled' = signal_tasks(entry, value)
     /\ m_watch_set' = [m_watch_set EXCEPT
          ![wsi].value = erased_iterator(entry.triplets, n),
          ![wsi].triplets = SubSeq(@, n, Len(@))]
     /\ wsi' = wsi + 1

(* All were reached: stop watching it. The entry that was moved to wsi is next. *)
poll_all_reached(entry, value) ==
  /\ value >= entry.value
  /\ FirstUnreached(entry.triplets, value) > Len(entry.triplets)
  /\ signalled' = signal_tasks(entry, value)
  /\ m_watch_set' = remove_at(m_watch_set, wsi)
  /\ UNCHANGED wsi

(* One pass of poll()'s loop. *)
poll_semaphore ==
  /\ pc = "poll"
  /\ wsi <= Len(m_watch_set)
  /\ LET entry == m_watch_set[wsi]
         value == counter[entry.semaphore]
     IN \/ poll_not_reached(entry, value)
        \/ poll_some_reached(entry, value)
        \/ poll_all_reached(entry, value)
  /\ UNCHANGED <<client, counter, task, limiter>>

(* Mutant: the watcher sleeps whatever poll() returned. *)
poll_return_sleep ==
  /\ pc = "poll"
  /\ wsi > Len(m_watch_set)
  /\ pc' = IF limiter = "none" THEN "wait" ELSE "stop"
  /\ UNCHANGED <<client, counter, signalled, m_watch_set, wsi, idle, skip_wait, limiter>>

(* poll() returns whether anything is left to watch. The base class yields or
   waits; the asynchronous watcher waits for its timer, or stops it. *)
poll_return ==
  /\ pc = "poll"
  /\ wsi > Len(m_watch_set)
  /\ pc' = IF m_watch_set # <<>>
             THEN IF limiter = "none" THEN "start" ELSE "wait_timer"
             ELSE IF limiter = "none" THEN "wait" ELSE "stop"
  /\ UNCHANGED <<client, counter, signalled, m_watch_set, wsi, idle, skip_wait, limiter>>

(* yield(); wait(poll_timer) *)
wait_poll_timer ==
  /\ pc = "wait_timer"
  /\ Wait(poll_timer)
  /\ pc' = "start"
  /\ UNCHANGED <<client, counter, signalled, m_watch_set, wsi, limiter>>

(* m_poll_rate_limiter.stop() *)
stop_timer ==
  /\ pc = "stop"
  /\ IF limiter = "running"
       THEN limiter' = "off" /\ pc' = "wait"
       ELSE pc' = "expire" /\ UNCHANGED limiter
  /\ UNCHANGED <<client, counter, signalled, m_watch_set, wsi, idle, skip_wait>>

(* Mutant: the late signal is not nullified. *)
wait_for_expire_only ==
  /\ pc = "expire"
  /\ limiter = "off"
  /\ pc' = "wait"
  /\ UNCHANGED <<client, counter, signalled, m_watch_set, wsi, idle, skip_wait, limiter>>

(* The timer fired: wait till it returned and nullify its signal. *)
wait_for_possible_expire_to_finish ==
  /\ pc = "expire"
  /\ limiter = "off"
  /\ Wait(poll_timer)
  /\ pc' = "wait"
  /\ UNCHANGED <<client, counter, signalled, m_watch_set, wsi, limiter>>

(* wait(have_semaphores) *)
wait_have_semaphores ==
  /\ pc = "wait"
  /\ Wait(have_semaphores)
  /\ pc' = "start"
  /\ UNCHANGED <<client, counter, signalled, m_watch_set, wsi, limiter>>

(* The timer's thread: the timer fires, then calls signal(poll_timer). *)
timer_fires ==
  /\ limiter = "running"
  /\ limiter' = "expiring"
  /\ UNCHANGED <<client, counter, signalled, m_watch_set, wsi, task>>

timer_expire ==
  /\ limiter = "expiring"
  /\ limiter' = "off"
  /\ Signal(poll_timer)
  /\ UNCHANGED <<client, counter, signalled, m_watch_set, wsi, pc>>

---------------------------------------------------------------------------
Watcher ==
  \/ poll_start \/ poll_semaphore \/ poll_return \/ wait_poll_timer
  \/ stop_timer \/ wait_for_possible_expire_to_finish \/ wait_have_semaphores

Timer == timer_fires \/ timer_expire

Client(s) == submit(s) \/ add_existing(s) \/ add_new(s) \/ remove(s)

Next ==
  \/ Watcher
  \/ Timer
  \/ \E s \in Semaphores : Client(s) \/ gpu(s)

Spec == Init /\ [][Next]_vars

(* The engine keeps running a task that isn't idle, the timer fires, and the
   GPU finishes what was submitted. *)
FairSpec ==
  /\ Spec
  /\ WF_vars(Watcher)
  /\ WF_vars(Timer)
  /\ \A s \in Semaphores : WF_vars(gpu(s))

---------------------------------------------------------------------------
Values == 1..MaxValue

(* The type invariant: what every variable can be. *)
TypeOK ==
  /\ submitted \in [Semaphores -> 0..MaxValue]
  /\ counter \in [Semaphores -> 0..MaxValue]
  /\ removed \subseteq Semaphores
  /\ signalled \in [Semaphores -> SUBSET Values]
  /\ added \in [Semaphores -> SUBSET Values]
  /\ m_watch_set \in Seq([semaphore : Semaphores, value : Values, triplets : Seq(Values)])
  /\ wsi \in Nat \ {0}
  /\ pc \in {"start", "poll", "wait_timer", "stop", "expire", "wait"}
  /\ idle \in {"none", have_semaphores, poll_timer}
  /\ skip_wait \subseteq {have_semaphores, poll_timer}
  /\ limiter \in {"none", "off", "running", "expiring"}

(* The values that tasks wait for, per semaphore: those in the watch set. *)
Waiting == [s \in Semaphores |->
  UNION {{m_watch_set[i].triplets[j] : j \in DOMAIN m_watch_set[i].triplets} :
           i \in {k \in DOMAIN m_watch_set : m_watch_set[k].semaphore = s}}]

(* SemaphoreWatcher implements what it promises: no task is signalled early,
   twice, or after remove() returned. *)
Promise == INSTANCE SemaphoreNotification WITH waiting <- Waiting
Notifies == Promise!Spec

(* However poll() swaps and erases entries, every value that add() was called
   with was signalled, or is in the watch set, or its semaphore was removed. *)
NothingLost ==
  \A s \in Semaphores \ removed : added[s] = signalled[s] \cup Waiting[s]

(* The watcher never waits for semaphores while there are any: a semaphore that
   is added between poll() and wait(have_semaphores) is not missed. *)
WatcherAwake == m_watch_set # <<>> => idle # have_semaphores

(* The poll rate limiter is only started when it is off and the signal of the
   previous time was dealt with; nullifying that signal never makes it idle. *)
LimiterDiscipline ==
  /\ pc = "start" /\ idle = "none" => limiter \in {"none", "off"} /\ poll_timer \notin skip_wait
  /\ pc = "wait" => idle = "none"

(* A task that polls for a value is signalled once the GPU got there, unless
   the semaphore was removed. *)
EverySignalled == \A s \in Semaphores : \A v \in Values :
  v \in added[s] ~> (v \in signalled[s] \/ s \in removed)

(* SemaphoreWatcherWatchData::m_signal_value is "The counter value that it must
   reach before we can call signal on a task": the first task's value. *)
WatchesFirstValue ==
  \A i \in DOMAIN m_watch_set : m_watch_set[i].value = m_watch_set[i].triplets[1]
==========================================================================
