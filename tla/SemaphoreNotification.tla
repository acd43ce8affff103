---------------------- MODULE SemaphoreNotification ----------------------
(* What task::SemaphoreWatcher promises to the users of a TimelineSemaphore:
   a task that polls for a value of a semaphore is signalled at most once,
   not before the semaphore's counter reached that value, and not after the
   semaphore was removed. *)
EXTENDS Integers

CONSTANTS Semaphores,   \* the timeline semaphores
          MaxValue      \* bound on the values a semaphore is submitted with

VARIABLES submitted,    \* TimelineSemaphore::m_signal_value, per semaphore
          counter,      \* the semaphore's counter value, that the GPU advances
          waiting,      \* the values that are polled for, per semaphore
          signalled,    \* the values whose task was signalled, per semaphore
          removed       \* the semaphores that remove_poll was called for

abstractVars == <<submitted, counter, waiting, signalled, removed>>

Init ==
  /\ submitted = [s \in Semaphores |-> 0]
  /\ counter = [s \in Semaphores |-> 0]
  /\ waiting = [s \in Semaphores |-> {}]
  /\ signalled = [s \in Semaphores |-> {}]
  /\ removed = {}

(* Queue::submit uses the next value of the semaphore. *)
Submit(s) ==
  /\ s \notin removed
  /\ submitted[s] < MaxValue
  /\ submitted' = [submitted EXCEPT ![s] = @ + 1]
  /\ UNCHANGED <<counter, waiting, signalled, removed>>

(* TimelineSemaphore::add_poll polls for the last value that was submitted. *)
AddPoll(s) ==
  /\ s \notin removed
  /\ submitted[s] > 0
  /\ submitted[s] \notin waiting[s] \cup signalled[s]
  /\ waiting' = [waiting EXCEPT ![s] = @ \cup {submitted[s]}]
  /\ UNCHANGED <<submitted, counter, signalled, removed>>

(* The GPU finishes the oldest submit. *)
Advance(s) ==
  /\ counter[s] < submitted[s]
  /\ counter' = [counter EXCEPT ![s] = @ + 1]
  /\ UNCHANGED <<submitted, waiting, signalled, removed>>

(* Tasks are signalled whose value was reached. *)
Notify(s) ==
  /\ \E V \in SUBSET {v \in waiting[s] : v <= counter[s]} :
       /\ V # {}
       /\ waiting' = [waiting EXCEPT ![s] = @ \ V]
       /\ signalled' = [signalled EXCEPT ![s] = @ \cup V]
  /\ UNCHANGED <<submitted, counter, removed>>

(* TimelineSemaphore::remove_poll: no task is signalled for it anymore. *)
RemovePoll(s) ==
  /\ s \notin removed
  /\ removed' = removed \cup {s}
  /\ waiting' = [waiting EXCEPT ![s] = {}]
  /\ UNCHANGED <<submitted, counter, signalled>>

Next == \E s \in Semaphores :
  Submit(s) \/ AddPoll(s) \/ Advance(s) \/ Notify(s) \/ RemovePoll(s)

Spec == Init /\ [][Next]_abstractVars
==========================================================================
