--------------------- MODULE SemaphoreWatcherProofs ---------------------
(* Proofs about SemaphoreWatcher: the watcher sleeps only when there is nothing
   to watch, its poll rate limiter is used the way its comments say, and whatever
   poll() does to its sequences, it keeps the promise of SemaphoreNotification. *)
EXTENDS SemaphoreWatcher, SequenceTheorems, FiniteSetTheorems, TLAPS

(* The part of TypeOK that concerns the task and its timer. *)
TaskTypeOK ==
  /\ pc \in {"start", "poll", "wait_timer", "stop", "expire", "wait"}
  /\ idle \in {"none", "have_semaphores", "poll_timer"}
  /\ skip_wait \subseteq {"have_semaphores", "poll_timer"}
  /\ limiter \in {"none", "off", "running", "expiring"}

(* Why the watcher is awake: it goes idle only at the end of multiplex_impl, and
   once poll() found nothing, whoever adds a semaphore leaves a signal. *)
AwakeInv ==
  /\ idle # "none" => pc = "start"
  /\ pc \in {"stop", "expire", "wait"} /\ m_watch_set # <<>> => "have_semaphores" \in skip_wait
  /\ idle = "have_semaphores" => m_watch_set = <<>>

(* Why the timer is off and without a signal when it is started: it runs, or
   its signal is pending, only from then until it was waited for or stopped. *)
LimiterInv ==
  /\ limiter = "none" => /\ pc \in {"start", "poll", "wait"}
                         /\ idle # "poll_timer" /\ "poll_timer" \notin skip_wait
  /\ idle = "poll_timer" => limiter \in {"running", "expiring"} /\ "poll_timer" \notin skip_wait
  /\ pc = "start" /\ idle # "poll_timer" => limiter \in {"none", "off"} /\ "poll_timer" \notin skip_wait
  /\ pc = "wait" => limiter \in {"none", "off"} /\ "poll_timer" \notin skip_wait
  /\ limiter \in {"running", "expiring"} => "poll_timer" \notin skip_wait
  /\ pc \in {"poll", "wait_timer", "stop"} /\ limiter = "off" => "poll_timer" \in skip_wait
  /\ pc = "expire" => (limiter = "expiring" \/ (limiter = "off" /\ "poll_timer" \in skip_wait))

Inv == TaskTypeOK /\ AwakeInv /\ LimiterInv

USE DEF client, task, have_semaphores, poll_timer

LEMMA InitInv == Init => Inv
BY DEF Init, Inv, TaskTypeOK, AwakeInv, LimiterInv

(* Appending to the watch set or removing from an empty one: the only facts
   about sequences that the argument needs. *)
LEMMA StepInv == Inv /\ [Next]_vars => Inv'
<1> SUFFICES ASSUME Inv, [Next]_vars PROVE Inv'
  OBVIOUS
<1> USE DEF Inv, TaskTypeOK, AwakeInv, LimiterInv
<1>1. CASE poll_start
  BY <1>1 DEF poll_start
<1>2. CASE poll_semaphore
  BY <1>2 DEF poll_semaphore
<1>3. CASE poll_return
  BY <1>3 DEF poll_return
<1>4. CASE wait_poll_timer
  BY <1>4 DEF wait_poll_timer, Wait
<1>5. CASE stop_timer
  BY <1>5 DEF stop_timer
<1>6. CASE wait_for_possible_expire_to_finish
  BY <1>6 DEF wait_for_possible_expire_to_finish, Wait
<1>7. CASE wait_have_semaphores
  BY <1>7 DEF wait_have_semaphores, Wait
<1>8. CASE timer_fires
  BY <1>8 DEF timer_fires
<1>9. CASE timer_expire
  BY <1>9 DEF timer_expire, Signal
<1>10. ASSUME NEW s \in Semaphores, submit(s) PROVE Inv'
  BY <1>10 DEF submit
<1>11. ASSUME NEW s \in Semaphores, add_existing(s) PROVE Inv'
  <2>1. m_watch_set # <<>>
    BY <1>11 DEF add_existing
  <2> QED BY <1>11, <2>1 DEF add_existing, CanAdd
<1>12. ASSUME NEW s \in Semaphores, add_new(s) PROVE Inv'
  BY <1>12 DEF add_new, CanAdd, Locked, Signal
<1>13. ASSUME NEW s \in Semaphores, remove(s) PROVE Inv'
  <2>1. m_watch_set = <<>> => m_watch_set' = <<>>
    BY <1>13 DEF remove, Watched
  <2> QED BY <1>13, <2>1 DEF remove
<1>14. ASSUME NEW s \in Semaphores, gpu(s) PROVE Inv'
  BY <1>14 DEF gpu
<1>15. CASE UNCHANGED vars
  BY <1>15 DEF vars
<1> QED
  BY <1>1, <1>2, <1>3, <1>4, <1>5, <1>6, <1>7, <1>8, <1>9, <1>10, <1>11, <1>12, <1>13, <1>14, <1>15
  DEF Next, Watcher, Timer, Client

(* The watcher is never asleep while a semaphore is being watched: whatever the
   moment at which another thread calls add, its signal is not lost between
   poll() and wait(have_semaphores). *)
THEOREM NeverAsleep == Spec => []WatcherAwake
<1>1. Inv => WatcherAwake
  BY DEF Inv, AwakeInv, WatcherAwake
<1> QED
  BY InitInv, StepInv, <1>1, PTL DEF Spec

(* AsyncSemaphoreWatcher::multiplex_impl starts its timer only when it is off and
   without a stale signal, and the wait that nullifies the signal of a timer
   that could not be stopped never makes the watcher go idle. *)
THEOREM Limiter == Spec => []LimiterDiscipline
<1>1. Inv => LimiterDiscipline
  BY DEF Inv, TaskTypeOK, AwakeInv, LimiterInv, LimiterDiscipline
<1> QED
  BY InitInv, StepInv, <1>1, PTL DEF Spec
---------------------------------------------------------------------------
(* What the watch set contains. *)

EntryType == [semaphore : Semaphores, value : Values, triplets : Seq(Values)]

(* A task waits for value v of semaphore s. *)
Awaits(ws, s, v) ==
  \E i \in DOMAIN ws : /\ ws[i].semaphore = s
                       /\ \E j \in DOMAIN ws[i].triplets : ws[i].triplets[j] = v

(* Waiting, of any watch set. *)
WaitingIn(ws) == [s \in Semaphores |->
  UNION {{ws[i].triplets[j] : j \in DOMAIN ws[i].triplets} :
           i \in {k \in DOMAIN ws : ws[k].semaphore = s}}]

Distinct(ws) == \A i, j \in DOMAIN ws : ws[i].semaphore = ws[j].semaphore => i = j
Sorted(triplets) == \A j, k \in DOMAIN triplets : j < k => triplets[j] < triplets[k]

DataTypes ==
  /\ submitted \in [Semaphores -> 0..MaxValue]
  /\ counter \in [Semaphores -> 0..MaxValue]
  /\ removed \subseteq Semaphores
  /\ signalled \in [Semaphores -> SUBSET Values]
  /\ added \in [Semaphores -> SUBSET Values]
  /\ m_watch_set \in Seq(EntryType)
  /\ wsi \in Nat \ {0}

(* Every semaphore has one entry, whose values grow, and none once it is removed. *)
WatchSet ==
  /\ Distinct(m_watch_set)
  /\ \A i \in DOMAIN m_watch_set : /\ Sorted(m_watch_set[i].triplets)
                                    /\ m_watch_set[i].semaphore \notin removed

(* A value is only polled for once it was submitted. *)
History ==
  /\ \A s \in Semaphores : added[s] \subseteq 1..submitted[s]
  /\ NothingLost

WInv == DataTypes /\ WatchSet /\ History

LEMMA WaitingMeans ==
  ASSUME NEW ws, NEW s \in Semaphores, NEW v
  PROVE  v \in WaitingIn(ws)[s] <=> Awaits(ws, s, v)
BY DEF WaitingIn, Awaits

LEMMA WaitingNow ==
  /\ Waiting = WaitingIn(m_watch_set)
  /\ Waiting' = WaitingIn(m_watch_set')
BY DEF Waiting, WaitingIn

(* Watch set ws2 differs from ws in the values of semaphore s only. *)
Differs(ws, ws2, s, V) ==
  /\ \A v : Awaits(ws2, s, v) <=> v \in V
  /\ \A r \in Semaphores \ {s} : \A v : Awaits(ws2, r, v) <=> Awaits(ws, r, v)

LEMMA WaitingExcept ==
  ASSUME NEW ws, NEW ws2, NEW s \in Semaphores, NEW V, Differs(ws, ws2, s, V)
  PROVE  /\ WaitingIn(ws2)[s] = V
         /\ \A r \in Semaphores \ {s} : WaitingIn(ws2)[r] = WaitingIn(ws)[r]
<1> DEFINE f == WaitingIn(ws2)
           h == WaitingIn(ws)
<1>1. \A r \in Semaphores : f[r] = IF r = s THEN V ELSE h[r]
  <2> TAKE r \in Semaphores
  <2>1. \A v : (v \in f[r] <=> Awaits(ws2, r, v)) /\ (v \in h[r] <=> Awaits(ws, r, v)) BY WaitingMeans
  <2> HIDE DEF f, h
  <2> QED BY <2>1 DEF Differs
<1> QED BY <1>1

LEMMA WaitingFunction ==
  ASSUME NEW ws
  PROVE  WaitingIn(ws) = [r \in Semaphores |-> WaitingIn(ws)[r]]
BY DEF WaitingIn

(* The values that are waited for of a semaphore are those of its entry. *)
LEMMA OneEntry ==
  ASSUME NEW ws, Distinct(ws), NEW i \in DOMAIN ws, ws[i].semaphore \in Semaphores
  PROVE  WaitingIn(ws)[ws[i].semaphore] = {ws[i].triplets[j] : j \in DOMAIN ws[i].triplets}
<1> DEFINE s == ws[i].semaphore
           W == {ws[i].triplets[j] : j \in DOMAIN ws[i].triplets}
<1>1. \A v : Awaits(ws, s, v) <=> v \in W BY DEF Awaits, Distinct
<1>2. \A v : v \in WaitingIn(ws)[s] <=> Awaits(ws, s, v) BY WaitingMeans
<1> HIDE DEF W, s
<1>3. WaitingIn(ws)[s] = W BY <1>1, <1>2
<1> QED BY <1>3 DEF W, s

LEMMA WatchFacts ==
  ASSUME DataTypes
  PROVE  /\ Len(m_watch_set) \in Nat /\ DOMAIN m_watch_set = 1..Len(m_watch_set)
         /\ \A i \in DOMAIN m_watch_set :
              /\ m_watch_set[i] \in EntryType /\ m_watch_set[i].semaphore \in Semaphores
              /\ m_watch_set[i].triplets \in Seq(Values)
              /\ Len(m_watch_set[i].triplets) \in Nat
              /\ DOMAIN m_watch_set[i].triplets = 1..Len(m_watch_set[i].triplets)
              /\ \A j \in DOMAIN m_watch_set[i].triplets : m_watch_set[i].triplets[j] \in Values
<1>1. m_watch_set \in Seq(EntryType) BY DEF DataTypes
<1>2. /\ Len(m_watch_set) \in Nat /\ DOMAIN m_watch_set = 1..Len(m_watch_set)
      /\ \A i \in DOMAIN m_watch_set : m_watch_set[i] \in EntryType
  BY <1>1, LenProperties, ElementOfSeq
<1>3. \A i \in DOMAIN m_watch_set :
        /\ m_watch_set[i].semaphore \in Semaphores /\ m_watch_set[i].triplets \in Seq(Values)
  BY <1>2 DEF EntryType
<1>4. \A i \in DOMAIN m_watch_set :
        /\ Len(m_watch_set[i].triplets) \in Nat
        /\ DOMAIN m_watch_set[i].triplets = 1..Len(m_watch_set[i].triplets)
        /\ \A j \in DOMAIN m_watch_set[i].triplets : m_watch_set[i].triplets[j] \in Values
  BY <1>3, LenProperties, ElementOfSeq
<1> QED BY <1>2, <1>3, <1>4

(* What remove_at leaves: every other entry, and nothing else. *)
LEMMA RemoveAt ==
  ASSUME NEW T, NEW ws \in Seq(T), NEW i \in 1..Len(ws)
  PROVE  LET w == remove_at(ws, i)
         IN /\ w \in Seq(T) /\ Len(w) = Len(ws) - 1 /\ DOMAIN w = 1..Len(ws)-1
            /\ \A k \in 1..Len(ws)-1 : w[k] = IF k = i THEN ws[Len(ws)] ELSE ws[k]
<1> DEFINE N == Len(ws)
           u == [ws EXCEPT ![i] = ws[N]]
           w == remove_at(ws, i)
<1>1. N \in Nat /\ N \in 1..N /\ i \in 1..N BY LenProperties
<1>2. ws[N] \in T BY <1>1, ElementOfSeq
<1>3. /\ u \in Seq(T) /\ Len(u) = N
      /\ \A j \in 1..N : u[j] = IF j = i THEN ws[N] ELSE ws[j]
  BY <1>1, <1>2, ExceptSeq
<1>4. w = SubSeq(u, 1, N - 1) BY DEF remove_at
<1> HIDE DEF u, w, N
<1>5. \A j \in 1..N-1 : u[j] \in T BY <1>1, <1>3, ElementOfSeq
<1>6. /\ w \in Seq(T) /\ Len(w) = IF 1 <= N - 1 THEN N - 1 - 1 + 1 ELSE 0
      /\ \A k \in 1..(N-1)-1+1 : w[k] = u[1 + k - 1]
  BY <1>1, <1>4, <1>5, SubSeqProperties
<1>7. Len(w) = N - 1 BY <1>1, <1>6
<1>8. DOMAIN w = 1..N-1 BY <1>6, <1>7, LenProperties
<1>9. \A k \in 1..N-1 : w[k] = IF k = i THEN ws[N] ELSE ws[k]
  <2> TAKE k \in 1..N-1
  <2>1. k \in 1..(N-1)-1+1 /\ 1 + k - 1 = k /\ k \in 1..N BY <1>1
  <2> QED BY <1>3, <1>6, <2>1
<1> QED BY <1>6, <1>7, <1>8, <1>9 DEF w, N

LEMMA RemoveEntry ==
  ASSUME NEW ws \in Seq(EntryType), Distinct(ws), NEW i \in 1..Len(ws)
  PROVE  LET w == remove_at(ws, i)
             s == ws[i].semaphore
         IN /\ w \in Seq(EntryType) /\ Distinct(w)
            /\ \A k \in DOMAIN w : \E l \in DOMAIN ws : w[k] = ws[l] /\ ws[l].semaphore # s
            /\ WaitingIn(w) = [WaitingIn(ws) EXCEPT ![s] = {}]
<1> DEFINE w == remove_at(ws, i)
           N == Len(ws)
           s == ws[i].semaphore
<1>1. /\ w \in Seq(EntryType) /\ DOMAIN w = 1..N-1 /\ N \in Nat /\ DOMAIN ws = 1..N
      /\ \A k \in 1..N-1 : w[k] = IF k = i THEN ws[N] ELSE ws[k]
  BY RemoveAt, LenProperties
<1>2. s \in Semaphores
  <2>1. ws[i] \in EntryType BY ElementOfSeq
  <2> QED BY <2>1 DEF EntryType
<1> HIDE DEF w, N
<1>3. i \in 1..N BY DEF N
<1>4. \A k \in DOMAIN w : \E l \in DOMAIN ws : w[k] = ws[l] /\ l # i /\ ws[l].semaphore # s
  <2> TAKE k \in DOMAIN w
  <2>1. CASE k = i
    <3>1. N \in DOMAIN ws /\ N # i /\ w[k] = ws[N] BY <1>1, <1>3, <2>1
    <3> QED BY <1>1, <1>3, <3>1 DEF Distinct
  <2>2. CASE k # i
    <3>1. k \in DOMAIN ws /\ w[k] = ws[k] BY <1>1, <2>2
    <3> QED BY <1>1, <1>3, <2>2, <3>1 DEF Distinct
  <2> QED BY <2>1, <2>2
<1>5. \A l \in DOMAIN ws : l # i => \E k \in DOMAIN w : w[k] = ws[l]
  <2> TAKE l \in DOMAIN ws
  <2> HAVE l # i
  <2>1. CASE l = N
    <3>1. i \in DOMAIN w /\ w[i] = ws[l] BY <1>1, <1>3, <2>1
    <3> QED BY <3>1
  <2>2. CASE l # N
    <3>1. l \in DOMAIN w /\ w[l] = ws[l] BY <1>1, <2>2
    <3> QED BY <3>1
  <2> QED BY <2>1, <2>2
<1>6. Distinct(w)
  <2> SUFFICES ASSUME NEW k \in DOMAIN w, NEW l \in DOMAIN w, w[k].semaphore = w[l].semaphore
               PROVE  k = l
    BY DEF Distinct
  <2> DEFINE from(x) == IF x = i THEN N ELSE x
  <2>1. from(k) \in DOMAIN ws /\ from(l) \in DOMAIN ws /\ w[k] = ws[from(k)] /\ w[l] = ws[from(l)]
    BY <1>1
  <2>2. from(k) = from(l) BY <2>1 DEF Distinct
  <2> QED BY <1>1, <2>2
<1>7. \A v : ~Awaits(w, s, v) BY <1>4 DEF Awaits
<1>8. \A r \in Semaphores \ {s} : \A v : Awaits(w, r, v) <=> Awaits(ws, r, v)
  <2> TAKE r \in Semaphores \ {s}
  <2> TAKE v
  <2>1. ASSUME Awaits(w, r, v) PROVE Awaits(ws, r, v) BY <1>4, <2>1 DEF Awaits
  <2>2. ASSUME Awaits(ws, r, v) PROVE Awaits(w, r, v)
    <3>1. PICK l \in DOMAIN ws : /\ ws[l].semaphore = r
                                 /\ \E j \in DOMAIN ws[l].triplets : ws[l].triplets[j] = v
      BY <2>2 DEF Awaits
    <3>2. l # i BY <3>1
    <3>3. PICK k \in DOMAIN w : w[k] = ws[l] BY <1>5, <3>2
    <3> QED BY <3>1, <3>3 DEF Awaits
  <2> QED BY <2>1, <2>2
<1> HIDE DEF s
<1>9. Differs(ws, w, s, {}) BY <1>7, <1>8 DEF Differs
<1>10. WaitingIn(w) = [WaitingIn(ws) EXCEPT ![s] = {}]
  <2>1. /\ WaitingIn(w)[s] = {}
        /\ \A r \in Semaphores \ {s} : WaitingIn(w)[r] = WaitingIn(ws)[r]
    BY <1>2, <1>9, WaitingExcept
  <2> QED BY <2>1, WaitingFunction
<1> QED BY <1>1, <1>4, <1>6, <1>10 DEF w, s

(* A part of a sequence that is closed downwards is an initial interval of it. *)
LEMMA InitialPart ==
  ASSUME NEW p \in Nat, NEW I \in SUBSET (1..p), \A i \in I : \A j \in 1..i : j \in I
  PROVE  I = 1..Cardinality(I) /\ Cardinality(I) \in 0..p
<1>1. IsFiniteSet(1..p) /\ Cardinality(1..p) = p BY FS_Interval
<1>2. IsFiniteSet(I) /\ Cardinality(I) <= p /\ Cardinality(I) \in Nat
  BY <1>1, FS_Subset, FS_CardinalityType
<1>3. \A i \in I : i \in 1..Cardinality(I)
  <2> TAKE i \in I
  <2>1. i \in Nat /\ i >= 1 OBVIOUS
  <2>2. 1..i \subseteq I OBVIOUS
  <2>3. Cardinality(1..i) = i BY <2>1, FS_Interval
  <2>4. i <= Cardinality(I) BY <1>2, <2>2, <2>3, FS_Subset
  <2> QED BY <1>2, <2>1, <2>4
<1>4. Cardinality(1..Cardinality(I)) = Cardinality(I) /\ IsFiniteSet(1..Cardinality(I))
  BY <1>2, FS_Interval
<1>5. I \in SUBSET (1..Cardinality(I)) BY <1>3
<1>6. 1..Cardinality(I) = I BY <1>4, <1>5, FS_Subset
<1> QED BY <1>2, <1>6

(* The loop over the triplets of an entry stops at the first one that was not
   reached. *)
LEMMA UnreachedIndex ==
  ASSUME NEW t \in Seq(Values), Sorted(t), NEW value \in Nat
  PROVE  LET n == FirstUnreached(t, value)
         IN /\ n \in 1..Len(t)+1
            /\ \A j \in 1..n-1 : t[j] <= value
<1> DEFINE L == Len(t)
           I == {k \in 1..L : t[k] <= value}
           c == Cardinality(I)
           n == FirstUnreached(t, value)
<1>1. L \in Nat /\ DOMAIN t = 1..L /\ \A k \in 1..L : t[k] \in Nat
  BY LenProperties, ElementOfSeq, MaxValueAssumption DEF Values
<1>2. \A i \in I : \A j \in 1..i : j \in I
  <2> TAKE i \in I
  <2> TAKE j \in 1..i
  <2>1. i \in 1..L /\ t[i] <= value /\ j \in 1..L /\ j <= i BY <1>1
  <2>2. j = i \/ t[j] < t[i] BY <1>1, <2>1 DEF Sorted
  <2>3. t[j] <= value BY <1>1, <2>1, <2>2
  <2> QED BY <2>1, <2>3
<1>3. I = 1..c /\ c \in 0..L
  <2>1. I \in SUBSET (1..L) OBVIOUS
  <2> HIDE DEF I, L
  <2> QED BY <1>1, <1>2, <2>1, InitialPart
<1> DEFINE First(k) == value < t[k] /\ \A j \in 1..k-1 : value >= t[j]
<1>4. CASE \E k \in DOMAIN t : value < t[k]
  <2>1. PICK k \in DOMAIN t : value < t[k] BY <1>4
  <2>2. k \in 1..L /\ k \notin I BY <1>1, <2>1
  <2>3. c+1 \in 1..L
    <3> HIDE DEF I, L, c
    <3> QED BY <1>1, <1>3, <2>2
  <2>4. c+1 \notin I
    <3> HIDE DEF I, c
    <3> QED BY <1>3
  <2>5. \A j \in 1..(c+1)-1 : j \in I
    <3> HIDE DEF I, c
    <3> QED BY <1>3
  <2>6. c+1 \in DOMAIN t /\ First(c+1) BY <1>1, <2>3, <2>4, <2>5
  <2> HIDE DEF c, L, I, First
  <2>7. \E m \in DOMAIN t : First(m) BY <2>6
  <2>8. n = CHOOSE m \in DOMAIN t : First(m) BY <1>4 DEF FirstUnreached, First
  <2> HIDE DEF n
  <2>9. n \in DOMAIN t /\ First(n) BY <2>7, <2>8
  <2>10. n \in 1..L+1 BY <1>1, <2>9
  <2>11. \A j \in 1..n-1 : t[j] <= value
    <3> TAKE j \in 1..n-1
    <3>1. j \in 1..L /\ t[j] \in Nat BY <1>1, <2>9
    <3> QED BY <2>9, <3>1 DEF First
  <2> QED BY <2>10, <2>11 DEF n, L
<1>5. CASE ~\E k \in DOMAIN t : value < t[k]
  <2>1. n = L+1 BY <1>5 DEF FirstUnreached
  <2>2. \A j \in 1..L : t[j] <= value BY <1>1, <1>5
  <2> HIDE DEF n
  <2>3. n \in 1..L+1 /\ n-1 = L BY <1>1, <2>1
  <2> QED BY <2>2, <2>3 DEF n
<1> QED BY <1>4, <1>5

(* What remains of a sequence when its first n - 1 elements are erased. *)
LEMMA DropFirst ==
  ASSUME NEW t \in Seq(Values), NEW n \in 1..Len(t)+1
  PROVE  /\ SubSeq(t, n, Len(t)) \in Seq(Values)
         /\ Len(SubSeq(t, n, Len(t))) = Len(t) - n + 1
         /\ \A i \in 1..Len(t) - n + 1 : SubSeq(t, n, Len(t))[i] = t[n + i - 1]
<1> DEFINE l == Len(t)
<1>1. n \in Nat /\ l \in Nat /\ n <= l+1 BY LenProperties
<1>2. n \in Int /\ l \in Int BY <1>1
<1>3. \A i \in n..l : t[i] \in Values
  <2> TAKE i \in n..l
  <2>1. i \in 1..Len(t) BY <1>1
  <2> QED BY <2>1, ElementOfSeq
<1> HIDE DEF l
<1>4. /\ SubSeq(t, n, l) \in Seq(Values)
      /\ Len(SubSeq(t, n, l)) = IF n <= l THEN l - n + 1 ELSE 0
      /\ \A i \in 1..l - n + 1 : SubSeq(t, n, l)[i] = t[n + i - 1]
  BY <1>2, <1>3, SubSeqProperties
<1>5. Len(SubSeq(t, n, l)) = l - n + 1 BY <1>1, <1>4
<1> QED BY <1>4, <1>5 DEF l
---------------------------------------------------------------------------
(* Every step keeps the promise of SemaphoreNotification. *)

Kept == [Promise!Next]_(Promise!abstractVars)

(* The steps of the watcher that do not touch the watch set. *)
LEMMA SameWatch ==
  ASSUME WInv, UNCHANGED <<submitted, counter, removed, signalled, added, m_watch_set>>,
         wsi' \in Nat \ {0}
  PROVE  WInv' /\ Kept
<1>1. Waiting' = Waiting BY WaitingNow
<1>2. WInv' BY <1>1 DEF WInv, DataTypes, WatchSet, History, NothingLost
<1> QED BY <1>1, <1>2 DEF Kept, Promise!abstractVars

LEMMA SubmitKept ==
  ASSUME WInv, NEW s \in Semaphores, submit(s)
  PROVE  WInv' /\ Kept
<1> USE MaxValueAssumption
<1>1. /\ s \notin removed /\ submitted[s] < MaxValue
      /\ submitted' = [submitted EXCEPT ![s] = @ + 1]
      /\ UNCHANGED <<counter, removed, signalled, added, m_watch_set, wsi>>
  BY DEF submit
<1>2. Waiting' = Waiting BY <1>1, WaitingNow
<1>3. \A r \in Semaphores : submitted[r] \in 0..MaxValue /\ submitted'[r] \in 0..MaxValue /\ submitted[r] <= submitted'[r]
  BY <1>1 DEF WInv, DataTypes
<1>4. DataTypes' BY <1>1 DEF WInv, DataTypes
<1>5. WatchSet' BY <1>1 DEF WInv, WatchSet
<1>6. History'
  <2>1. \A r \in Semaphores : added[r] \subseteq 1..submitted'[r]
    <3> TAKE r \in Semaphores
    <3>1. 1..submitted[r] \subseteq 1..submitted'[r] BY <1>3
    <3> QED BY <3>1 DEF WInv, History
  <2> QED BY <1>1, <1>2, <2>1 DEF WInv, History, NothingLost
<1>7. Promise!Submit(s) BY <1>1, <1>2 DEF Promise!Submit
<1> QED BY <1>4, <1>5, <1>6, <1>7 DEF WInv, Kept, Promise!Next

LEMMA GpuKept ==
  ASSUME WInv, NEW s \in Semaphores, gpu(s)
  PROVE  WInv' /\ Kept
<1> USE MaxValueAssumption
<1>1. /\ counter[s] < submitted[s] /\ counter' = [counter EXCEPT ![s] = @ + 1]
      /\ UNCHANGED <<submitted, removed, signalled, added, m_watch_set, wsi>>
  BY DEF gpu
<1>2. Waiting' = Waiting BY <1>1, WaitingNow
<1>3. DataTypes' BY <1>1 DEF WInv, DataTypes
<1>4. WatchSet' /\ History' BY <1>1, <1>2 DEF WInv, WatchSet, History, NothingLost
<1>5. Promise!Advance(s) BY <1>1, <1>2 DEF Promise!Advance
<1> QED BY <1>3, <1>4, <1>5 DEF WInv, Kept, Promise!Next

LEMMA WaitingAdd ==
  ASSUME NEW ws, NEW w, NEW s \in Semaphores, NEW V, Differs(ws, w, s, V),
         ws = m_watch_set, w = m_watch_set'
  PROVE  Waiting' = [Waiting EXCEPT ![s] = V]
<1>1. WaitingIn(w)[s] = V /\ \A r \in Semaphores \ {s} : WaitingIn(w)[r] = WaitingIn(ws)[r]
  BY WaitingExcept
<1>2. /\ Waiting = [r \in Semaphores |-> Waiting[r]]
      /\ Waiting' = [r \in Semaphores |-> Waiting'[r]]
  BY DEF Waiting
<1> QED BY <1>1, <1>2, WaitingNow

(* A value that is added is the highest one of its semaphore. *)
LEMMA AddKept ==
  ASSUME WInv, NEW s \in Semaphores, CanAdd(s),
         UNCHANGED <<submitted, counter, removed, signalled, wsi>>,
         m_watch_set' \in Seq(EntryType), WatchSet',
         Waiting' = [Waiting EXCEPT ![s] = @ \cup {submitted[s]}]
  PROVE  WInv' /\ Kept
<1> USE MaxValueAssumption
<1> DEFINE v == submitted[s]
<1>1. Waiting' = [Waiting EXCEPT ![s] = @ \cup {v}] OBVIOUS
<1>2. /\ s \notin removed /\ v > 0 /\ v \notin added[s]
      /\ added' = [added EXCEPT ![s] = @ \cup {v}]
  BY DEF CanAdd
<1>3. v \in Values /\ v \in 1..v BY <1>2 DEF WInv, DataTypes, Values
<1>4. DataTypes' BY <1>2, <1>3 DEF WInv, DataTypes
<1>5. DOMAIN Waiting = Semaphores BY DEF Waiting
<1>6. History'
  <2>1. \A r \in Semaphores : added'[r] \subseteq 1..submitted[r]
    BY <1>2, <1>3 DEF WInv, DataTypes, History
  <2>2. \A r \in Semaphores \ removed : added'[r] = signalled[r] \cup Waiting'[r]
    <3> TAKE r \in Semaphores \ removed
    <3>1. added[r] = signalled[r] \cup Waiting[r] BY DEF WInv, History, NothingLost
    <3>2. CASE r = s BY <1>1, <1>2, <1>5, <3>1, <3>2 DEF WInv, DataTypes
    <3>3. CASE r # s BY <1>1, <1>2, <1>5, <3>1, <3>3 DEF WInv, DataTypes
    <3> QED BY <3>2, <3>3
  <2> QED BY <2>1, <2>2 DEF History, NothingLost
<1>7. Promise!AddPoll(s)
  <2>1. v \notin Waiting[s] \cup signalled[s] BY <1>2 DEF WInv, History, NothingLost
  <2> QED BY <1>1, <1>2, <2>1 DEF Promise!AddPoll
<1> QED BY <1>4, <1>6, <1>7 DEF WInv, Kept, Promise!Next

LEMMA AddExistingKept ==
  ASSUME WInv, NEW s \in Semaphores, add_existing(s)
  PROVE  WInv' /\ Kept
<1> USE MaxValueAssumption, WatchFacts
<1> DEFINE ws == m_watch_set
           v == submitted[s]
<1>1. PICK i \in DOMAIN ws :
        /\ ws[i].semaphore = s
        /\ ws' = [ws EXCEPT ![i].triplets = Append(@, v)]
  BY DEF add_existing
<1>2. DataTypes /\ ws \in Seq(EntryType) BY DEF WInv, DataTypes
<1> DEFINE t == ws[i].triplets
           n == Len(t)
           e == [ws[i] EXCEPT !.triplets = Append(t, v)]
<1>3. CanAdd(s) /\ v \in Values /\ v \notin added[s] /\ s \notin removed
  BY <1>2 DEF add_existing, CanAdd, DataTypes, Values
<1>4. /\ t \in Seq(Values) /\ n \in Nat /\ DOMAIN t = 1..n /\ ws[i] \in EntryType BY <1>2
<1>5. /\ Append(t, v) \in Seq(Values) /\ DOMAIN Append(t, v) = 1..n+1
      /\ Append(t, v)[n+1] = v /\ \A j \in 1..n : Append(t, v)[j] = t[j]
  <2>1. /\ Append(t, v) \in Seq(Values) /\ Len(Append(t, v)) = n+1
        /\ Append(t, v)[n+1] = v /\ \A j \in 1..n : Append(t, v)[j] = t[j]
    BY <1>3, <1>4, AppendProperties
  <2>2. DOMAIN Append(t, v) = 1..Len(Append(t, v)) BY <2>1, LenProperties
  <2> QED BY <2>1, <2>2
<1>6. e \in EntryType /\ e.semaphore = s /\ e.triplets = Append(t, v)
  BY <1>1, <1>4, <1>5 DEF EntryType
<1> HIDE DEF e
<1>7. /\ ws' \in Seq(EntryType) /\ DOMAIN ws' = DOMAIN ws
      /\ \A j \in DOMAIN ws : ws'[j] = IF j = i THEN e ELSE ws[j]
  <2>1. ws' = [ws EXCEPT ![i] = e] BY <1>1 DEF e
  <2>2. i \in 1..Len(ws) BY <1>2
  <2>3. /\ ws' \in Seq(EntryType) /\ Len(ws') = Len(ws)
        /\ \A j \in 1..Len(ws) : ws'[j] = IF j = i THEN e ELSE ws[j]
    BY <1>2, <1>6, <2>1, <2>2, ExceptSeq
  <2>4. DOMAIN ws' = 1..Len(ws') BY <2>3, LenProperties
  <2> QED BY <1>2, <2>3, <2>4
<1>8. \A j \in DOMAIN ws : ws'[j].semaphore = ws[j].semaphore BY <1>1, <1>6, <1>7
<1>9. Waiting[s] = {t[j] : j \in DOMAIN t} /\ Waiting[s] \subseteq added[s]
  <2>1. Distinct(ws) BY DEF WInv, WatchSet
  <2>2. Waiting[s] = {t[j] : j \in DOMAIN t} BY <1>1, <2>1, OneEntry, WaitingNow
  <2> QED BY <1>3, <2>2 DEF WInv, History, NothingLost
<1>10. \A j \in 1..n : t[j] < v
  <2> TAKE j \in 1..n
  <2>1. t[j] \in added[s] BY <1>4, <1>9
  <2>2. t[j] \in 1..v /\ t[j] # v BY <1>3, <2>1 DEF WInv, History
  <2> QED BY <1>3, <2>2 DEF Values
<1>11. Sorted(e.triplets)
  <2>1. Sorted(t) BY DEF WInv, WatchSet
  <2> SUFFICES ASSUME NEW j \in 1..n+1, NEW k \in 1..n+1, j < k
               PROVE  Append(t, v)[j] < Append(t, v)[k]
    BY <1>5, <1>6 DEF Sorted
  <2>2. j \in 1..n BY <1>4
  <2>3. CASE k \in 1..n BY <1>4, <1>5, <2>1, <2>2, <2>3 DEF Sorted
  <2>4. CASE k = n+1 BY <1>5, <1>10, <2>2, <2>4
  <2> QED BY <1>4, <2>3, <2>4
<1>12. WatchSet'
  <2>1. Distinct(ws') BY <1>7, <1>8 DEF WInv, WatchSet, Distinct
  <2>2. \A j \in DOMAIN ws' : Sorted(ws'[j].triplets) /\ ws'[j].semaphore \notin removed
    BY <1>1, <1>3, <1>6, <1>7, <1>11 DEF WInv, WatchSet
  <2>3. UNCHANGED removed BY DEF add_existing
  <2> QED BY <2>1, <2>2, <2>3 DEF WatchSet
<1>13. Waiting' = [Waiting EXCEPT ![s] = @ \cup {v}]
  <2> PICK w : w = ws' OBVIOUS
  <2> PICK V : V = Waiting[s] \cup {v} OBVIOUS
  <2>1. ASSUME NEW x PROVE Awaits(w, s, x) <=> x \in V
    <3>1. Awaits(w, s, x) <=> \E j \in 1..n+1 : Append(t, v)[j] = x
      BY <1>1, <1>5, <1>6, <1>7, <1>8 DEF Awaits, WInv, WatchSet, Distinct
    <3>2. (\E j \in 1..n+1 : Append(t, v)[j] = x) <=> (\E j \in 1..n : t[j] = x) \/ v = x
      BY <1>4, <1>5
    <3>3. x \in Waiting[s] <=> \E j \in 1..n : t[j] = x BY <1>4, <1>9
    <3> QED BY <3>1, <3>2, <3>3
  <2>2. \A r \in Semaphores \ {s} : \A x : Awaits(w, r, x) <=> Awaits(ws, r, x)
    <3> TAKE r \in Semaphores \ {s}
    <3> TAKE x
    <3>1. \A j \in DOMAIN ws : ws[j].semaphore = r => ws'[j] = ws[j] BY <1>1, <1>7
    <3> QED BY <1>7, <1>8, <3>1 DEF Awaits
  <2>3. Differs(ws, w, s, V) BY <2>1, <2>2 DEF Differs
  <2>4. Waiting' = [Waiting EXCEPT ![s] = V] BY <2>3, WaitingAdd
  <2> QED BY <2>4
<1>14. UNCHANGED <<submitted, counter, removed, signalled, wsi>> BY DEF add_existing
<1> QED BY <1>3, <1>7, <1>12, <1>13, <1>14, AddKept

LEMMA AddNewKept ==
  ASSUME WInv, NEW s \in Semaphores, add_new(s)
  PROVE  WInv' /\ Kept
<1> USE MaxValueAssumption, WatchFacts
<1> DEFINE ws == m_watch_set
           v == submitted[s]
           e == Entry(s, v)
           N == Len(ws)
<1>1. CanAdd(s) /\ s \notin Watched /\ ws' = Append(ws, e) BY DEF add_new
<1>2. DataTypes /\ ws \in Seq(EntryType) /\ N \in Nat /\ DOMAIN ws = 1..N BY DEF WInv, DataTypes
<1>3. v \in Values /\ s \notin removed BY <1>1, <1>2 DEF CanAdd, DataTypes, Values
<1>4. e.semaphore = s /\ e.triplets = <<v>> BY DEF Entry
<1>5. e \in EntryType BY <1>3 DEF Entry, EntryType
<1> HIDE DEF e
<1>6. /\ ws' \in Seq(EntryType) /\ DOMAIN ws' = 1..N+1
      /\ ws'[N+1] = e /\ \A j \in 1..N : ws'[j] = ws[j]
  <2>1. /\ ws' \in Seq(EntryType) /\ Len(ws') = N+1
        /\ ws'[N+1] = e /\ \A j \in 1..N : ws'[j] = ws[j]
    BY <1>1, <1>2, <1>5, AppendProperties
  <2>2. DOMAIN ws' = 1..Len(ws') BY <2>1, LenProperties
  <2> QED BY <2>1, <2>2
<1>7. \A j \in 1..N : ws[j].semaphore # s BY <1>1, <1>2 DEF Watched
<1>8. Sorted(e.triplets) BY <1>4 DEF Sorted
<1>9. WatchSet'
  <2>1. Distinct(ws')
    <3> SUFFICES ASSUME NEW j \in 1..N+1, NEW k \in 1..N+1, ws'[j].semaphore = ws'[k].semaphore
                 PROVE  j = k
      BY <1>6 DEF Distinct
    <3>1. CASE j \in 1..N /\ k \in 1..N BY <1>2, <1>6, <3>1 DEF WInv, WatchSet, Distinct
    <3>2. CASE j \in 1..N /\ k = N+1 BY <1>4, <1>6, <1>7, <3>2
    <3>3. CASE j = N+1 /\ k \in 1..N BY <1>4, <1>6, <1>7, <3>3
    <3> QED BY <1>2, <3>1, <3>2, <3>3
  <2>2. \A j \in 1..N+1 : Sorted(ws'[j].triplets) /\ ws'[j].semaphore \notin removed
    <3> TAKE j \in 1..N+1
    <3>1. CASE j \in 1..N BY <1>2, <1>6, <3>1 DEF WInv, WatchSet
    <3>2. CASE j = N+1 BY <1>3, <1>4, <1>6, <1>8, <3>2
    <3> QED BY <1>2, <3>1, <3>2
  <2>3. UNCHANGED removed BY DEF add_new
  <2> QED BY <1>6, <2>1, <2>2, <2>3 DEF WatchSet
<1>10. Waiting' = [Waiting EXCEPT ![s] = @ \cup {v}]
  <2> PICK w : w = ws' OBVIOUS
  <2> PICK V : V = Waiting[s] \cup {v} OBVIOUS
  <2>1. \A r \in Semaphores : \A x : Awaits(w, r, x) <=> Awaits(ws, r, x) \/ (r = s /\ x = v)
    <3> TAKE r \in Semaphores
    <3> TAKE x
    <3>1. ASSUME Awaits(w, r, x) PROVE Awaits(ws, r, x) \/ (r = s /\ x = v)
      <4>1. PICK j \in 1..N+1 : /\ ws'[j].semaphore = r
                                /\ \E k \in DOMAIN ws'[j].triplets : ws'[j].triplets[k] = x
        BY <1>6, <3>1 DEF Awaits
      <4>2. CASE j \in 1..N BY <1>2, <1>6, <4>1, <4>2 DEF Awaits
      <4>3. CASE j = N+1 BY <1>4, <1>6, <4>1, <4>3
      <4> QED BY <1>2, <4>2, <4>3
    <3>2. ASSUME Awaits(ws, r, x) PROVE Awaits(w, r, x)
      <4>1. PICK j \in 1..N : /\ ws[j].semaphore = r
                              /\ \E k \in DOMAIN ws[j].triplets : ws[j].triplets[k] = x
        BY <1>2, <3>2 DEF Awaits
      <4>2. ws'[j] = ws[j] /\ j \in DOMAIN ws' BY <1>2, <1>6
      <4> QED BY <4>1, <4>2 DEF Awaits
    <3>3. ASSUME r = s, x = v PROVE Awaits(w, r, x)
      <4>1. N+1 \in DOMAIN ws' /\ ws'[N+1].semaphore = s BY <1>2, <1>4, <1>6
      <4>2. 1 \in DOMAIN ws'[N+1].triplets /\ ws'[N+1].triplets[1] = v BY <1>4, <1>6
      <4> QED BY <3>3, <4>1, <4>2 DEF Awaits
    <3> QED BY <3>1, <3>2, <3>3
  <2>2. \A x : x \in Waiting[s] <=> Awaits(ws, s, x) BY WaitingMeans, WaitingNow
  <2>3. Differs(ws, w, s, V) BY <2>1, <2>2 DEF Differs
  <2>4. Waiting' = [Waiting EXCEPT ![s] = V] BY <2>3, WaitingAdd
  <2> QED BY <2>4
<1>11. UNCHANGED <<submitted, counter, removed, signalled, wsi>> BY DEF add_new
<1> QED BY <1>1, <1>6, <1>9, <1>10, <1>11, AddKept

LEMMA RemoveKept ==
  ASSUME WInv, NEW s \in Semaphores, remove(s)
  PROVE  WInv' /\ Kept
<1> USE WatchFacts
<1> DEFINE ws == m_watch_set
<1>1. /\ s \notin removed /\ removed' = removed \cup {s}
      /\ UNCHANGED <<submitted, counter, signalled, added, wsi>>
  BY DEF remove
<1>2. DataTypes /\ ws \in Seq(EntryType) /\ Distinct(ws) BY DEF WInv, DataTypes, WatchSet
<1>3. /\ ws' \in Seq(EntryType) /\ Distinct(ws')
      /\ \A k \in DOMAIN ws' : \E l \in DOMAIN ws : ws'[k] = ws[l] /\ ws[l].semaphore # s
      /\ WaitingIn(ws') = [WaitingIn(ws) EXCEPT ![s] = {}]
  <2>1. CASE s \in Watched
    <3>1. PICK i \in DOMAIN ws : ws[i].semaphore = s /\ ws' = remove_at(ws, i) BY <2>1 DEF remove
    <3>2. i \in 1..Len(ws) BY <1>2
    <3> DEFINE w == remove_at(ws, i)
    <3>3. /\ w \in Seq(EntryType) /\ Distinct(w)
          /\ \A k \in DOMAIN w : \E l \in DOMAIN ws : w[k] = ws[l] /\ ws[l].semaphore # ws[i].semaphore
          /\ WaitingIn(w) = [WaitingIn(ws) EXCEPT ![ws[i].semaphore] = {}]
      BY <1>2, <3>2, RemoveEntry
    <3> HIDE DEF w
    <3>4. ws' = w BY <3>1 DEF w
    <3> QED BY <3>1, <3>3, <3>4
  <2>2. CASE s \notin Watched
    <3>1. ws' = ws BY <2>2 DEF remove
    <3>2. \A l \in DOMAIN ws : ws[l].semaphore # s BY <2>2 DEF Watched
    <3>3. Differs(ws, ws, s, {}) BY <3>2 DEF Differs, Awaits
    <3>4. WaitingIn(ws)[s] = {}
      BY ZenonT(30), <3>3, WaitingExcept
    <3>5. WaitingIn(ws) = [WaitingIn(ws) EXCEPT ![s] = {}] BY <3>4, WaitingFunction
    <3> QED BY <1>2, <3>1, <3>2, <3>5
  <2> QED BY <2>1, <2>2
<1>4. Waiting' = [Waiting EXCEPT ![s] = {}] BY <1>3, WaitingNow
<1>5. DataTypes' BY <1>1, <1>3 DEF WInv, DataTypes
<1>6. WatchSet' BY <1>1, <1>3 DEF WInv, WatchSet
<1>7. History'
  <2>1. \A r \in Semaphores \ removed' : r # s /\ r \in Semaphores \ removed BY <1>1
  <2>2. \A r \in Semaphores \ removed' : Waiting'[r] = Waiting[r] BY <1>4, <2>1 DEF Waiting
  <2> QED BY <1>1, <2>1, <2>2 DEF WInv, History, NothingLost
<1>8. Promise!RemovePoll(s) BY <1>1, <1>4 DEF Promise!RemovePoll
<1> QED BY <1>5, <1>6, <1>7, <1>8 DEF WInv, Kept, Promise!Next

(* Values V of semaphore s were reached: their tasks are signalled, and they are
   not waited for anymore. *)
LEMMA NotifyKept ==
  ASSUME WInv, NEW s \in Semaphores, NEW V,
         V \subseteq {v \in Waiting[s] : v <= counter[s]},
         signalled' = [signalled EXCEPT ![s] = @ \cup V],
         Waiting' = [Waiting EXCEPT ![s] = @ \ V],
         UNCHANGED <<submitted, counter, removed, added>>,
         m_watch_set' \in Seq(EntryType), WatchSet', wsi' \in Nat \ {0}, s \notin removed
  PROVE  WInv' /\ Kept
<1>1. DOMAIN Waiting = Semaphores BY DEF Waiting
<1>2. V \subseteq added[s] /\ V \subseteq Waiting[s] BY DEF WInv, History, NothingLost
<1>3. DataTypes' BY <1>2 DEF WInv, DataTypes
<1>4. History'
  <2>1. \A r \in Semaphores \ removed : added[r] = signalled'[r] \cup Waiting'[r]
    <3> TAKE r \in Semaphores \ removed
    <3>1. added[r] = signalled[r] \cup Waiting[r] BY DEF WInv, History, NothingLost
    <3>2. CASE r = s BY <1>1, <1>2, <3>1, <3>2 DEF WInv, DataTypes
    <3>3. CASE r # s BY <1>1, <3>1, <3>3 DEF WInv, DataTypes
    <3> QED BY <3>2, <3>3
  <2> QED BY <2>1 DEF WInv, History, NothingLost
<1>5. Kept
  <2>1. CASE V = {}
    <3>1. signalled' = signalled /\ Waiting' = Waiting
      <4>1. signalled[s] \cup V = signalled[s] /\ Waiting[s] \ V = Waiting[s] BY <2>1
      <4>2. signalled = [r \in Semaphores |-> signalled[r]] BY DEF WInv, DataTypes
      <4>3. Waiting = [r \in Semaphores |-> Waiting[r]] BY DEF Waiting
      <4> QED BY <4>1, <4>2, <4>3
    <3> QED BY <3>1 DEF Kept, Promise!abstractVars
  <2>2. CASE V # {}
    <3>1. V \in SUBSET {v \in Waiting[s] : v <= counter[s]} OBVIOUS
    <3>2. Promise!Notify(s) BY <2>2, <3>1 DEF Promise!Notify
    <3> QED BY <3>2 DEF Kept, Promise!Next
  <2> QED BY <2>1, <2>2
<1> QED BY <1>3, <1>4, <1>5 DEF WInv

LEMMA PollKept ==
  ASSUME WInv, poll_semaphore
  PROVE  WInv' /\ Kept
<1> USE MaxValueAssumption, WatchFacts
<1> DEFINE ws == m_watch_set
           i == wsi
           e == ws[i]
           s == e.semaphore
           t == e.triplets
           L == Len(t)
           c == counter[s]
           n == FirstUnreached(t, c)
           V == {t[j] : j \in 1..n-1}
<1>1. /\ \/ poll_not_reached(e, c) \/ poll_some_reached(e, c) \/ poll_all_reached(e, c)
      /\ wsi <= Len(ws)
      /\ UNCHANGED <<submitted, counter, removed, added>>
  BY DEF poll_semaphore
<1>2. /\ DataTypes /\ ws \in Seq(EntryType) /\ wsi \in Nat \ {0} /\ Distinct(ws) BY DEF WInv, DataTypes, WatchSet
<1>3. /\ i \in DOMAIN ws /\ i \in 1..Len(ws) /\ e \in EntryType /\ s \in Semaphores /\ t \in Seq(Values)
      /\ L \in Nat /\ DOMAIN t = 1..L /\ \A j \in 1..L : t[j] \in Values
  BY <1>1, <1>2
<1>4. s \notin removed /\ Sorted(t) BY <1>3 DEF WInv, WatchSet
<1>5. c \in Nat BY <1>2, <1>3 DEF DataTypes
<1>6. n \in 1..L+1 /\ \A j \in 1..n-1 : t[j] <= c BY <1>3, <1>4, <1>5, UnreachedIndex
<1>7. Waiting[s] = {t[j] : j \in 1..L}
  <2>1. WaitingIn(ws)[s] = {t[j] : j \in DOMAIN t} BY ZenonT(30), <1>2, <1>3, OneEntry
  <2> QED BY <1>3, <2>1, WaitingNow
<1> HIDE DEF n
<1>8. V \subseteq {v \in Waiting[s] : v <= c}
  <2>1. \A j \in 1..n-1 : j \in 1..L BY <1>3, <1>6
  <2> HIDE DEF c, t, s, L
  <2> QED BY <1>6, <1>7, <2>1
<1>9. CASE poll_not_reached(e, c)
  <2>1. wsi' \in Nat \ {0} /\ UNCHANGED <<signalled, m_watch_set>> BY <1>2, <1>9 DEF poll_not_reached
  <2> QED BY <1>1, <2>1, SameWatch
<1>10. CASE poll_some_reached(e, c)
  <2> DEFINE u == SubSeq(t, n, L)
             d == [e EXCEPT !.value = erased_iterator(t, n), !.triplets = u]
  <2>1. /\ n <= L /\ signalled' = signal_tasks(e, c) /\ wsi' = wsi + 1
        /\ ws' = [ws EXCEPT ![wsi].value = erased_iterator(e.triplets, n),
                            ![wsi].triplets = SubSeq(@, n, Len(@))]
    BY <1>10 DEF poll_some_reached, n
  <2>2. signalled' = [signalled EXCEPT ![s] = @ \cup V] BY <2>1 DEF signal_tasks, n
  <2>3. /\ u \in Seq(Values) /\ Len(u) = L - n + 1 /\ DOMAIN u = 1..L-n+1
        /\ \A j \in 1..L-n+1 : u[j] = t[n + j - 1]
    <3>1. /\ u \in Seq(Values) /\ Len(u) = L - n + 1 /\ \A j \in 1..L-n+1 : u[j] = t[n + j - 1]
      BY <1>3, <1>6, DropFirst
    <3>2. DOMAIN u = 1..Len(u) BY <3>1, LenProperties
    <3> QED BY <3>1, <3>2
  <2>4. erased_iterator(t, n) \in Values
    <3>1. n \in 1..L BY <1>3, <1>6, <2>1
    <3>2. CASE n <= L - (n - 1)
      <4>1. 2 * n - 1 \in 1..L BY <1>3, <3>1, <3>2
      <4> QED BY <1>3, <3>2, <4>1 DEF erased_iterator
    <3>3. CASE ~(n <= L - (n - 1)) BY <1>3, <3>1, <3>3 DEF erased_iterator
    <3> QED BY <3>2, <3>3
  <2>5. d \in EntryType /\ d.semaphore = s /\ d.triplets = u
    <3> HIDE DEF u
    <3> QED BY <1>3, <2>3, <2>4 DEF EntryType
  <2>6. ws' = [ws EXCEPT ![i] = d] BY <2>1
  <2> HIDE DEF d
  <2>7. /\ ws' \in Seq(EntryType) /\ DOMAIN ws' = DOMAIN ws
        /\ \A j \in DOMAIN ws : ws'[j] = IF j = i THEN d ELSE ws[j]
    <3>1. /\ ws' \in Seq(EntryType) /\ Len(ws') = Len(ws)
          /\ \A j \in 1..Len(ws) : ws'[j] = IF j = i THEN d ELSE ws[j]
      BY <1>2, <1>3, <2>5, <2>6, ExceptSeq
    <3>2. DOMAIN ws' = 1..Len(ws') BY <3>1, LenProperties
    <3> QED BY <1>2, <3>1, <3>2
  <2>8. \A j \in DOMAIN ws : ws'[j].semaphore = ws[j].semaphore BY <2>5, <2>7
  <2> HIDE DEF u
  <2>9. Sorted(u)
    <3> SUFFICES ASSUME NEW j \in 1..L-n+1, NEW k \in 1..L-n+1, j < k PROVE u[j] < u[k]
      BY <2>3 DEF Sorted
    <3>1. n + j - 1 \in 1..L /\ n + k - 1 \in 1..L /\ n + j - 1 < n + k - 1 BY <1>3, <1>6
    <3>2. t[n + j - 1] < t[n + k - 1] BY <1>3, <1>4, <3>1 DEF Sorted
    <3> QED BY <2>3, <3>2
  <2>10. WatchSet'
    <3>1. Distinct(ws') BY <1>2, <2>7, <2>8 DEF Distinct
    <3>2. \A j \in DOMAIN ws' : Sorted(ws'[j].triplets) /\ ws'[j].semaphore \notin removed
      BY <1>3, <1>4, <2>5, <2>7, <2>9 DEF WInv, WatchSet
    <3> QED BY <1>1, <3>1, <3>2 DEF WatchSet
  <2>11. Waiting' = [Waiting EXCEPT ![s] = @ \ V]
    <3> PICK w : w = ws' OBVIOUS
    <3> PICK W : W = Waiting[s] \ V OBVIOUS
    <3>1. W = {t[j] : j \in n..L}
      <4>1. \A j \in 1..n-1 : j \in 1..L BY <1>3, <1>6
      <4>2. \A j \in n..L : j \in 1..L BY <1>3, <1>6
      <4>3. \A j \in 1..L : j \in 1..n-1 \/ j \in n..L BY <1>3, <1>6
      <4>4. \A j \in n..L : \A k \in 1..n-1 : t[j] # t[k]
        <5> TAKE j \in n..L
        <5> TAKE k \in 1..n-1
        <5>1. k < j /\ j \in 1..L /\ k \in 1..L BY <1>3, <1>6
        <5>2. t[k] < t[j] /\ t[k] \in Values /\ t[j] \in Values BY <1>3, <1>4, <5>1 DEF Sorted
        <5> QED BY <5>2 DEF Values
      <4> HIDE DEF t, s, L
      <4> QED BY <1>7, <4>1, <4>2, <4>3, <4>4
    <3>2. ASSUME NEW x PROVE Awaits(w, s, x) <=> x \in W
      <4>1. Awaits(w, s, x) <=> \E j \in 1..L-n+1 : u[j] = x
        <5>1. \A j \in DOMAIN w : w[j].semaphore = s <=> j = i BY <1>2, <1>3, <2>7, <2>8 DEF Distinct
        <5>2. i \in DOMAIN w /\ w[i].triplets = u /\ DOMAIN u = 1..L-n+1 BY <1>3, <2>3, <2>5, <2>7
        <5> HIDE DEF s, t, L
        <5> QED BY <5>1, <5>2 DEF Awaits
      <4>2. (\E j \in 1..L-n+1 : u[j] = x) => x \in W
        <5> SUFFICES ASSUME NEW j \in 1..L-n+1 PROVE u[j] \in W OBVIOUS
        <5>1. n + j - 1 \in n..L BY <1>3, <1>6
        <5> QED BY <2>3, <3>1, <5>1
      <4>3. x \in W => \E j \in 1..L-n+1 : u[j] = x
        <5> SUFFICES ASSUME NEW j \in n..L PROVE \E k \in 1..L-n+1 : u[k] = t[j] BY <3>1
        <5>1. j - n + 1 \in 1..L-n+1 /\ n + (j - n + 1) - 1 = j BY <1>3, <1>6
        <5> QED BY <2>3, <5>1
      <4> QED BY <4>1, <4>2, <4>3
    <3>3. \A r \in Semaphores \ {s} : \A x : Awaits(w, r, x) <=> Awaits(ws, r, x)
      <4> TAKE r \in Semaphores \ {s}
      <4> TAKE x
      <4>1. \A j \in DOMAIN ws : ws[j].semaphore = r => ws'[j] = ws[j] BY <2>7
      <4> QED BY <2>7, <2>8, <4>1 DEF Awaits
    <3>4. Differs(ws, w, s, W) BY <3>2, <3>3 DEF Differs
    <3>5. Waiting' = [Waiting EXCEPT ![s] = W] BY <1>3, <3>4, WaitingAdd
    <3> QED BY <3>5
  <2>12. wsi' \in Nat \ {0} BY <1>2, <2>1
  <2> HIDE DEF V, s, t, L, c, e
  <2>13. V \subseteq {v \in Waiting[s] : v <= counter[s]} BY <1>8 DEF c
  <2> QED BY <1>1, <1>3, <1>4, <2>2, <2>7, <2>10, <2>11, <2>12, <2>13, NotifyKept
<1>11. CASE poll_all_reached(e, c)
  <2>1. /\ n > L /\ signalled' = signal_tasks(e, c) /\ UNCHANGED wsi /\ ws' = remove_at(ws, i)
    BY <1>11 DEF poll_all_reached, n
  <2>2. signalled' = [signalled EXCEPT ![s] = @ \cup V] BY <2>1 DEF signal_tasks, n
  <2>3. n - 1 = L BY <1>3, <1>6, <2>1
  <2>4. V = Waiting[s] BY <1>7, <2>3
  <2> DEFINE w == remove_at(ws, i)
  <2>5. /\ w \in Seq(EntryType) /\ Distinct(w)
        /\ \A k \in DOMAIN w : \E l \in DOMAIN ws : w[k] = ws[l] /\ ws[l].semaphore # s
        /\ WaitingIn(w) = [WaitingIn(ws) EXCEPT ![s] = {}]
    BY <1>2, <1>3, RemoveEntry
  <2>6. ws' = w BY <2>1
  <2> HIDE DEF w
  <2>7. WatchSet' BY <1>1, <2>5, <2>6 DEF WInv, WatchSet
  <2>8. Waiting' = [Waiting EXCEPT ![s] = @ \ V]
    <3>1. Waiting[s] \ V = {} BY <2>4
    <3>2. Waiting' = [Waiting EXCEPT ![s] = {}] BY <2>5, <2>6, WaitingNow
    <3> QED BY <3>1, <3>2
  <2>9. wsi' \in Nat \ {0} /\ ws' \in Seq(EntryType) BY <1>2, <2>1, <2>5, <2>6
  <2> HIDE DEF V, s, t, L, c, e
  <2>10. V \subseteq {v \in Waiting[s] : v <= counter[s]} BY <1>8 DEF c
  <2> QED BY <1>1, <1>3, <1>4, <2>2, <2>7, <2>8, <2>9, <2>10, NotifyKept
<1> QED BY <1>1, <1>9, <1>10, <1>11

LEMMA InitKept ==
  ASSUME Init PROVE WInv /\ Promise!Init
<1> USE MaxValueAssumption
<1>1. /\ m_watch_set = <<>> /\ DOMAIN m_watch_set = {} /\ m_watch_set \in Seq(EntryType)
      /\ removed = {} /\ wsi = 1
      /\ submitted = [s \in Semaphores |-> 0] /\ counter = [s \in Semaphores |-> 0]
      /\ signalled = [s \in Semaphores |-> {}] /\ added = [s \in Semaphores |-> {}]
  BY EmptySeq DEF Init
<1>2. Waiting = [s \in Semaphores |-> {}]
  <2>1. {k \in DOMAIN m_watch_set : FALSE} = {} OBVIOUS
  <2>2. \A s \in Semaphores : Waiting[s] = {} BY <1>1 DEF Waiting
  <2>3. Waiting = [s \in Semaphores |-> Waiting[s]] BY DEF Waiting
  <2> QED BY <2>2, <2>3
<1>3. DataTypes BY <1>1 DEF DataTypes
<1>4. WatchSet BY <1>1 DEF WatchSet, Distinct
<1>5. History BY <1>1, <1>2 DEF History, NothingLost
<1>6. Promise!Init BY <1>1, <1>2 DEF Promise!Init
<1> QED BY <1>3, <1>4, <1>5, <1>6 DEF WInv

LEMMA NextKept ==
  ASSUME WInv, [Next]_vars PROVE WInv' /\ Kept
<1> USE DEF WInv, DataTypes
<1>1. CASE \/ poll_start \/ poll_return \/ wait_poll_timer \/ stop_timer
           \/ wait_for_possible_expire_to_finish \/ wait_have_semaphores
           \/ timer_fires \/ timer_expire \/ UNCHANGED vars
  <2>1. /\ UNCHANGED <<submitted, counter, removed, signalled, added, m_watch_set>>
        /\ wsi' \in Nat \ {0}
    BY <1>1 DEF poll_start, poll_return, wait_poll_timer, stop_timer, wait_for_possible_expire_to_finish,
                wait_have_semaphores, timer_fires, timer_expire, vars
  <2> QED BY <2>1, SameWatch
<1>2. CASE poll_semaphore BY <1>2, PollKept
<1>3. ASSUME NEW s \in Semaphores, Client(s) \/ gpu(s) PROVE WInv' /\ Kept
  BY <1>3, SubmitKept, AddExistingKept, AddNewKept, RemoveKept, GpuKept DEF Client
<1> QED BY <1>1, <1>2, <1>3 DEF Next, Watcher, Timer

(* The type invariant, for any set of semaphores and any values. *)
THEOREM TypeCorrect == Spec => []TypeOK
<1>1. Inv /\ WInv => TypeOK BY DEF Inv, TaskTypeOK, WInv, DataTypes, EntryType, TypeOK
<1>2. Init => WInv BY InitKept
<1>3. WInv /\ [Next]_vars => WInv' BY NextKept
<1> QED BY InitInv, StepInv, <1>1, <1>2, <1>3, PTL DEF Spec

(* However poll() swaps, erases and moves the entries of its watch set while clients
   add and remove semaphores: no value that a task polls for is ever lost. *)
THEOREM NoneLost == Spec => []NothingLost
<1>1. WInv => NothingLost BY DEF WInv, History
<1>2. Init => WInv BY InitKept
<1>3. WInv /\ [Next]_vars => WInv' BY NextKept
<1> QED BY <1>1, <1>2, <1>3, PTL DEF Spec

(* The watcher implements SemaphoreNotification: for any semaphores and values, no
   task is signalled before its value was reached, twice, or after its semaphore
   was removed. *)
THEOREM ImplementsNotification == Spec => Notifies
<1>1. Init => WInv /\ Promise!Init BY InitKept
<1>2. WInv /\ [Next]_vars => WInv' /\ [Promise!Next]_(Promise!abstractVars) BY NextKept DEF Kept
<1> QED BY <1>1, <1>2, PTL DEF Spec, Notifies, Promise!Spec
==========================================================================
