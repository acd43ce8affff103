------------------------ MODULE PipelineFactoryProofs ------------------------
(* Proofs about PipelineFactory, for every number of characteristics and values, and
   about ImageSamplerUpdater, to which the factory hands the descriptors that it made,
   for every set of descriptors and requests. *)
EXTENDS PipelineFactory, ImageSamplerUpdater, FiniteSetTheorems, SequenceTheorems, WellFoundedInduction, TLAPS

(* Who was counted and signalled: a signal that was not handled yet is for the
   current phase, and nobody is signalled twice. *)
Signals ==
  /\ phase = "initialize" =>
       /\ pc \in {"initialized", "signal", "wait", "multiloop", "done", "aborted"}
       /\ \A c \in Characteristics : signals[c] = {} /\ at[c] # "realize_shaders"
  /\ pc # "initialized" /\ phase = "initialize" => to_signal = {c \in Characteristics : at[c] = "new"}
  /\ pc = "initialized" => phase = "initialize" /\ woken = {} /\ \A c \in Characteristics : at[c] = "new"
  /\ phase # "initialize" =>
       \A c \in Characteristics :
         /\ at[c] \notin {"new", "initialize"}
         /\ signals[c] \subseteq {phase}
         /\ c \in to_signal => signals[c] = {}
         /\ at[c] = "realize_shaders" => phase = "compile" /\ signals[c] = {} /\ c \notin to_signal
  /\ pc \notin {"signal", "initialized"} => to_signal = {}
  /\ pc = "signal" /\ to_signal = {} => Busy = {}

FanOut ==
  /\ Signals
  /\ CountsTheBusy
  /\ pc \in {"multiloop", "descriptor_sets", "wait_for_lock", "wait_for_updates", "done"} => Busy = {}

(* The updates of the current pipeline: the factory itself holds one as long as it
   may still add some. *)
Updating ==
  /\ pc # "aborted" =>
       updating = IF pc \in {"descriptor_sets", "wait_for_lock"} THEN updates + 1 ELSE updates
  /\ updates <= updating
  /\ pc \notin {"descriptor_sets", "wait_for_lock", "wait_for_updates", "aborted"} => updates = 0
  /\ "updated" \in woken => pc = "aborted" \/ (pc = "wait_for_updates" /\ updates = 0)

(* The factory is working on a pipeline: its fill indices are the counters. *)
InPipeline ==
  \/ pc \in {"signal", "wait"} /\ phase # "initialize"
  \/ pc \in {"descriptor_sets", "wait_for_lock", "wait_for_updates"}

(* The parts that are in the cache: a counter is in it, or the next one to be added,
   and a counter that is past zero tells that a pipeline was made since the counters of
   the outer loops changed. *)
Loops ==
  /\ \A c \in Characteristics \ Ranges : m_fill_index[c] = -1
  /\ InPipeline =>
       /\ loop = N
       /\ \A c \in Characteristics : counter[c] < End[c]
       /\ \A c \in Ranges : m_fill_index[c] = counter[c]
  /\ pc \notin {"done", "aborted"} =>
       /\ \A c \in 1..(loop - 1) : counter[c] < End[c]
       /\ \A c \in 1..loop : counter[c] <= Len(cache[c])
       /\ \A c \in 1..loop : counter[c] > 0 => \A d \in 1..(c - 1) : counter[d] < Len(cache[d])
  /\ pc = "wait_for_updates" => \A c \in Characteristics : counter[c] < Len(cache[c])
  /\ pc \in {"initialized"} \/ (pc \in {"signal", "wait"} /\ phase = "initialize") => loop = 1

IInv == TypeOK /\ FanOut /\ Updating /\ Loops

USE PipelineFactoryAssumption DEF Characteristics

--------------------------------------------------------------------------------

(* A subset of the characteristics has a number of elements. *)
LEMMA Finite ==
  ASSUME NEW S \in SUBSET Characteristics
  PROVE  IsFiniteSet(S) /\ Cardinality(S) \in Nat /\ (Cardinality(S) = 0 <=> S = {})
<1>1. IsFiniteSet(1..N)
  BY FS_Interval
<1>2. IsFiniteSet(S)
  BY <1>1, FS_Subset
<1> QED
  BY <1>2, FS_CardinalityType, FS_EmptySet

LEMMA OneLess ==
  ASSUME NEW S \in SUBSET Characteristics, NEW c \in S
  PROVE  Cardinality(S \ {c}) = Cardinality(S) - 1
BY Finite, FS_RemoveElement

LEMMA BusyType == ASSUME TypeOK PROVE Busy \in SUBSET Characteristics
BY DEF Busy, TypeOK

(* The initial state. *)
LEMMA InitIInv == Init => IInv
<1> SUFFICES ASSUME Init PROVE IInv
  OBVIOUS
<1> USE DEF Init
<1>1. TypeOK
  <2>1. cache \in [Characteristics -> Seq(Int)]
    BY <<>> \in Seq(Int)
  <2>2. data \in [Characteristics -> Int]
    BY DEF Nothing
  <2>3. m_fill_index \in [Characteristics -> Int]
    OBVIOUS
  <2>4. /\ pc = "initialized" /\ phase = "initialize" /\ number = 0 /\ loop \in 0..N
        /\ to_signal = {} /\ running = {} /\ completed = {} /\ woken = {} /\ updating = 0 /\ updates = 0
        /\ m_set_index \in 0..Sets /\ m_have_lock = FALSE /\ terminate = FALSE
    OBVIOUS
  <2>5. /\ counter \in [Characteristics -> Nat]
        /\ at \in [Characteristics -> {"new", "initialize", "fill", "preprocess", "compile", "realize_shaders", "done"}]
        /\ signals \in [Characteristics -> SUBSET {"fill", "preprocess", "compile"}]
    OBVIOUS
  <2> HIDE DEF Init
  <2> QED
    BY <2>1, <2>2, <2>3, <2>4, <2>5 DEF TypeOK
<1>2. FanOut
  BY DEF FanOut, Signals, CountsTheBusy
<1>3. Updating
  BY DEF Updating
<1>4. Loops
  BY DEF Loops, InPipeline
<1> QED
  BY <1>1, <1>2, <1>3, <1>4 DEF IInv

--------------------------------------------------------------------------------

(* A task that calls back was counted; when it is the last one the factory waits. *)
LEMMA CallBack ==
  ASSUME IInv, pc # "initialized", NEW c \in Busy, c \notin to_signal,
         characteristic_range_done(phase),
         pc' = pc, phase' = phase, to_signal' = to_signal, Busy' = Busy \ {c}
  PROVE  /\ CountsTheBusy'
         /\ number' \in Nat
         /\ woken' \subseteq woken \cup {phase}
         /\ pc \in {"multiloop", "descriptor_sets", "wait_for_lock", "wait_for_updates", "done"} => Busy' = {}
         /\ pc = "signal" /\ to_signal = {} => Busy' = {}
<1> USE DEF IInv, FanOut
<1>1. Busy \in SUBSET Characteristics /\ Busy' \in SUBSET Characteristics
  BY BusyType
<1>2. number = Cardinality(Busy) /\ number \in Nat /\ number > 0
  <2>1. Cardinality(Busy) \in Nat /\ Cardinality(Busy) # 0
    BY <1>1, Finite
  <2> QED
    BY <2>1 DEF CountsTheBusy
<1>3. number' = Cardinality(Busy')
  BY <1>1, <1>2, OneLess DEF characteristic_range_done
<1>4. number' \in Nat /\ (number' = 0 <=> Busy' = {})
  BY <1>1, <1>3, Finite
<1>5. pc \in {"signal", "wait", "aborted"} /\ (pc = "signal" => to_signal # {})
  BY DEF Signals, TypeOK
<1>6. to_signal \subseteq Busy
  BY DEF Signals, Busy
<1>7. Busy' = {} => pc \in {"wait", "aborted"}
  BY <1>5, <1>6
<1>8. woken \ {"updated"} = {}
  BY DEF CountsTheBusy
<1>9. phase # "updated"
  BY DEF TypeOK
<1>10. \A p \in woken' \ {"updated"} : p = phase' /\ Busy' = {} /\ pc' \in {"wait", "aborted"}
  BY <1>2, <1>3, <1>4, <1>7, <1>8 DEF characteristic_range_done
<1>11. pc' = "wait" /\ Busy' = {} => phase' \in woken'
  BY <1>2, <1>3, <1>4 DEF characteristic_range_done
<1> QED
  BY <1>3, <1>4, <1>5, <1>10, <1>11 DEF CountsTheBusy, characteristic_range_done

(* The first of some tasks is one of them. *)
LEMMA FirstIsOne ==
  ASSUME NEW tasks \in SUBSET Characteristics, tasks # {}
  PROVE  First(tasks) \in tasks /\ \A d \in tasks : First(tasks) <= d
<1> DEFINE Smaller == {ss \in Nat \X Nat : ss[1] < ss[2]}
<1>1. IsWellFoundedOn(Smaller, Nat)
  BY NatLessThanWellFounded DEF OpToRel
<1>2. PICK c \in tasks : \A d \in tasks : <<d, c>> \notin Smaller
  <2> HIDE DEF Smaller
  <2>1. tasks \subseteq Nat
    OBVIOUS
  <2> QED
    BY <1>1, <2>1, WFMin
<1>3. \A d \in tasks : c <= d
  <2> SUFFICES ASSUME NEW d \in tasks, ~(c <= d) PROVE FALSE
    OBVIOUS
  <2>1. <<d, c>> \in Nat \X Nat /\ d < c
    OBVIOUS
  <2> QED
    BY <1>2, <2>1
<1> QED
  BY <1>3 DEF First

(* The tasks that are counted for the next phase are the ones that will call back. *)
LEMMA NextPhase ==
  ASSUME IInv, Busy = {}, NEW p \in {"fill", "preprocess", "compile"},
         NEW tasks \in SUBSET Characteristics, StartPhase(p, tasks),
         woken' \ {"updated"} = {}, UNCHANGED <<at, signals>>
  PROVE  FanOut' /\ number' \in Nat /\ Busy' = tasks
<1> USE DEF IInv, FanOut, StartPhase
<1>1. \A c \in Characteristics : at[c] \notin {"new", "initialize", "realize_shaders"} /\ signals[c] = {}
  BY DEF Signals, Busy, TypeOK
<1>2. Busy' = tasks
  BY <1>1 DEF Busy
<1>3. Signals'
  BY <1>1, <1>2 DEF Signals
<1>4. number' = Cardinality(Busy') /\ number' \in Nat /\ (pc' = "wait" => FALSE)
  BY <1>2, Finite
<1>5. CountsTheBusy'
  BY <1>4 DEF CountsTheBusy
<1> QED
  BY <1>2, <1>3, <1>4, <1>5

--------------------------------------------------------------------------------

(* A step of a Characteristic task. *)
LEMMA TaskStep ==
  ASSUME IInv, NEW c \in Characteristics, Characteristic(c)
  PROVE  IInv' /\ Busy' \subseteq Busy
<1> USE DEF IInv, FanOut
<1>1. UNCHANGED <<factory_vars, update_vars, m_fill_index, terminate>> /\ at[c] # "new"
  BY DEF Characteristic, initialize, fill, preprocess, start_realize_shaders, realize_shaders, terminate_task,
         Received
<1>2. /\ pc' = pc /\ phase' = phase /\ to_signal' = to_signal /\ running' = running /\ completed' = completed
      /\ counter' = counter /\ loop' = loop /\ m_set_index' = m_set_index /\ m_have_lock' = m_have_lock
      /\ cache' = cache /\ updating' = updating /\ updates' = updates /\ m_fill_index' = m_fill_index
      /\ terminate' = terminate
  BY <1>1 DEF factory_vars, update_vars
<1>3. /\ at' \in [Characteristics -> {"new", "initialize", "fill", "preprocess", "compile", "realize_shaders", "done"}]
      /\ signals' \in [Characteristics -> SUBSET {"fill", "preprocess", "compile"}]
      /\ data' \in [Characteristics -> Int]
  <2>1. Slot(c) \in Int /\ Nothing \in Int /\ m_fill_index[c] \in Int
    BY DEF TypeOK, Slot, Nothing
  <2>2. CASE initialize(c)
    <3>1. data' \in [Characteristics -> Int] /\ signals' = signals
      BY <2>2 DEF TypeOK, initialize
    <3> QED
      BY <2>2, <3>1 DEF TypeOK, initialize
  <2>6. CASE terminate_task(c)
    BY <2>6 DEF TypeOK, terminate_task
  <2>3. CASE fill(c)
    <3>1. data' \in [Characteristics -> Int]
      BY <2>1, <2>3 DEF TypeOK, fill
    <3>2. signals' \in [Characteristics -> SUBSET {"fill", "preprocess", "compile"}]
      BY <2>3 DEF TypeOK, fill
    <3>3. at' \in [Characteristics -> {"new", "initialize", "fill", "preprocess", "compile", "realize_shaders", "done"}]
      BY <2>3 DEF TypeOK, fill
    <3> QED
      BY <3>1, <3>2, <3>3
  <2>4. CASE preprocess(c) \/ start_realize_shaders(c)
    <3>1. signals' \in [Characteristics -> SUBSET {"fill", "preprocess", "compile"}]
      <4>1. CASE preprocess(c)
        BY <4>1 DEF TypeOK, preprocess
      <4>2. CASE start_realize_shaders(c)
        BY <4>2 DEF TypeOK, start_realize_shaders
      <4> QED
        BY <2>4, <4>1, <4>2
    <3>2. at' \in [Characteristics -> {"new", "initialize", "fill", "preprocess", "compile", "realize_shaders", "done"}]
      BY <2>4 DEF TypeOK, preprocess, start_realize_shaders
    <3>3. data' = data
      BY <2>4 DEF preprocess, start_realize_shaders
    <3> QED
      BY <3>1, <3>2, <3>3 DEF TypeOK
  <2>5. CASE realize_shaders(c)
    BY <2>1, <2>5 DEF TypeOK, realize_shaders
  <2> QED
    BY <2>2, <2>3, <2>4, <2>5, <2>6 DEF Characteristic
<1>4. pc # "initialized"
  BY DEF Signals, Characteristic, initialize, fill, preprocess, start_realize_shaders, realize_shaders,
         terminate_task, Received
<1>5. Signals' /\ CountsTheBusy' /\ number' \in Nat /\ woken' \subseteq woken \cup {phase} /\ Busy' \subseteq Busy
  <2>1. CASE initialize(c)
    <3>1. phase = "initialize" /\ c \in Busy /\ c \notin to_signal
      BY <2>1, <1>4 DEF initialize, Signals, Busy, TypeOK
    <3>2. Busy' = Busy \ {c}
      BY <2>1, <3>1, <1>2 DEF initialize, Busy, TypeOK
    <3>3. Signals'
      BY <2>1, <3>1, <3>2, <1>2, <1>4 DEF initialize, Signals, TypeOK
    <3>4. characteristic_range_done(phase)
      BY <2>1, <3>1 DEF initialize
    <3> QED
      BY <3>1, <3>2, <3>3, <3>4, <1>2, <1>4, CallBack
  <2>2. CASE fill(c) \/ preprocess(c)
    <3>1. phase \in {"fill", "preprocess"} /\ signals[c] = {phase} /\ c \in Busy /\ c \notin to_signal
          /\ characteristic_range_done(phase)
      BY SMTT(30), <2>2, <1>4 DEF fill, preprocess, Received, Signals, Busy, TypeOK
    <3>2. signals' = [signals EXCEPT ![c] = {}] /\ \E a \in {"fill", "preprocess", "compile"} : at' = [at EXCEPT ![c] = a]
      <4>1. signals[c] \ {phase} = {}
        BY <3>1
      <4>2. phase = "fill" <=> fill(c)
        BY <2>2, <3>1 DEF fill, preprocess, Received, TypeOK
      <4> QED
        BY <2>2, <3>1, <4>1, <4>2 DEF fill, preprocess
    <3>3. Busy' = Busy \ {c}
      BY SMTT(30), <3>1, <3>2, <1>2 DEF Busy, TypeOK
    <3>4. Signals'
      BY <3>1, <3>2, <3>3, <1>2, <1>4 DEF Signals, TypeOK
    <3> QED
      BY <3>1, <3>3, <3>4, <1>2, <1>4, CallBack
  <2>3. CASE start_realize_shaders(c)
    <3>1. at[c] = "compile" /\ "compile" \in signals[c]
      BY <2>3 DEF start_realize_shaders, Received
    <3>2. phase = "compile" /\ signals[c] = {phase} /\ c \notin to_signal
      BY <3>1, <1>4 DEF Signals
    <3>3. signals' = [signals EXCEPT ![c] = {}] /\ at' = [at EXCEPT ![c] = "realize_shaders"]
      <4>1. signals[c] \ {"compile"} = {}
        BY <3>2
      <4> QED
        BY <2>3, <4>1 DEF start_realize_shaders
    <3>4. Busy' = Busy /\ number' = number /\ woken' = woken
      <4>1. number' = number /\ woken' = woken /\ phase' = phase /\ to_signal' = to_signal
        BY <2>3, <1>2 DEF start_realize_shaders
      <4>2. \A d \in Characteristics : (signals'[d] # {} \/ at'[d] = "realize_shaders")
                                         <=> (signals[d] # {} \/ at[d] = "realize_shaders")
        BY <3>2, <3>3 DEF TypeOK
      <4> QED
        BY <3>2, <4>1, <4>2 DEF Busy
    <3>5. Signals'
      BY <3>2, <3>3, <3>4, <1>2, <1>4 DEF Signals, TypeOK
    <3> QED
      BY <3>4, <3>5, <1>2 DEF CountsTheBusy, TypeOK
  <2>4. CASE realize_shaders(c)
    <3>1. phase = "compile" /\ c \in Busy /\ c \notin to_signal /\ signals[c] = {}
          /\ characteristic_range_done(phase)
      BY <2>4, <1>4 DEF realize_shaders, Signals, Busy, TypeOK
    <3>2. Busy' = Busy \ {c}
      BY <2>4, <3>1, <1>2 DEF realize_shaders, Busy, TypeOK
    <3>3. Signals'
      BY <2>4, <3>1, <3>2, <1>2, <1>4 DEF realize_shaders, Signals, TypeOK
    <3> QED
      BY <3>1, <3>2, <3>3, <1>2, <1>4, CallBack
  <2>5. CASE terminate_task(c)
    <3>1. Busy' = Busy /\ number' = number /\ woken' = woken
      BY <2>5, <1>2 DEF terminate_task, Busy, TypeOK
    <3>2. Signals'
      BY <2>5, <3>1, <1>2, <1>4 DEF terminate_task, Signals, TypeOK
    <3> QED
      BY <3>1, <3>2, <1>2 DEF CountsTheBusy, TypeOK
  <2> QED
    BY <2>1, <2>2, <2>3, <2>4, <2>5 DEF Characteristic
<1>6. TypeOK'
  BY <1>2, <1>3, <1>5 DEF TypeOK
<1>7. FanOut'
  BY <1>2, <1>5 DEF TypeOK
<1>8. Updating'
  BY <1>2, <1>5 DEF Updating, TypeOK
<1>9. Loops'
  BY <1>2 DEF Loops, InPipeline
<1> QED
  BY <1>5, <1>6, <1>7, <1>8, <1>9

(* The steps of the factory that let the tasks do something. *)
LEMMA InitializedStep == ASSUME IInv, initialized PROVE IInv'
<1> USE DEF IInv, FanOut, initialized, StartPhase, task_vars, update_vars
<1>1. \A c \in Characteristics : at[c] = "new" /\ signals[c] = {}
  BY DEF Signals
<1>2. Busy' = Characteristics
  BY <1>1 DEF Busy
<1>3. number' = Cardinality(Busy') /\ number' \in Nat
  BY <1>2, Finite
<1>4. TypeOK'
  BY <1>3 DEF TypeOK
<1>5. Signals'
  BY <1>1, <1>2 DEF Signals
<1>6. CountsTheBusy'
  <2>1. woken = {}
    BY DEF Signals
  <2> QED
    BY <1>3, <2>1 DEF CountsTheBusy
<1>7. Updating' /\ Loops'
  BY DEF Updating, Loops, InPipeline
<1> QED
  BY <1>4, <1>5, <1>6, <1>7

LEMMA SignalStep == ASSUME IInv, signal_task PROVE IInv' /\ Busy' = Busy
<1> USE DEF IInv, FanOut
<1> DEFINE c == First(to_signal)
<1>1. c \in to_signal /\ c \in Characteristics /\ pc = "signal"
  BY FirstIsOne DEF signal_task, TypeOK
<1>2. /\ phase' = phase /\ number' = number /\ running' = running /\ completed' = completed /\ counter' = counter
      /\ loop' = loop /\ woken' = woken /\ updating' = updating /\ updates' = updates /\ m_set_index' = m_set_index
      /\ m_have_lock' = m_have_lock /\ cache' = cache /\ terminate' = terminate /\ m_fill_index' = m_fill_index
      /\ data' = data /\ to_signal' = to_signal \ {c}
      /\ pc' = IF to_signal = {c} THEN "wait" ELSE "signal"
  BY DEF signal_task, update_vars
<1>3. /\ phase = "initialize" => at' = [at EXCEPT ![c] = "initialize"] /\ signals' = signals
      /\ phase # "initialize" => signals' = [signals EXCEPT ![c] = {phase}] /\ at' = at
  <2>1. phase # "initialize" => signals[c] = {}
    BY <1>1 DEF Signals
  <2>2. signals[c] \cup {phase} = {phase} \/ phase = "initialize"
    BY <2>1
  <2> QED
    BY <2>2 DEF signal_task
<1> HIDE DEF c
<1>4. /\ at' \in [Characteristics -> {"new", "initialize", "fill", "preprocess", "compile", "realize_shaders", "done"}]
      /\ signals' \in [Characteristics -> SUBSET {"fill", "preprocess", "compile"}]
  <2>1. CASE phase = "initialize"
    BY <1>3, <2>1 DEF TypeOK
  <2>2. CASE phase # "initialize"
    <3>1. {phase} \in SUBSET {"fill", "preprocess", "compile"}
      BY <2>2 DEF TypeOK
    <3>2. signals' = [signals EXCEPT ![c] = {phase}] /\ at' = at
      BY <1>3, <2>2
    <3>3. signals' \in [Characteristics -> SUBSET {"fill", "preprocess", "compile"}]
      BY <3>1, <3>2 DEF TypeOK
    <3> QED
      BY <3>2, <3>3 DEF TypeOK
  <2> QED
    BY <2>1, <2>2
<1>5. TypeOK'
  BY <1>2, <1>4 DEF TypeOK
<1>6. Busy' = Busy
  <2>1. CASE phase = "initialize"
    <3>1. at[c] = "new"
      BY <1>1, <2>1 DEF Signals
    <3>2. \A d \in Characteristics : at'[d] \in {"new", "initialize"} <=> at[d] \in {"new", "initialize"}
      BY <1>1, <1>3, <2>1, <3>1 DEF TypeOK
    <3> QED
      BY <1>2, <2>1, <3>2 DEF Busy
  <2>2. CASE phase # "initialize"
    <3>1. signals' = [signals EXCEPT ![c] = {phase}] /\ at' = at /\ signals \in [Characteristics -> SUBSET {"fill", "preprocess", "compile"}]
      BY <1>3, <2>2 DEF TypeOK
    <3>2. \A d \in Characteristics : signals'[d] = IF d = c THEN {phase} ELSE signals[d]
      BY <3>1
    <3>3. Busy' = to_signal' \cup {d \in Characteristics : signals'[d] # {} \/ at'[d] = "realize_shaders"}
      BY <1>2, <2>2 DEF Busy
    <3>4. Busy = to_signal \cup {d \in Characteristics : signals[d] # {} \/ at[d] = "realize_shaders"}
      BY <2>2 DEF Busy
    <3> QED
      BY <1>1, <1>2, <3>1, <3>2, <3>3, <3>4
  <2> QED
    BY <2>1, <2>2
<1>7. c \in Busy'
  BY <1>1, <1>6 DEF Busy, Signals
<1>8. Signals'
  <2>1. pc' \in {"wait", "signal"} /\ (pc' = "wait" <=> to_signal' = {})
    BY <1>1, <1>2
  <2>2. CASE phase = "initialize"
    <3>1. \A d \in Characteristics : at'[d] = (IF d = c THEN "initialize" ELSE at[d]) /\ signals'[d] = signals[d]
      BY <1>3, <2>2 DEF TypeOK
    <3>2. to_signal' = {d \in Characteristics : at'[d] = "new"}
      BY <1>1, <1>2, <2>2, <3>1 DEF Signals
    <3>3. \A d \in Characteristics : signals'[d] = {} /\ at'[d] # "realize_shaders"
      BY <2>2, <3>1 DEF Signals
    <3> QED
      BY <1>2, <2>1, <2>2, <3>2, <3>3 DEF Signals
  <2>3. CASE phase # "initialize"
    <3>1. signals' = [signals EXCEPT ![c] = {phase}] /\ at' = at /\ signals \in [Characteristics -> SUBSET {"fill", "preprocess", "compile"}]
      BY <1>3, <2>3 DEF TypeOK
    <3>2. \A d \in Characteristics : signals'[d] = IF d = c THEN {phase} ELSE signals[d]
      BY <3>1
    <3>3. \A d \in Characteristics :
            /\ at'[d] \notin {"new", "initialize"}
            /\ signals'[d] \subseteq {phase}
            /\ d \in to_signal' => signals'[d] = {}
            /\ at'[d] = "realize_shaders" => phase = "compile" /\ signals'[d] = {} /\ d \notin to_signal'
      BY <1>1, <1>2, <2>3, <3>1, <3>2 DEF Signals
    <3> QED
      BY <1>2, <2>1, <2>3, <3>3 DEF Signals
  <2> QED
    BY <2>2, <2>3
<1>9. CountsTheBusy'
  BY <1>1, <1>2, <1>6, <1>7 DEF CountsTheBusy
<1>10. Updating' /\ Loops'
  BY <1>1, <1>2 DEF Updating, Loops, InPipeline
<1> QED
  BY <1>1, <1>2, <1>5, <1>6, <1>8, <1>9, <1>10

(* The factory continues after a phase: all tasks called back. *)
LEMMA PhaseReached ==
  ASSUME IInv, Reached(phase)
  PROVE  Busy = {} /\ woken' \ {"updated"} = {} /\ ("updated" \in woken' => "updated" \in woken)
         /\ pc \in {"wait", "signal"} /\ woken' \subseteq woken
BY DEF IInv, FanOut, Signals, CountsTheBusy, Reached, TypeOK

LEMMA StartStep ==
  ASSUME IInv, begin_pipeline \/ characteristics_filled \/ characteristics_preprocessed
  PROVE  IInv'
<1> USE DEF IInv
<1>1. Busy = {} /\ woken' \ {"updated"} = {} /\ woken' \subseteq woken
  <2>1. CASE begin_pipeline
    BY <2>1 DEF begin_pipeline, Entered, InLoop, FanOut, CountsTheBusy
  <2>2. CASE characteristics_filled \/ characteristics_preprocessed
    <3>1. Reached(phase)
      BY <2>2 DEF characteristics_filled, characteristics_preprocessed, Reached
    <3> QED
      BY <3>1, PhaseReached
  <2> QED
    BY <2>1, <2>2
<1>2. PICK p \in {"fill", "preprocess", "compile"}, tasks \in SUBSET Characteristics : StartPhase(p, tasks)
  <2>1. Running \in SUBSET Characteristics
    BY DEF Running, Changed, TypeOK
  <2> QED
    BY <2>1 DEF begin_pipeline, characteristics_filled, characteristics_preprocessed, Needed, TypeOK
<1>3. /\ UNCHANGED <<at, signals, completed, counter, loop, updating, updates, m_set_index, m_have_lock, cache, terminate, data>>
      /\ running' \subseteq Characteristics
  <2>1. Running \in SUBSET Characteristics
    BY DEF Running, Changed, TypeOK
  <2> QED
    BY <2>1 DEF begin_pipeline, characteristics_filled, characteristics_preprocessed, task_vars, update_vars, TypeOK
<1>4. FanOut' /\ number' \in Nat
  BY <1>1, <1>2, <1>3, NextPhase
<1>5. /\ m_fill_index' \in [Characteristics -> Int]
      /\ \A c \in Characteristics \ Ranges : m_fill_index'[c] = -1
      /\ \A c \in Ranges : m_fill_index'[c] = counter[c]
      /\ loop = N
      /\ \A c \in Characteristics : counter[c] < End[c]
  <2>1. CASE begin_pipeline
    BY <2>1 DEF begin_pipeline, Entered, InLoop, TypeOK, Loops
  <2>2. CASE characteristics_filled
    BY <2>2 DEF characteristics_filled, Reached, TypeOK, Loops, InPipeline
  <2>3. CASE characteristics_preprocessed
    BY <2>3 DEF characteristics_preprocessed, Reached, TypeOK, Loops, InPipeline
  <2> QED
    BY <2>1, <2>2, <2>3
<1>6. TypeOK' /\ pc' = "signal" /\ phase' # "initialize" /\ pc \in {"multiloop", "signal", "wait"}
  BY <1>1, <1>2, <1>3, <1>4, <1>5 DEF TypeOK, StartPhase, begin_pipeline, Entered, InLoop, characteristics_filled,
     characteristics_preprocessed, Reached
<1>7. Updating'
  BY <1>1, <1>3, <1>6 DEF Updating
<1>8. Loops'
  BY <1>3, <1>5, <1>6 DEF Loops, InPipeline
<1> QED
  BY <1>4, <1>6, <1>7, <1>8

(* The other steps: they leave the tasks and the counter alone. *)
LEMMA QuietFanOut ==
  ASSUME IInv, UNCHANGED <<at, signals, phase, to_signal, number>>, pc # "initialized",
         \/ pc' = pc /\ woken' \ {"updated"} = woken \ {"updated"}
         \/ pc' = "aborted" /\ woken' = woken /\ pc # "signal"
         \/ pc' \in {"multiloop", "descriptor_sets", "wait_for_lock", "wait_for_updates", "done"}
            /\ woken' \ {"updated"} = {} /\ Busy = {} /\ (phase = "initialize" => pc' \in {"multiloop", "done"})
  PROVE  FanOut'
<1> USE DEF IInv, FanOut
<1>1. Busy' = Busy
  BY DEF Busy
<1>2. to_signal # {} => Busy # {}
  BY DEF Signals, Busy, TypeOK
<1>3. CASE pc' = pc /\ woken' \ {"updated"} = woken \ {"updated"}
  <2>1. Signals'
    BY <1>1, <1>3 DEF Signals
  <2>2. CountsTheBusy'
    BY <1>1, <1>3 DEF CountsTheBusy, TypeOK
  <2> QED
    BY <1>1, <1>3, <2>1, <2>2
<1>4. CASE pc' = "aborted" /\ woken' = woken /\ pc # "signal"
  <2>1. Signals'
    BY <1>1, <1>4 DEF Signals
  <2>2. CountsTheBusy'
    BY <1>1, <1>4 DEF CountsTheBusy
  <2> QED
    BY <1>4, <2>1, <2>2
<1>5. CASE /\ pc' \in {"multiloop", "descriptor_sets", "wait_for_lock", "wait_for_updates", "done"}
           /\ woken' \ {"updated"} = {} /\ Busy = {} /\ (phase = "initialize" => pc' \in {"multiloop", "done"})
  <2>1. Signals'
    BY <1>1, <1>2, <1>5 DEF Signals, TypeOK
  <2>2. CountsTheBusy'
    BY <1>1, <1>5 DEF CountsTheBusy
  <2> QED
    BY <1>1, <1>5, <2>1, <2>2
<1> QED
  BY <1>3, <1>4, <1>5

LEMMA ContinueStep ==
  ASSUME IInv, characteristics_initialized \/ characteristics_compiled
  PROVE  IInv'
<1> USE DEF IInv
<1>1. Reached(phase) /\ UNCHANGED <<at, signals, phase, to_signal, number>> /\ pc' \in {"multiloop", "descriptor_sets"}
  BY DEF characteristics_initialized, characteristics_compiled, Reached, task_vars
<1>2. Busy = {} /\ woken' \ {"updated"} = {} /\ woken' \subseteq woken /\ pc \in {"wait", "signal"}
  BY <1>1, PhaseReached
<1>3. FanOut'
  <2>1. pc # "initialized" /\ (phase = "initialize" => pc' = "multiloop")
    BY <1>2 DEF characteristics_initialized, characteristics_compiled, Reached
  <2> QED
    BY <1>1, <1>2, <2>1, QuietFanOut
<1>4. TypeOK' /\ Updating' /\ Loops'
  <2>1. CASE characteristics_initialized
    <3>1. TypeOK'
      BY <1>2, <2>1 DEF TypeOK, characteristics_initialized, task_vars, update_vars
    <3>2. Updating'
      BY <1>2, <2>1 DEF Updating, characteristics_initialized, update_vars
    <3>3. Loops'
      BY <1>2, <2>1 DEF Loops, InPipeline, characteristics_initialized, Reached
    <3> QED
      BY <3>1, <3>2, <3>3
  <2>2. CASE characteristics_compiled
    <3>1. TypeOK'
      <4>1. m_set_index' \in 0..Sets /\ m_have_lock' \in BOOLEAN /\ updating' \in Nat
            /\ woken' \subseteq {"initialize", "fill", "preprocess", "compile", "updated"}
        <5>1. Sets \in Nat /\ m_set_index' = 0 /\ m_have_lock' = FALSE /\ updating' = updating + 1
          BY <2>2 DEF characteristics_compiled
        <5>2. m_have_lock' \in BOOLEAN
          BY <5>1
        <5>3. m_set_index' \in 0..Sets /\ updating' \in Nat
          BY <5>1 DEF TypeOK
        <5>4. woken' \subseteq {"initialize", "fill", "preprocess", "compile", "updated"}
          BY <1>2 DEF TypeOK
        <5> QED
          BY <5>2, <5>3, <5>4
      <4>2. /\ UNCHANGED <<phase, to_signal, number, running, completed, counter, loop, updates, cache, at, signals, data,
                           terminate, m_fill_index>>
            /\ pc' = "descriptor_sets"
        BY <2>2 DEF characteristics_compiled, task_vars
      <4> QED
        BY <4>1, <4>2 DEF TypeOK
    <3>2. Updating'
      BY <1>2, <2>2 DEF Updating, TypeOK, characteristics_compiled
    <3>3. Loops'
      BY <1>2, <2>2 DEF Loops, InPipeline, characteristics_compiled, Reached
    <3> QED
      BY <3>1, <3>2, <3>3
  <2> QED
    BY <2>1, <2>2
<1> QED
  BY <1>3, <1>4

LEMMA DescriptorStep ==
  ASSUME IInv, update_descriptor_set \/ wait_for_set_layout_binding_lock \/ obtained_set_layout_binding_lock
  PROVE  IInv'
<1> USE DEF IInv, update_descriptor_set, wait_for_set_layout_binding_lock, obtained_set_layout_binding_lock, task_vars,
            update_vars
<1>1. /\ UNCHANGED <<at, signals, phase, to_signal, number, woken, loop, counter, cache, m_fill_index>>
      /\ pc \in {"descriptor_sets", "wait_for_lock"} /\ pc' \in {"descriptor_sets", "wait_for_lock"}
      /\ \E n \in {0, 1} : updating' = updating + n /\ updates' = updates + n
  BY DEF TypeOK
<1>2. FanOut'
  <2>1. Busy = {} /\ woken \ {"updated"} = {} /\ phase # "initialize"
    BY <1>1 DEF FanOut, CountsTheBusy, Signals
  <2> QED
    BY <1>1, <2>1, QuietFanOut
<1>3. TypeOK'
  <2>1. updating' \in Nat /\ updates' \in Nat
    BY <1>1 DEF TypeOK
  <2>2. m_set_index' \in 0..Sets /\ m_have_lock' \in BOOLEAN
    <3>1. Sets \in Nat /\ m_set_index \in 0..Sets /\ m_have_lock \in BOOLEAN
      BY DEF TypeOK
    <3>2. CASE update_descriptor_set
      <4>1. m_set_index' = m_set_index + 1 /\ m_set_index < Sets
        BY <3>2
      <4>2. m_set_index' \in 0..Sets
        BY <3>1, <4>1
      <4>3. m_have_lock' = FALSE
        BY <3>2
      <4> QED
        BY <4>2, <4>3
    <3>3. CASE wait_for_set_layout_binding_lock
      BY <3>1, <3>3
    <3>4. CASE obtained_set_layout_binding_lock
      BY <3>1, <3>4
    <3> QED
      BY <3>2, <3>3, <3>4
  <2>3. UNCHANGED <<running, completed, data, terminate>>
    OBVIOUS
  <2> QED
    BY <1>1, <2>1, <2>2, <2>3 DEF TypeOK
<1>4. Updating'
  BY <1>1 DEF Updating, TypeOK
<1>5. Loops'
  BY <1>1 DEF Loops, InPipeline
<1> QED
  BY <1>2, <1>3, <1>4, <1>5

LEMMA CreateStep == ASSUME IInv, create_pipeline PROVE IInv'
<1> USE DEF IInv, create_pipeline, descriptor_set_updated, task_vars
<1>1. FanOut'
  <2>1. Busy = {} /\ woken \ {"updated"} = {} /\ woken' \ {"updated"} = {} /\ phase # "initialize"
    BY DEF FanOut, CountsTheBusy, Signals
  <2> QED
    BY <2>1, QuietFanOut
<1>2. \A c \in Characteristics : cache[c] \in Seq(Int) /\ data[c] \in Int /\ counter[c] \in Nat /\ m_fill_index[c] \in Int
  BY DEF TypeOK
<1>3. \A c \in Characteristics : Slot(c) = counter[c] /\ counter[c] <= Len(cache[c])
  <2>1. loop = N /\ \A c \in Characteristics : counter[c] < End[c] /\ counter[c] <= Len(cache[c])
    BY DEF Loops, InPipeline
  <2>2. \A c \in Characteristics \ Ranges : counter[c] = 0 /\ m_fill_index[c] = -1
    BY <1>2, <2>1 DEF Loops
  <2>3. \A c \in Ranges : m_fill_index[c] = counter[c]
    BY DEF Loops, InPipeline
  <2> QED
    BY <1>2, <2>1, <2>2, <2>3 DEF Slot
<1>4. \A c \in Characteristics : Merged(c) \in Seq(Int) /\ counter[c] < Len(Merged(c)) /\ Len(cache[c]) <= Len(Merged(c))
  BY <1>2, <1>3 DEF Merged
<1>5. updating > 0 /\ updating = updates + 1
  BY DEF Updating, TypeOK
<1>6. TypeOK'
  <2>1. cache' \in [Characteristics -> Seq(Int)]
    BY <1>4
  <2>2. updating' \in Nat /\ woken' \subseteq {"initialize", "fill", "preprocess", "compile", "updated"}
    BY <1>5 DEF TypeOK
  <2> QED
    BY <2>1, <2>2 DEF TypeOK
<1>7. Updating'
  BY <1>5 DEF Updating, TypeOK
<1>8. Loops'
  <2>1. \A c \in Characteristics : cache'[c] = Merged(c)
    OBVIOUS
  <2>2. loop = N /\ \A c \in Characteristics : counter[c] < End[c]
    BY DEF Loops, InPipeline
  <2>3. \A c \in Characteristics : counter[c] < Len(cache'[c]) /\ counter[c] <= Len(cache'[c])
    BY <1>2, <1>4, <2>1
  <2> QED
    BY <2>2, <2>3 DEF Loops, InPipeline
<1> QED
  BY <1>1, <1>6, <1>7, <1>8

LEMMA UpdatedStep == ASSUME IInv, combined_image_sampler_updated PROVE IInv'
<1> USE DEF IInv, combined_image_sampler_updated, descriptor_set_updated, factory_vars, task_vars
<1>1. updates > 0 /\ updating > 0 /\ updating' = updating - 1 /\ updates' = updates - 1 /\ updating \in Nat /\ updates \in Nat
  BY DEF Updating, TypeOK
<1>2. pc \in {"descriptor_sets", "wait_for_lock", "wait_for_updates", "aborted"}
  BY <1>1 DEF Updating
<1>3. woken' \ {"updated"} = woken \ {"updated"}
  OBVIOUS
<1>4. FanOut'
  BY <1>2, <1>3, QuietFanOut
<1>5. TypeOK'
  <2>1. updating' \in Nat /\ updates' \in Nat /\ woken' \subseteq {"initialize", "fill", "preprocess", "compile", "updated"}
    BY <1>1 DEF TypeOK
  <2>2. /\ UNCHANGED <<pc, phase, to_signal, number, running, completed, counter, loop, cache, at, signals, data,
                       terminate, m_fill_index, m_set_index, m_have_lock>>
    OBVIOUS
  <2> QED
    BY <2>1, <2>2 DEF TypeOK
<1>6. Updating'
  BY <1>1, <1>2 DEF Updating
<1>7. Loops'
  BY DEF Loops, InPipeline
<1> QED
  BY <1>4, <1>5, <1>6, <1>7

LEMMA FinishStep == ASSUME IInv, done \/ abort PROVE IInv'
<1> USE DEF IInv, done, abort, finish_impl, task_vars, update_vars
<1>1. FanOut'
  <2>1. done => Busy = {} /\ woken \ {"updated"} = {}
    BY DEF FanOut, CountsTheBusy
  <2> QED
    BY <2>1, QuietFanOut
<1>2. TypeOK'
  BY DEF TypeOK
<1>3. Updating'
  BY DEF Updating, TypeOK
<1>4. Loops'
  BY DEF Loops, InPipeline
<1> QED
  BY <1>1, <1>2, <1>3, <1>4

(* The steps of the loops over the fill indices. *)
LEMMA LoopStep ==
  ASSUME IInv, start_next_loop \/ move_new_pipeline \/ end_of_loop
  PROVE  IInv'
<1> USE DEF IInv
<1>1. /\ UNCHANGED <<at, signals, phase, to_signal, number, running, updating, updates, cache, m_fill_index, data, terminate,
                     m_set_index, m_have_lock>>
      /\ pc \in {"multiloop", "wait_for_updates"} /\ pc' = "multiloop" /\ woken' \subseteq woken \ {"updated"}
      /\ completed' \subseteq Characteristics
  <2>1. CASE start_next_loop
    BY <2>1 DEF start_next_loop, Entered, InLoop, task_vars, update_vars, TypeOK, Updating
  <2>2. CASE move_new_pipeline
    BY <2>2 DEF move_new_pipeline, task_vars, update_vars, TypeOK
  <2>3. CASE end_of_loop
    <3>1. loop \in Characteristics
      BY <2>3 DEF end_of_loop, InLoop, TypeOK
    <3> QED
      BY <2>3, <3>1 DEF end_of_loop, InLoop, task_vars, update_vars, TypeOK, Updating
  <2> QED
    BY <2>1, <2>2, <2>3
<1>2. FanOut'
  <2>1. Busy = {} /\ woken \ {"updated"} = {}
    BY <1>1 DEF FanOut, CountsTheBusy
  <2> QED
    BY <1>1, <2>1, QuietFanOut
<1>3. Updating'
  BY <1>1 DEF Updating, move_new_pipeline, start_next_loop, end_of_loop
<1>4. /\ \A c \in Characteristics : counter[c] \in Nat /\ End[c] \in Nat \ {0} /\ Len(cache[c]) \in Nat
      /\ counter \in [Characteristics -> Nat]
  BY DEF TypeOK
<1>5. counter' \in [Characteristics -> Nat] /\ loop' \in 0..N /\ Loops'
  <2>1. CASE start_next_loop
    <3>1. /\ loop' = loop + 1 /\ counter' = [counter EXCEPT ![loop + 1] = 0] /\ loop \in 1..N /\ loop < N
          /\ counter[loop] < End[loop] /\ pc = "multiloop"
      BY <2>1 DEF start_next_loop, Entered, InLoop, TypeOK
    <3>2. \A c \in Characteristics : counter'[c] = IF c = loop + 1 THEN 0 ELSE counter[c]
      BY <1>4, <3>1
    <3>3. /\ \A c \in 1..loop : counter'[c] = counter[c]
          /\ \A c \in 1..(loop - 1) : counter[c] < End[c]
          /\ \A c \in 1..loop : counter[c] <= Len(cache[c])
          /\ \A c \in 1..loop : counter[c] > 0 => \A d \in 1..(c - 1) : counter[d] < Len(cache[d])
      BY <3>1, <3>2 DEF Loops
    <3>4. counter'[loop + 1] = 0 /\ loop + 1 \in Characteristics
      BY <3>1, <3>2
    <3>5. \A c \in 1..(loop' - 1) : counter'[c] < End[c]
      BY <3>1, <3>3
    <3>6. \A c \in 1..loop' : counter'[c] <= Len(cache[c])
      BY <1>4, <3>1, <3>3, <3>4
    <3>7. \A c \in 1..loop' : counter'[c] > 0 => \A d \in 1..(c - 1) : counter'[d] < Len(cache[d])
      <4> SUFFICES ASSUME NEW c \in 1..loop', counter'[c] > 0, NEW d \in 1..(c - 1) PROVE counter'[d] < Len(cache[d])
        OBVIOUS
      <4>1. c \in 1..loop /\ d \in 1..loop
        BY <3>1, <3>4
      <4> QED
        BY <3>3, <4>1
    <3> QED
      BY <1>1, <1>4, <3>1, <3>5, <3>6, <3>7 DEF Loops, InPipeline
  <2>2. CASE move_new_pipeline
    <3>1. /\ loop' = loop /\ loop = N /\ counter' = [counter EXCEPT ![N] = counter[N] + 1] /\ pc = "wait_for_updates"
          /\ \A c \in Characteristics : counter[c] < Len(cache[c]) /\ counter[c] < End[c]
      BY <2>2 DEF move_new_pipeline, Loops, InPipeline
    <3>2. \A c \in Characteristics : counter'[c] = IF c = N THEN counter[c] + 1 ELSE counter[c]
      BY <1>4, <3>1
    <3>3. /\ \A c \in 1..(loop' - 1) : counter'[c] < End[c]
          /\ \A c \in 1..loop' : counter'[c] <= Len(cache[c])
          /\ \A c \in 1..loop' : counter'[c] > 0 => \A d \in 1..(c - 1) : counter'[d] < Len(cache[d])
      BY <1>4, <3>1, <3>2
    <3>4. loop' \in 0..N /\ counter' \in [Characteristics -> Nat]
      BY <1>4, <3>1, <3>2
    <3> QED
      BY <1>1, <3>1, <3>3, <3>4 DEF Loops, InPipeline, move_new_pipeline
  <2>3. CASE end_of_loop
    <3>1. /\ loop' = loop - 1 /\ loop \in 1..N /\ counter[loop] > 0 /\ pc = "multiloop"
          /\ counter' = IF loop > 1 THEN [counter EXCEPT ![loop - 1] = counter[loop - 1] + 1] ELSE counter
      BY <1>4, <2>3 DEF end_of_loop, InLoop, TypeOK
    <3>2. \A d \in 1..(loop - 1) : counter[d] < Len(cache[d]) /\ counter[d] < End[d]
      BY <3>1 DEF Loops
    <3>3. \A c \in Characteristics : counter'[c] = IF c = loop - 1 THEN counter[c] + 1 ELSE counter[c]
      <4>1. CASE loop > 1
        BY <1>4, <3>1, <4>1
      <4>2. CASE ~(loop > 1)
        BY <3>1, <4>2
      <4> QED
        BY <4>1, <4>2
    <3>4. /\ \A c \in 1..(loop' - 1) : c \in 1..(loop - 1) /\ c # loop - 1
          /\ \A c \in 1..loop' : c \in 1..(loop - 1) /\ \A d \in 1..(c - 1) : d \in 1..(loop - 1) /\ d # loop - 1
      BY <3>1
    <3>6. \A d \in 1..(loop - 1) : d \in 1..N /\ (d # loop - 1 => counter'[d] = counter[d])
      <4>1. \A d \in 1..(loop - 1) : d \in 1..N
        BY <3>1
      <4> QED
        BY <3>3, <4>1
    <3>7. /\ \A c \in 1..(loop' - 1) : counter'[c] < End[c]
          /\ \A c \in 1..loop' : \A d \in 1..(c - 1) : counter'[d] < Len(cache[d])
      BY <3>2, <3>4, <3>6
    <3>8. \A c \in 1..loop' : counter'[c] <= Len(cache[c])
      <4> SUFFICES ASSUME NEW c \in 1..loop' PROVE counter'[c] <= Len(cache[c])
        OBVIOUS
      <4>1. c \in 1..(loop - 1) /\ c \in 1..N
        BY <3>4, <3>6
      <4>2. counter[c] \in Nat /\ counter[c] < Len(cache[c]) /\ Len(cache[c]) \in Nat
        BY <1>4, <3>2, <4>1
      <4>3. counter'[c] = counter[c] \/ counter'[c] = counter[c] + 1
        BY <3>3, <4>1
      <4> QED
        BY <4>2, <4>3
    <3>5. counter' \in [Characteristics -> Nat]
      BY SMTT(30), <1>4, <3>1
    <3> QED
      BY SMTT(30), <1>1, <3>1, <3>5, <3>7, <3>8 DEF Loops, InPipeline
  <2> QED
    BY <2>1, <2>2, <2>3
<1>6. TypeOK'
  BY <1>1, <1>5 DEF TypeOK
<1> QED
  BY <1>2, <1>3, <1>5, <1>6

--------------------------------------------------------------------------------

LEMMA NextIInv == IInv /\ [Next]_vars => IInv'
<1> SUFFICES ASSUME IInv, [Next]_vars PROVE IInv'
  OBVIOUS
<1>1. CASE UNCHANGED vars
  <2> USE <1>1 DEF vars, IInv
  <2>1. TypeOK'
    BY DEF TypeOK
  <2>2. Busy' = Busy
    BY DEF Busy
  <2>3. FanOut'
    BY <2>2 DEF FanOut, Signals, CountsTheBusy
  <2>4. Updating' /\ Loops'
    BY DEF Updating, Loops, InPipeline
  <2> QED
    BY <2>1, <2>3, <2>4
<1>2. CASE \E c \in Characteristics : Characteristic(c)
  BY <1>2, TaskStep
<1>3. CASE initialized
  BY <1>3, InitializedStep
<1>4. CASE signal_task
  BY <1>4, SignalStep
<1>5. CASE begin_pipeline \/ characteristics_filled \/ characteristics_preprocessed
  BY <1>5, StartStep
<1>6. CASE characteristics_initialized \/ characteristics_compiled
  BY <1>6, ContinueStep
<1>7. CASE update_descriptor_set \/ wait_for_set_layout_binding_lock \/ obtained_set_layout_binding_lock
  BY <1>7, DescriptorStep
<1>8. CASE create_pipeline
  BY <1>8, CreateStep
<1>9. CASE combined_image_sampler_updated
  BY <1>9, UpdatedStep
<1>10. CASE done \/ abort
  BY <1>10, FinishStep
<1>11. CASE start_next_loop \/ move_new_pipeline \/ end_of_loop
  BY <1>11, LoopStep
<1> QED
  BY <1>1, <1>2, <1>3, <1>4, <1>5, <1>6, <1>7, <1>8, <1>9, <1>10, <1>11 DEF Next, Factory

LEMMA Invariant == Spec => []IInv
BY InitIInv, NextIInv, PTL DEF Spec

(* The number of running tasks is the number of tasks that still have to call back, and
   the last one wakes up the factory: the counter of
   PipelineFactory::characteristic_range_filled and the like. *)
THEOREM Counting == Spec => []CountsTheBusy
<1>1. IInv => CountsTheBusy
  BY DEF IInv, FanOut
<1> QED
  BY <1>1, Invariant, PTL

(* The factory copies the parts of the pipeline into its cache, and changes the fill
   indices, only while no task works on them. *)
THEOREM Exclusive == Spec => []NobodyBusyWhenMerged
<1>1. IInv => NobodyBusyWhenMerged
  <2> SUFFICES ASSUME IInv, pc = "descriptor_sets", NEW c \in Characteristics PROVE Slot(c) <= Len(cache[c])
    BY DEF NobodyBusyWhenMerged, IInv, FanOut
  <2>1. counter[c] <= Len(cache[c]) /\ counter[c] < End[c] /\ counter[c] \in Nat /\ m_fill_index[c] \in Int
    BY DEF IInv, TypeOK, Loops, InPipeline
  <2>2. IF c \in Ranges THEN m_fill_index[c] = counter[c] ELSE m_fill_index[c] = -1 /\ counter[c] = 0
    BY <2>1 DEF IInv, Loops, InPipeline
  <2> QED
    BY <2>1, <2>2 DEF Slot
<1> QED
  BY <1>1, Invariant, PTL

(* The factory hands a pipeline over only when the image samplers of all its descriptor
   sets were updated: descriptor_set_update_start keeps the counter above zero until the
   last set was looked at. *)
THEOREM SamplersUpdated == Spec => []UpdatedBeforeUse
<1>1. IInv => UpdatedBeforeUse
  BY DEF IInv, Updating, UpdatedBeforeUse
<1> QED
  BY <1>1, Invariant, PTL

--------------------------------------------------------------------------------
(* The order of the combinations. *)

(* The part of a value that was merged is the part for that value. *)
IndexedCache == \A c \in Characteristics : \A i \in 1..Len(cache[c]) : cache[c][i] = i - 1

(* What create_pipeline needs of a characteristic: its part is in the cache, or the
   task filled it in for the current value. *)
InCache(c) == Slot(c) < Len(cache[c])
Ready(c) == InCache(c) \/ data[c] = Slot(c)

(* A characteristic that completed its loop has all its parts in the cache, and so has,
   between two pipelines, the fill index that a range kept. *)
Known ==
  /\ \A c \in completed : End[c] <= Len(cache[c])
  /\ pc \in {"initialized", "multiloop"} \/ (pc \in {"signal", "wait"} /\ phase = "initialize") =>
       \A c \in Ranges : m_fill_index[c] # -1 => m_fill_index[c] < Len(cache[c])

(* The tasks that have no state of their own are never asked for one. *)
Kinds ==
  /\ \A c \in Characteristics \ Ranges : at[c] # "fill"
  /\ \A c \in Characteristics \ (Ranges \cup Shaders) : at[c] \notin {"new", "initialize"} => data[c] = 0

(* What is left to do in every phase. *)
Filled ==
  /\ pc \in {"signal", "wait"} =>
       /\ phase # "initialize" => Busy \subseteq running
       /\ phase = "fill" => /\ \A c \in Characteristics \ running : Ready(c)
                            /\ \A c \in (Ranges \ Shaders) \ Busy : Ready(c)
       /\ phase = "preprocess" => \A c \in Characteristics \ (running \cap Shaders) : Ready(c)
       /\ phase = "compile" => \A c \in Characteristics \ Busy : Ready(c)
  /\ pc \in {"descriptor_sets", "wait_for_lock"} => \A c \in Characteristics : Ready(c)

(* The combinations that come before the values n of the first l loops. *)
Behind(k, n, l) == \E c \in 1..l : k[c] < n[c] /\ \A d \in 1..(c - 1) : k[d] = n[d]

Combinations == EveryCombination!Combinations
PartsIn(p) == {p[i].parts : i \in 1..Len(p)}
Created == PartsIn(pipelines)

(* The pipelines are exactly the combinations that the loops went through. *)
Made ==
  /\ \E S : pipelines \in Seq(S)
  /\ Created = {k \in Combinations : loop = 0 \/ Behind(k, counter, loop)}
  /\ pc = "done" => loop = 0

LEMMA CombinationType == \A k \in Combinations : k \in [1..N -> Nat] /\ \A c \in 1..N : k[c] < End[c]
<1> SUFFICES ASSUME NEW k \in Combinations PROVE k \in [1..N -> Nat] /\ \A c \in 1..N : k[c] < End[c]
  OBVIOUS
<1>1. k \in [1..N -> UNION {0..(End[c] - 1) : c \in 1..N}] /\ \A c \in 1..N : k[c] < End[c]
  BY DEF Combinations, EveryCombination!Combinations
<1>2. UNION {0..(End[c] - 1) : c \in 1..N} \subseteq Nat
  OBVIOUS
<1> QED
  BY <1>1, <1>2

LEMMA IsCombination ==
  ASSUME NEW n \in [1..N -> Nat], \A c \in 1..N : n[c] < End[c]
  PROVE  n \in Combinations
<1>1. \A c \in 1..N : n[c] \in 0..(End[c] - 1)
  OBVIOUS
<1>2. \A c \in 1..N : n[c] \in UNION {0..(End[d] - 1) : d \in 1..N}
  BY <1>1
<1> QED
  BY <1>2 DEF Combinations, EveryCombination!Combinations

(* A loop that starts at zero is behind nothing new. *)
LEMMA BehindStart ==
  ASSUME NEW k \in Combinations, NEW l \in 1..(N - 1), NEW n \in [1..N -> Nat], NEW m \in [1..N -> Nat],
         \A d \in 1..l : m[d] = n[d], m[l + 1] = 0
  PROVE  Behind(k, m, l + 1) <=> Behind(k, n, l)
<1>1. k \in [1..N -> Nat]
  BY CombinationType
<1>2. ASSUME Behind(k, m, l + 1) PROVE Behind(k, n, l)
  <2>1. PICK c \in 1..(l + 1) : k[c] < m[c] /\ \A d \in 1..(c - 1) : k[d] = m[d]
    BY <1>2 DEF Behind
  <2>2. c \in 1..l
    <3>1. k[l + 1] \in Nat
      BY <1>1
    <3> QED
      BY <2>1, <3>1
  <2>3. k[c] < n[c] /\ \A d \in 1..(c - 1) : k[d] = n[d]
    <3>1. \A d \in 1..(c - 1) : d \in 1..l
      BY <2>2
    <3> QED
      BY <2>1, <2>2, <3>1
  <2> QED
    BY <2>2, <2>3 DEF Behind
<1>3. ASSUME Behind(k, n, l) PROVE Behind(k, m, l + 1)
  <2>1. PICK c \in 1..l : k[c] < n[c] /\ \A d \in 1..(c - 1) : k[d] = n[d]
    BY <1>3 DEF Behind
  <2>2. c \in 1..(l + 1) /\ \A d \in 1..(c - 1) : d \in 1..l
    OBVIOUS
  <2>3. k[c] < m[c] /\ \A d \in 1..(c - 1) : k[d] = m[d]
    BY <2>1, <2>2
  <2> QED
    BY <2>2, <2>3 DEF Behind
<1> QED
  BY <1>2, <1>3

(* A loop that is complete is behind the next value of the loop around it. *)
LEMMA BehindEnd ==
  ASSUME NEW k \in Combinations, NEW l \in 2..N, NEW n \in [1..N -> Nat], NEW m \in [1..N -> Nat],
         End[l] <= n[l], \A d \in 1..(l - 2) : m[d] = n[d], m[l - 1] = n[l - 1] + 1
  PROVE  Behind(k, m, l - 1) <=> Behind(k, n, l)
<1>1. k \in [1..N -> Nat] /\ k[l] < End[l]
  <2>1. l \in 1..N
    OBVIOUS
  <2> QED
    BY <2>1, CombinationType
<1>2. /\ l \in 1..N /\ l - 1 \in 1..N /\ l - 1 \in 1..l /\ (l - 1) - 1 = l - 2
      /\ \A c \in 1..(l - 1) : c \in 1..l /\ \A d \in 1..(c - 1) : d \in 1..(l - 2)
      /\ \A c \in 1..(l - 1) : c \in 1..(l - 2) \/ c = l - 1
      /\ \A c \in 1..l : c \in 1..(l - 1) \/ c = l
  OBVIOUS
<1>3. k[l] < n[l]
  <2>1. k[l] \in Nat /\ n[l] \in Nat /\ End[l] \in Nat
    BY <1>1, <1>2
  <2> QED
    BY <1>1, <2>1
<1>4. k[l - 1] \in Nat /\ n[l - 1] \in Nat
  BY <1>1, <1>2
<1>5. ASSUME Behind(k, m, l - 1) PROVE Behind(k, n, l)
  <2>1. PICK c \in 1..(l - 1) : k[c] < m[c] /\ \A d \in 1..(c - 1) : k[d] = m[d]
    BY <1>5 DEF Behind
  <2>2. \A d \in 1..(c - 1) : k[d] = n[d]
    BY <1>2, <2>1
  <2>3. CASE k[c] < n[c]
    BY <1>2, <2>2, <2>3 DEF Behind
  <2>4. CASE ~(k[c] < n[c])
    <3>1. c = l - 1
      BY <1>2, <2>1, <2>4
    <3>2. k[l - 1] = n[l - 1]
      <4>1. k[l - 1] < n[l - 1] + 1 /\ ~(k[l - 1] < n[l - 1])
        BY <2>1, <2>4, <3>1
      <4>2. \A i, j \in Nat : i < j + 1 /\ ~(i < j) => i = j
        OBVIOUS
      <4> QED
        BY <1>4, <4>1, <4>2, Zenon
    <3>3. \A d \in 1..(l - 1) : k[d] = n[d]
      BY <1>2, <2>2, <3>1, <3>2
    <3>4. l \in 1..l
      OBVIOUS
    <3> QED
      BY <1>3, <3>3, <3>4 DEF Behind
  <2> QED
    BY <2>3, <2>4
<1>6. ASSUME Behind(k, n, l) PROVE Behind(k, m, l - 1)
  <2>1. PICK c \in 1..l : k[c] < n[c] /\ \A d \in 1..(c - 1) : k[d] = n[d]
    BY <1>6 DEF Behind
  <2>2. CASE c \in 1..(l - 1)
    <3>1. \A d \in 1..(c - 1) : k[d] = m[d]
      BY <1>2, <2>1, <2>2
    <3>2. k[c] < m[c]
      <4>1. CASE c \in 1..(l - 2)
        BY <2>1, <4>1
      <4>2. CASE c = l - 1
        BY <1>4, <2>1, <4>2
      <4> QED
        BY <1>2, <2>2, <4>1, <4>2
    <3> QED
      BY <2>2, <3>1, <3>2 DEF Behind
  <2>3. CASE c = l
    <3>1. \A d \in 1..((l - 1) - 1) : k[d] = m[d]
      BY <1>2, <2>1, <2>3
    <3>2. k[l - 1] < m[l - 1]
      BY <1>4, <2>1, <2>3
    <3>3. l - 1 \in 1..(l - 1)
      OBVIOUS
    <3> QED
      BY <3>1, <3>2, <3>3 DEF Behind
  <2> QED
    BY <1>2, <2>2, <2>3
<1> QED
  BY <1>5, <1>6

(* The next value of the inner loop is behind nothing but the previous one. *)
LEMMA BehindMove ==
  ASSUME NEW k \in Combinations, NEW n \in [1..N -> Nat], NEW m \in [1..N -> Nat],
         \A d \in 1..(N - 1) : m[d] = n[d], m[N] = n[N] + 1
  PROVE  Behind(k, m, N) <=> Behind(k, n, N) \/ k = n
<1>1. k \in [1..N -> Nat]
  BY CombinationType
<1>2. ASSUME Behind(k, m, N) PROVE Behind(k, n, N) \/ k = n
  <2>1. PICK c \in 1..N : k[c] < m[c] /\ \A d \in 1..(c - 1) : k[d] = m[d]
    BY <1>2 DEF Behind
  <2>2. \A d \in 1..(c - 1) : k[d] = n[d]
    BY <2>1
  <2>3. CASE k[c] < n[c]
    BY <2>2, <2>3 DEF Behind
  <2>4. CASE ~(k[c] < n[c])
    <3>1. c = N /\ k[N] = n[N]
      BY <1>1, <2>1, <2>4
    <3>2. \A d \in 1..N : k[d] = n[d]
      BY <2>2, <3>1
    <3> QED
      BY <1>1, <3>2
  <2> QED
    BY <2>3, <2>4
<1>3. ASSUME Behind(k, n, N) PROVE Behind(k, m, N)
  <2>1. PICK c \in 1..N : k[c] < n[c] /\ \A d \in 1..(c - 1) : k[d] = n[d]
    BY <1>3 DEF Behind
  <2>2. \A d \in 1..(c - 1) : k[d] = m[d]
    BY <2>1
  <2>3. k[c] < m[c]
    <3>1. k[c] \in Nat /\ n[c] \in Nat
      BY <1>1
    <3>2. m[c] = n[c] \/ m[c] = n[c] + 1
      <4>1. c \in 1..(N - 1) \/ c = N
        OBVIOUS
      <4> QED
        BY <4>1
    <3> QED
      BY <2>1, <3>1, <3>2
  <2> QED
    BY <2>2, <2>3 DEF Behind
<1>4. ASSUME k = n PROVE Behind(k, m, N)
  <2>1. k[N] < m[N] /\ \A d \in 1..(N - 1) : k[d] = m[d] /\ N \in 1..N
    BY <1>1, <1>4
  <2> QED
    BY <2>1 DEF Behind
<1> QED
  BY <1>2, <1>3, <1>4

(* What is not behind the counters comes after them. *)
LEMMA NotBehind ==
  ASSUME NEW k \in Combinations, NEW n \in [1..N -> Nat], ~Behind(k, n, N), k # n
  PROVE  EveryCombination!Precedes(n, k)
<1> DEFINE Differ == {c \in 1..N : k[c] # n[c]}
           f == First(Differ)
<1>1. k \in [1..N -> Nat]
  BY CombinationType
<1>2. Differ # {} /\ Differ \in SUBSET Characteristics
  <2>1. ASSUME \A c \in 1..N : k[c] = n[c] PROVE k = n
    BY <1>1, <2>1
  <2> QED
    BY <2>1
<1>3. f \in Differ /\ \A d \in Differ : f <= d
  <2> HIDE DEF Differ
  <2> QED
    BY <1>2, FirstIsOne
<1> HIDE DEF f
<1>4. f \in 1..N /\ k[f] # n[f] /\ \A d \in 1..(f - 1) : k[d] = n[d]
  BY <1>3
<1>5. n[f] < k[f]
  <2>1. ~(k[f] < n[f])
    BY <1>4 DEF Behind
  <2>2. k[f] \in Nat /\ n[f] \in Nat
    BY <1>1, <1>4
  <2> QED
    BY <1>4, <2>1, <2>2
<1> QED
  BY <1>4, <1>5 DEF EveryCombination!Precedes

--------------------------------------------------------------------------------
(* The parts that the tasks fill in. *)

(* While the factory works on a pipeline, the slot of a characteristic is its value. *)
LEMMA SlotIsCounter ==
  ASSUME IInv, InPipeline, NEW c \in Characteristics
  PROVE  Slot(c) = counter[c] /\ counter[c] \in Nat /\ counter[c] < End[c]
<1>1. counter[c] \in Nat /\ m_fill_index[c] \in Int /\ counter[c] < End[c] /\ End[c] \in Nat
  BY DEF IInv, TypeOK, Loops
<1>2. c \in Ranges => m_fill_index[c] = counter[c]
  BY DEF IInv, Loops
<1>3. c \notin Ranges => m_fill_index[c] = -1 /\ End[c] = 1
  BY DEF IInv, Loops
<1> QED
  BY <1>1, <1>2, <1>3 DEF Slot

(* A part that was there, or filled in, still is when nothing changed. *)
LEMMA ReadyUnchanged ==
  ASSUME NEW c \in Characteristics, UNCHANGED <<cache, m_fill_index>>
  PROVE  /\ Slot(c)' = Slot(c) /\ InCache(c)' = InCache(c)
         /\ data'[c] = data[c] => Ready(c)' = Ready(c)
         /\ data'[c] = Slot(c) => Ready(c)'
BY DEF Ready, InCache, Slot

Parts == IndexedCache /\ Known /\ Kinds /\ Filled

LEMMA TaskParts ==
  ASSUME IInv, Parts, NEW c \in Characteristics, Characteristic(c)
  PROVE  Parts'
<1> USE DEF Parts
<1>1. /\ UNCHANGED <<pc, phase, to_signal, running, completed, counter, loop, cache, m_fill_index>>
  BY DEF Characteristic, initialize, fill, preprocess, start_realize_shaders, realize_shaders, terminate_task,
         factory_vars
<1>2. Busy' \subseteq Busy
  BY TaskStep
<1>3. IndexedCache' /\ Known'
  BY <1>1 DEF IndexedCache, Known
<1>4. at \in [Characteristics -> {"new", "initialize", "fill", "preprocess", "compile", "realize_shaders", "done"}]
      /\ data \in [Characteristics -> Int]
  BY DEF IInv, TypeOK
<1>5. Kinds'
  <2>1. c \notin Ranges => m_fill_index[c] = -1
    BY DEF IInv, Loops
  <2>2. c \notin Ranges => Slot(c) = 0
    BY <2>1 DEF Slot
  <2>3. CASE initialize(c)
    BY <1>4, <2>3 DEF Kinds, initialize
  <2>4. CASE fill(c)
    BY <1>4, <2>4 DEF Kinds, fill, Received
  <2>5. CASE preprocess(c) \/ start_realize_shaders(c) \/ terminate_task(c)
    BY <1>4, <2>5 DEF Kinds, preprocess, start_realize_shaders, terminate_task, Received
  <2>6. CASE realize_shaders(c)
    BY <1>4, <2>2, <2>6 DEF Kinds, realize_shaders
  <2> QED
    BY <2>3, <2>4, <2>5, <2>6 DEF Characteristic
<1>6. \A d \in Characteristics : d # c => (Ready(d)' = Ready(d))
  <2> SUFFICES ASSUME NEW d \in Characteristics, d # c PROVE Ready(d)' = Ready(d)
    OBVIOUS
  <2>1. data'[d] = data[d]
    BY <1>4 DEF Characteristic, initialize, fill, preprocess, start_realize_shaders, realize_shaders, terminate_task
  <2> QED
    BY <1>1, <2>1, ReadyUnchanged
<1>7. CASE initialize(c)
  <2>1. phase = "initialize"
    BY <1>7 DEF initialize, IInv, FanOut, Signals
  <2>2. pc \notin {"descriptor_sets", "wait_for_lock"}
    BY <2>1 DEF IInv, FanOut, Signals
  <2> QED
    BY <1>1, <1>3, <1>5, <2>1, <2>2 DEF Filled
<1>8. CASE preprocess(c) \/ start_realize_shaders(c) \/ terminate_task(c)
  <2>1. data' = data
    BY <1>8 DEF preprocess, start_realize_shaders, terminate_task
  <2>2. \A d \in Characteristics : Ready(d)' = Ready(d)
    BY <1>1, <2>1, ReadyUnchanged
  <2>3. ASSUME pc \in {"signal", "wait"}, phase \in {"fill", "compile"} PROVE Busy' = Busy
    <3>1. ~preprocess(c)
      BY <2>3 DEF preprocess, Received, IInv, FanOut, Signals
    <3>2. CASE start_realize_shaders(c)
      <4>1. at[c] = "compile" /\ "compile" \in signals[c] /\ at' = [at EXCEPT ![c] = "realize_shaders"]
            /\ signals' = [signals EXCEPT ![c] = signals[c] \ {"compile"}] /\ signals \in [Characteristics -> SUBSET {"fill", "preprocess", "compile"}]
        BY <3>2 DEF start_realize_shaders, Received, IInv, TypeOK
      <4>2. \A d \in Characteristics : (signals'[d] # {} \/ at'[d] = "realize_shaders")
                                         <=> (signals[d] # {} \/ at[d] = "realize_shaders")
        BY <1>4, <4>1
      <4> QED
        BY <1>1, <2>3, <4>2 DEF Busy
    <3>3. CASE terminate_task(c)
      <4>1. \A d \in Characteristics : at'[d] = "realize_shaders" <=> at[d] = "realize_shaders"
        BY <1>4, <3>3 DEF terminate_task
      <4> QED
        BY <1>1, <2>3, <3>3, <4>1 DEF Busy, terminate_task
    <3> QED
      BY <1>8, <3>1, <3>2, <3>3
  <2>4. Filled'
    BY <1>1, <1>2, <2>2, <2>3 DEF Filled
  <2> QED
    BY <1>3, <1>5, <2>4
<1>9. CASE fill(c)
  <2>1. phase = "fill" /\ c \in Busy /\ c \in Ranges
    BY <1>9 DEF fill, Received, IInv, FanOut, Signals, Busy, Kinds
  <2>2. pc \notin {"descriptor_sets", "wait_for_lock"}
    BY <2>1 DEF IInv, FanOut
  <2>3. ASSUME pc \in {"signal", "wait"} PROVE Filled'
    <3>1. c \in running
      BY <2>1, <2>3 DEF Filled
    <3>2. \A d \in Characteristics : d # c /\ d \notin Busy' => d \notin Busy
      <4>1. \A d \in Characteristics : d # c => signals'[d] = signals[d] /\ at'[d] = at[d]
        BY <1>4, <1>9 DEF fill, IInv, TypeOK
      <4> QED
        BY <1>1, <2>1, <4>1 DEF Busy
    <3>3. c \notin Shaders => Ready(c)'
      <4>1. Slot(c) = m_fill_index[c]
        <5>1. Slot(c) = counter[c] /\ m_fill_index[c] = counter[c]
          BY <2>1, <2>3, SlotIsCounter DEF InPipeline, IInv, Loops
        <5> QED
          BY <5>1
      <4>2. c \notin Shaders => data'[c] = m_fill_index[c]
        BY <1>4, <1>9 DEF fill
      <4> QED
        BY <1>1, <4>1, <4>2, ReadyUnchanged
    <3> QED
      BY <1>1, <1>2, <1>6, <2>1, <2>2, <2>3, <3>1, <3>2, <3>3 DEF Filled
  <2> QED
    BY <1>1, <1>3, <1>5, <2>2, <2>3 DEF Filled
<1>10. CASE realize_shaders(c)
  <2>1. phase = "compile"
    BY <1>10 DEF realize_shaders, IInv, FanOut, Signals
  <2>2. Ready(c)'
    <3>1. data'[c] = Slot(c)
      BY <1>4, <1>10 DEF realize_shaders
    <3> QED
      BY <1>1, <3>1, ReadyUnchanged
  <2>3. \A d \in Characteristics : d # c /\ d \notin Busy' => d \notin Busy
    <3>1. \A d \in Characteristics : d # c => signals'[d] = signals[d] /\ at'[d] = at[d]
      BY <1>4, <1>10 DEF realize_shaders
    <3> QED
      BY <1>1, <2>1, <3>1 DEF Busy
  <2>4. Filled'
    BY <1>1, <1>2, <1>6, <2>1, <2>2, <2>3 DEF Filled
  <2> QED
    BY <1>3, <1>5, <2>4
<1> QED
  BY <1>7, <1>8, <1>9, <1>10 DEF Characteristic

(* The factory starts a pipeline: what it doesn't run is in the cache. *)
LEMMA BeginParts == ASSUME IInv, Parts, begin_pipeline PROVE Parts'
<1> USE DEF Parts
<1>1. /\ UNCHANGED <<completed, counter, loop, woken, cache, at, signals, data>>
      /\ running' = Running /\ pc = "multiloop" /\ loop = N /\ pc' = "signal" /\ phase' = "fill"
      /\ m_fill_index' = [c \in Characteristics |-> IF c \in Ranges THEN counter[c] ELSE m_fill_index[c]]
      /\ StartPhase("fill", Needed("fill", Running))
  BY DEF begin_pipeline, Entered, InLoop, task_vars, StartPhase
<1>2. Busy' = Running \cap Ranges
  <2>1. Busy = {} /\ woken' \ {"updated"} = {}
    BY <1>1 DEF IInv, FanOut, CountsTheBusy
  <2>2. Needed("fill", Running) \in SUBSET Characteristics /\ Needed("fill", Running) = Running \cap Ranges
    BY DEF Running, Changed, Needed
  <2> QED
    BY <1>1, <2>1, <2>2, NextPhase
<1>3. \A c \in Characteristics : counter[c] \in Nat /\ counter[c] < End[c] /\ End[c] \in Nat
  BY <1>1 DEF begin_pipeline, Entered, InLoop, IInv, TypeOK, Loops
<1>4. \A c \in Characteristics \ Ranges : m_fill_index[c] = -1 /\ End[c] = 1
  BY DEF IInv, Loops
<1>5. \A c \in Characteristics : Slot(c)' = counter[c]
  <2> SUFFICES ASSUME NEW c \in Characteristics PROVE Slot(c)' = counter[c]
    OBVIOUS
  <2>1. CASE c \in Ranges
    BY <1>1, <1>3, <2>1 DEF Slot
  <2>2. CASE c \notin Ranges
    BY <1>1, <1>3, <1>4, <2>2 DEF Slot
  <2> QED
    BY <2>1, <2>2
<1>6. \A c \in Characteristics \ Running : Ready(c)'
  <2> SUFFICES ASSUME NEW c \in Characteristics \ Running PROVE counter[c] < Len(cache[c])
    BY <1>1, <1>5 DEF Ready, InCache
  <2>1. cache[c] \in Seq(Int)
    BY DEF IInv, TypeOK
  <2>2. CASE c \in completed
    BY <1>3, <2>1, <2>2 DEF Known
  <2>3. CASE c \notin completed
    <3>1. c \in Ranges /\ m_fill_index[c] = counter[c]
      BY <2>3 DEF Running, Changed
    <3> QED
      BY <1>1, <1>3, <3>1 DEF Known
  <2> QED
    BY <2>2, <2>3
<1>7. Filled'
  BY <1>1, <1>2, <1>6 DEF Filled
<1>8. IndexedCache' /\ Known' /\ Kinds'
  BY <1>1 DEF IndexedCache, Known, Kinds
<1> QED
  BY <1>7, <1>8

(* The next phase: what is not asked for has been filled in. *)
LEMMA PhaseParts ==
  ASSUME IInv, Parts, characteristics_filled \/ characteristics_preprocessed \/ characteristics_compiled
  PROVE  Parts'
<1> USE DEF Parts
<1>1. /\ UNCHANGED <<running, completed, counter, loop, cache, at, signals, data, m_fill_index>>
      /\ Reached(phase) /\ phase # "initialize"
  BY DEF characteristics_filled, characteristics_preprocessed, characteristics_compiled, Reached, task_vars
<1>2. Busy = {} /\ woken' \ {"updated"} = {} /\ pc \in {"wait", "signal"}
  BY <1>1, PhaseReached
<1>3. \A c \in Characteristics : Ready(c)' = Ready(c)
  BY <1>1, ReadyUnchanged
<1>4. IndexedCache' /\ Kinds'
  BY <1>1 DEF IndexedCache, Kinds
<1>5. \A p \in {"preprocess", "compile"} : StartPhase(p, running \cap Shaders) => Busy' = running \cap Shaders
  <2>1. running \cap Shaders \in SUBSET Characteristics
    BY DEF IInv, TypeOK
  <2> QED
    BY <1>1, <1>2, <2>1, NextPhase
<1>6. CASE characteristics_filled
  <2>1. phase = "fill" /\ StartPhase("preprocess", running \cap Shaders)
    BY <1>6 DEF characteristics_filled, Reached, Needed
  <2>2. Busy' = running \cap Shaders
    BY <1>5, <2>1
  <2>3. \A c \in Characteristics \ (running \cap Shaders) : Ready(c)
    <3> SUFFICES ASSUME NEW c \in running \ Shaders, c \in Characteristics PROVE Ready(c)
      BY <1>2, <2>1 DEF Filled
    <3>1. CASE c \in Ranges
      BY <1>2, <2>1, <3>1 DEF Filled
    <3>2. CASE c \notin Ranges
      <4>1. data[c] = 0
        BY <1>1, <3>2 DEF Kinds, IInv, FanOut, Signals
      <4>2. Slot(c) = 0
        BY <3>2 DEF IInv, Loops, Slot
      <4> QED
        BY <4>1, <4>2 DEF Ready
    <3> QED
      BY <3>1, <3>2
  <2>4. Filled' /\ Known'
    BY <1>1, <1>3, <2>1, <2>2, <2>3 DEF Filled, Known, StartPhase
  <2> QED
    BY <1>4, <2>4
<1>7. CASE characteristics_preprocessed
  <2>1. phase = "preprocess" /\ StartPhase("compile", running \cap Shaders)
    BY <1>7 DEF characteristics_preprocessed, Reached, Needed
  <2>2. Busy' = running \cap Shaders
    BY <1>5, <2>1
  <2>3. \A c \in Characteristics \ (running \cap Shaders) : Ready(c)
    BY <1>2, <2>1 DEF Filled
  <2>4. Filled' /\ Known'
    BY <1>1, <1>3, <2>1, <2>2, <2>3 DEF Filled, Known, StartPhase
  <2> QED
    BY <1>4, <2>4
<1>8. CASE characteristics_compiled
  <2>1. phase = "compile" /\ pc' = "descriptor_sets" /\ phase' = phase
    BY <1>8 DEF characteristics_compiled, Reached
  <2>2. \A c \in Characteristics : Ready(c)
    BY <1>2, <2>1 DEF Filled
  <2>3. Filled' /\ Known'
    BY <1>1, <1>3, <2>1, <2>2 DEF Filled, Known
  <2> QED
    BY <1>4, <2>3
<1> QED
  BY <1>6, <1>7, <1>8

(* The factory merges the parts: each of them is the one for its value. *)
LEMMA CreateParts == ASSUME IInv, Parts, create_pipeline PROVE Parts'
<1> USE DEF Parts
<1>1. /\ UNCHANGED <<phase, running, completed, counter, loop, at, signals, data, m_fill_index>>
      /\ pc = "descriptor_sets" /\ pc' = "wait_for_updates"
      /\ cache' = [c \in Characteristics |-> Merged(c)]
  BY DEF create_pipeline, task_vars
<1>2. \A c \in Characteristics :
        /\ cache[c] \in Seq(Int) /\ data[c] \in Int /\ End[c] \in Nat
        /\ Len(cache[c]) \in Nat /\ Slot(c) \in Nat /\ Slot(c) <= Len(cache[c])
        /\ Ready(c)
  <2> SUFFICES ASSUME NEW c \in Characteristics
               PROVE  /\ cache[c] \in Seq(Int) /\ data[c] \in Int /\ End[c] \in Nat
                      /\ Len(cache[c]) \in Nat /\ Slot(c) \in Nat /\ Slot(c) <= Len(cache[c])
                      /\ Ready(c)
    OBVIOUS
  <2>1. cache[c] \in Seq(Int) /\ data[c] \in Int
    BY DEF IInv, TypeOK
  <2>2. Slot(c) = counter[c] /\ counter[c] \in Nat /\ counter[c] <= Len(cache[c])
    <3>1. loop = N /\ InPipeline
      BY <1>1 DEF InPipeline, IInv, Loops
    <3> QED
      BY <1>1, <3>1, SlotIsCounter DEF IInv, Loops
  <2>3. Ready(c)
    BY <1>1 DEF Filled
  <2> QED
    BY <2>1, <2>2, <2>3
<1>3. ASSUME NEW c \in Characteristics
      PROVE  /\ Len(Merged(c)) \in Nat /\ Len(cache[c]) <= Len(Merged(c))
             /\ \A i \in 1..Len(Merged(c)) : Merged(c)[i] = i - 1
  <2>1. \A i \in 1..Len(cache[c]) : cache[c][i] = i - 1
    BY DEF IndexedCache
  <2>2. CASE Slot(c) < Len(cache[c])
    BY <1>2, <2>1, <2>2 DEF Merged
  <2>3. CASE ~(Slot(c) < Len(cache[c]))
    <3>1. Merged(c) = Append(cache[c], data[c])
      BY <2>3 DEF Merged
    <3>2. data[c] = Len(cache[c])
      BY <1>2, <2>3 DEF Ready, InCache
    <3>3. Len(Merged(c)) = Len(cache[c]) + 1 /\ Merged(c)[Len(cache[c]) + 1] = data[c]
          /\ \A i \in 1..Len(cache[c]) : Merged(c)[i] = cache[c][i]
      BY <1>2, <3>1, AppendProperties
    <3>4. \A i \in 1..(Len(cache[c]) + 1) : i \in 1..Len(cache[c]) \/ i = Len(cache[c]) + 1
      BY <1>2
    <3>5. \A i \in 1..(Len(cache[c]) + 1) : Merged(c)[i] = i - 1
      <4> SUFFICES ASSUME NEW i \in 1..(Len(cache[c]) + 1) PROVE Merged(c)[i] = i - 1
        OBVIOUS
      <4>1. CASE i \in 1..Len(cache[c])
        BY <2>1, <3>3, <4>1
      <4>2. CASE i = Len(cache[c]) + 1
        <5>1. Merged(c)[i] = Len(cache[c]) /\ Len(cache[c]) \in Nat
          BY <1>2, <3>2, <3>3, <4>2
        <5> QED
          BY <4>2, <5>1
      <4> QED
        BY <3>4, <4>1, <4>2
    <3>6. Len(cache[c]) \in Nat
      BY <1>2
    <3> QED
      BY <3>3, <3>5, <3>6
  <2> QED
    BY <2>2, <2>3
<1>4. \A c \in Characteristics : cache'[c] = Merged(c)
  BY <1>1
<1>5. IndexedCache'
  <2> SUFFICES ASSUME NEW c \in Characteristics, NEW i \in 1..Len(cache'[c]) PROVE cache'[c][i] = i - 1
    BY DEF IndexedCache
  <2>1. cache'[c] = Merged(c) /\ \A j \in 1..Len(Merged(c)) : Merged(c)[j] = j - 1
    BY <1>3, <1>4
  <2> QED
    BY <2>1
<1>6. Known'
  <2>1. \A c \in completed : End[c] <= Len(cache'[c])
    <3> SUFFICES ASSUME NEW c \in completed PROVE End[c] <= Len(cache'[c])
      OBVIOUS
    <3>1. c \in Characteristics /\ End[c] <= Len(cache[c])
      BY DEF IInv, TypeOK, Known
    <3>2. End[c] \in Nat /\ Len(cache[c]) \in Nat
      BY <1>2, <3>1
    <3>3. Len(Merged(c)) \in Nat /\ Len(cache[c]) <= Len(Merged(c)) /\ cache'[c] = Merged(c)
      BY <1>3, <1>4, <3>1
    <3> HIDE DEF Merged
    <3> QED
      BY <3>1, <3>2, <3>3, SMTT(20)
  <2> QED
    BY <1>1, <2>1 DEF Known
<1>7. Kinds' /\ Filled'
  BY <1>1 DEF Kinds, Filled
<1> QED
  BY <1>5, <1>6, <1>7

(* The loops. *)
LEMMA LoopParts ==
  ASSUME IInv, Parts, start_next_loop \/ move_new_pipeline \/ end_of_loop
  PROVE  Parts'
<1> USE DEF Parts
<1>1. /\ UNCHANGED <<phase, running, cache, at, signals, data, m_fill_index>>
      /\ pc' = "multiloop"
  BY DEF start_next_loop, move_new_pipeline, end_of_loop, Entered, InLoop, task_vars
<1>2. IndexedCache' /\ Kinds' /\ Filled'
  BY <1>1 DEF IndexedCache, Kinds, Filled
<1>3. \A c \in completed' : End[c] <= Len(cache[c])
  <2>1. CASE start_next_loop \/ move_new_pipeline
    <3>1. completed' = completed
      BY <2>1 DEF start_next_loop, move_new_pipeline
    <3> QED
      BY <3>1 DEF Known
  <2>2. CASE end_of_loop
    <3>1. completed' \subseteq completed \cup {loop} /\ loop \in 1..N /\ counter[loop] >= End[loop] /\ pc = "multiloop"
      BY <2>2 DEF end_of_loop, InLoop, IInv, TypeOK
    <3>2. counter[loop] <= Len(cache[loop]) /\ counter[loop] \in Nat /\ End[loop] \in Nat /\ cache[loop] \in Seq(Int)
      BY <3>1 DEF IInv, TypeOK, Loops
    <3>3. End[loop] <= Len(cache[loop])
      BY <3>1, <3>2
    <3> QED
      BY <3>1, <3>3 DEF Known
  <2> QED
    BY <2>1, <2>2
<1>4. \A c \in Ranges : m_fill_index[c] # -1 => m_fill_index[c] < Len(cache[c])
  <2>1. CASE start_next_loop \/ end_of_loop
    BY <2>1 DEF start_next_loop, end_of_loop, Entered, InLoop, Known
  <2>2. CASE move_new_pipeline
    BY <2>2 DEF move_new_pipeline, IInv, Loops, InPipeline
  <2> QED
    BY <2>1, <2>2
<1>5. Known'
  BY <1>1, <1>3, <1>4 DEF Known
<1> QED
  BY <1>2, <1>5

(* The other steps of the factory. *)
LEMMA OtherParts ==
  ASSUME IInv, Parts,
         \/ initialized \/ signal_task \/ characteristics_initialized \/ update_descriptor_set
         \/ wait_for_set_layout_binding_lock \/ obtained_set_layout_binding_lock
         \/ combined_image_sampler_updated \/ done \/ abort \/ UNCHANGED vars
  PROVE  Parts'
<1> USE DEF Parts
<1>1. UNCHANGED <<running, completed, counter, loop, cache, data, m_fill_index>>
  BY DEF initialized, signal_task, characteristics_initialized, update_descriptor_set, wait_for_set_layout_binding_lock,
     obtained_set_layout_binding_lock, combined_image_sampler_updated, done, abort, finish_impl, vars, task_vars, factory_vars
<1>2. \A c \in Characteristics : Ready(c)' = Ready(c)
  BY <1>1, ReadyUnchanged
<1>3. IndexedCache' /\ \A c \in completed' : End[c] <= Len(cache'[c])
  BY <1>1 DEF IndexedCache, Known
<1>4. CASE signal_task
  <2> DEFINE c == First(to_signal)
  <2>1. /\ phase' = phase /\ Busy' = Busy /\ pc = "signal" /\ pc' \in {"signal", "wait"}
        /\ IF phase = "initialize" THEN at' = [at EXCEPT ![c] = "initialize"] ELSE at' = at
    BY <1>4, SignalStep DEF signal_task
  <2>2. at \in [Characteristics -> {"new", "initialize", "fill", "preprocess", "compile", "realize_shaders", "done"}]
    BY DEF IInv, TypeOK
  <2> HIDE DEF c
  <2>3. Kinds'
    BY <1>1, <2>1, <2>2 DEF Kinds
  <2>4. Filled' /\ Known'
    BY <1>1, <1>2, <1>3, <2>1 DEF Filled, Known
  <2> QED
    BY <1>3, <2>3, <2>4
<1>5. CASE ~signal_task
  <2>1. at' = at /\ signals' = signals
    BY <1>5 DEF initialized, characteristics_initialized, update_descriptor_set, wait_for_set_layout_binding_lock,
       obtained_set_layout_binding_lock, combined_image_sampler_updated, done, abort, finish_impl, vars, task_vars
  <2>2. Kinds'
    BY <1>1, <2>1 DEF Kinds
  <2>3. CASE initialized \/ characteristics_initialized
    <3>1. \/ pc = "initialized" /\ pc' = "signal" /\ phase' = "initialize"
          \/ pc \in {"signal", "wait"} /\ phase = "initialize" /\ pc' = "multiloop"
      BY <2>3 DEF initialized, StartPhase, characteristics_initialized, Reached
    <3> QED
      BY <1>1, <1>3, <2>2, <3>1 DEF Filled, Known
  <2>4. CASE update_descriptor_set \/ wait_for_set_layout_binding_lock \/ obtained_set_layout_binding_lock
    <3>1. pc \in {"descriptor_sets", "wait_for_lock"} /\ pc' \in {"descriptor_sets", "wait_for_lock"}
      BY <2>4 DEF update_descriptor_set, wait_for_set_layout_binding_lock, obtained_set_layout_binding_lock
    <3> QED
      BY <1>1, <1>2, <1>3, <2>2, <3>1 DEF Filled, Known
  <2>5. CASE combined_image_sampler_updated \/ UNCHANGED vars
    <3>1. pc' = pc /\ phase' = phase /\ Busy' = Busy
      BY <2>1, <2>5 DEF combined_image_sampler_updated, factory_vars, vars, Busy
    <3> QED
      BY <1>1, <1>2, <1>3, <2>2, <3>1 DEF Filled, Known
  <2>6. CASE done \/ abort
    <3>1. pc' \in {"done", "aborted"}
      BY <2>6 DEF done, abort
    <3> QED
      BY <1>1, <1>3, <2>2, <3>1 DEF Filled, Known
  <2> QED
    BY <1>5, <2>3, <2>4, <2>5, <2>6
<1> QED
  BY <1>4, <1>5

LEMMA NextParts ==
  ASSUME IInv, Parts, [Next]_vars
  PROVE  Parts'
<1>1. CASE \E c \in Characteristics : Characteristic(c)
  BY <1>1, TaskParts
<1> QED
  BY <1>1, BeginParts, PhaseParts, CreateParts, LoopParts, OtherParts DEF Next, Factory

--------------------------------------------------------------------------------
(* The pipelines that were created, and the sequence that they refine. *)
PartsOf(p) == [i \in 1..Len(p) |-> p[i].parts]
Sequence == PartsOf(pipelines)

LEMMA IsSequence ==
  ASSUME NEW S, NEW p \in Seq(S)
  PROVE  LET s == PartsOf(p) IN
         /\ Len(p) \in Nat /\ Len(s) = Len(p) /\ s \in Seq(PartsIn(p))
         /\ \A i \in 1..Len(p) : s[i] = p[i].parts
<1> DEFINE s == PartsOf(p)
           T == PartsIn(p)
<1>1. Len(p) \in Nat
  BY LenProperties
<1>2. s \in [1..Len(p) -> T]
  BY DEF PartsOf, PartsIn
<1>3. \A i \in 1..Len(p) : s[i] = p[i].parts
  BY DEF PartsOf
<1> HIDE DEF s, T
<1>4. s \in Seq(T)
  BY <1>1, <1>2, SeqDef
<1>5. DOMAIN s = 1..Len(s) /\ Len(s) \in Nat /\ DOMAIN s = 1..Len(p)
  BY <1>2, <1>4, LenProperties
<1>6. Len(s) = Len(p)
  BY <1>1, <1>5
<1> QED
  BY <1>1, <1>3, <1>4, <1>6 DEF s, T

(* A step that makes no pipeline and leaves the loops alone. *)
LEMMA MadeUnchanged ==
  ASSUME Made, UNCHANGED <<pipelines, counter, loop>>, pc' = "done" => pc = "done" \/ loop = 0
  PROVE  Made' /\ Sequence' = Sequence
BY DEF Made, Created, PartsIn, Sequence, PartsOf

(* The pipeline that is handed over has the parts of the current values. *)
LEMMA PartsOfCounter ==
  ASSUME IInv, IndexedCache, pc = "wait_for_updates"
  PROVE  /\ [c \in Characteristics |-> cache[c][Slot(c) + 1]] = counter
         /\ counter \in [1..N -> Nat] /\ counter \in Combinations
<1>1. InPipeline /\ \A c \in Characteristics : counter[c] < Len(cache[c]) /\ cache[c] \in Seq(Int)
  BY DEF InPipeline, IInv, Loops, TypeOK
<1>2. counter \in [1..N -> Nat]
  BY DEF IInv, TypeOK
<1>3. \A c \in Characteristics : cache[c][Slot(c) + 1] = counter[c]
  <2> SUFFICES ASSUME NEW c \in Characteristics PROVE cache[c][Slot(c) + 1] = counter[c]
    OBVIOUS
  <2>1. Slot(c) = counter[c] /\ counter[c] \in Nat
    BY <1>1, SlotIsCounter
  <2>2. counter[c] + 1 \in 1..Len(cache[c])
    BY <1>1, <2>1
  <2>3. cache[c][counter[c] + 1] = (counter[c] + 1) - 1
    BY <2>2 DEF IndexedCache
  <2> QED
    BY <2>1, <2>3
<1>4. counter \in Combinations
  BY <1>1, <1>2, SlotIsCounter, IsCombination
<1> QED
  BY <1>2, <1>3, <1>4

LEMMA StillMissing ==
  ASSUME Made
  PROVE  EveryCombination!Missing = Combinations \ Created
<1>1. PICK S : pipelines \in Seq(S)
  BY DEF Made
<1>2. Len(Sequence) = Len(pipelines) /\ \A i \in 1..Len(pipelines) : Sequence[i] = pipelines[i].parts
  BY <1>1, IsSequence DEF Sequence
<1>3. {Sequence[i] : i \in 1..Len(Sequence)} = Created
  BY <1>2 DEF Created, PartsIn
<1> QED
  BY <1>3 DEF EveryCombination!Missing, Combinations, Sequence, PartsOf

(* Handing over a pipeline is a step of PipelineSequence. *)
LEMMA MoveCreates ==
  ASSUME IInv, IndexedCache, Made, move_new_pipeline
  PROVE  Made' /\ EveryCombination!Create
<1> DEFINE new == [index |-> pipeline_index, parts |-> [c \in Characteristics |-> cache[c][Slot(c) + 1]]]
<1>1. /\ pc = "wait_for_updates" /\ pc' = "multiloop" /\ loop' = loop /\ loop = N
      /\ counter' = [counter EXCEPT ![N] = @ + 1] /\ pipelines' = Append(pipelines, new)
  BY DEF move_new_pipeline, IInv, Loops, InPipeline
<1>2. new.parts = counter /\ counter \in [1..N -> Nat] /\ counter \in Combinations
  BY <1>1, PartsOfCounter
<1> HIDE DEF new
<1>3. PICK S : pipelines \in Seq(S)
  BY DEF Made
<1>4. /\ pipelines \in Seq(S \cup {new}) /\ pipelines' \in Seq(S \cup {new})
      /\ Len(pipelines') = Len(pipelines) + 1 /\ Len(pipelines) \in Nat
      /\ \A i \in 1..Len(pipelines) : pipelines'[i] = pipelines[i]
      /\ pipelines'[Len(pipelines) + 1] = new
  <2>1. pipelines \in Seq(S \cup {new})
    BY <1>3, SeqMonotonic
  <2> QED
    BY <1>1, <2>1, AppendProperties, LenProperties
<1>5. Created' = Created \cup {counter}
  <2>1. \A i \in 1..Len(pipelines') : i \in 1..Len(pipelines) \/ i = Len(pipelines) + 1
    BY <1>4
  <2>2. Len(pipelines) + 1 \in 1..Len(pipelines') /\ \A i \in 1..Len(pipelines) : i \in 1..Len(pipelines')
    BY <1>4
  <2>3. Created' = {pipelines'[i].parts : i \in 1..Len(pipelines')}
    BY DEF Created, PartsIn
  <2> QED
    BY <1>2, <1>4, <2>1, <2>2, <2>3 DEF Created, PartsIn
<1>6. Created = {k \in Combinations : Behind(k, counter, N)}
  <2>1. N > 0
    OBVIOUS
  <2> QED
    BY <1>1, <2>1 DEF Made
<1>7. \A k \in Combinations : Behind(k, counter', N) <=> Behind(k, counter, N) \/ k = counter
  <2>1. counter' \in [1..N -> Nat] /\ counter'[N] = counter[N] + 1 /\ \A d \in 1..(N - 1) : counter'[d] = counter[d]
    BY <1>1, <1>2
  <2> QED
    BY <1>2, <2>1, BehindMove
<1>8. Made'
  <2>1. Created' = {k \in Combinations : Behind(k, counter', N)}
    BY <1>2, <1>5, <1>6, <1>7
  <2>2. N > 0
    OBVIOUS
  <2> QED
    BY <1>1, <1>4, <2>1, <2>2 DEF Made
<1>9. Sequence' = Append(Sequence, counter)
  <2> DEFINE T == Created \cup {counter}
             s == Sequence
             t == Sequence'
  <2>1. Len(s) = Len(pipelines) /\ s \in Seq(Created) /\ \A i \in 1..Len(pipelines) : s[i] = pipelines[i].parts
    BY <1>3, IsSequence DEF Sequence, Created
  <2>2. t = PartsOf(pipelines') /\ Created' = PartsIn(pipelines')
    BY DEF Sequence, Created
  <2>3. Len(t) = Len(pipelines') /\ t \in Seq(T) /\ \A i \in 1..Len(pipelines') : t[i] = pipelines'[i].parts
    BY <1>4, <1>5, <2>2, IsSequence
  <2> HIDE DEF T, s, t
  <2>4. s \in Seq(T)
    BY <2>1, SeqMonotonic DEF T
  <2>5. counter \in T
    BY DEF T
  <2>6. /\ Append(s, counter) \in Seq(T) /\ Len(Append(s, counter)) = Len(s) + 1
        /\ \A i \in 1..Len(s) : Append(s, counter)[i] = s[i]
        /\ Append(s, counter)[Len(s) + 1] = counter
    BY <2>4, <2>5, AppendProperties
  <2>7. \A i \in 1..Len(t) : t[i] = Append(s, counter)[i]
    <3> SUFFICES ASSUME NEW i \in 1..Len(t) PROVE t[i] = Append(s, counter)[i]
      OBVIOUS
    <3>1. i \in 1..Len(pipelines') /\ (i \in 1..Len(pipelines) \/ i = Len(pipelines) + 1)
      BY <1>4, <2>3
    <3>2. t[i] = pipelines'[i].parts
      BY <2>3, <3>1
    <3>3. CASE i \in 1..Len(pipelines)
      BY <1>4, <2>1, <2>6, <3>2, <3>3
    <3>4. CASE i = Len(pipelines) + 1
      BY <1>2, <1>4, <2>1, <2>6, <3>2, <3>4
    <3> QED
      BY <3>1, <3>3, <3>4
  <2>8. Len(t) = Len(Append(s, counter))
    BY <1>4, <2>1, <2>3, <2>6
  <2> QED
    BY <2>3, <2>6, <2>7, <2>8, SeqEqual DEF s, t
<1>10. EveryCombination!Missing = Combinations \ Created
  BY StillMissing
<1>11. counter \in EveryCombination!Missing
  <2>1. ~Behind(counter, counter, N)
    BY <1>2 DEF Behind
  <2> QED
    BY <1>2, <1>6, <1>10, <2>1
<1>12. \A l \in EveryCombination!Missing \ {counter} : EveryCombination!Precedes(counter, l)
  BY <1>2, <1>6, <1>10, NotBehind
<1> QED
  BY <1>8, <1>9, <1>11, <1>12 DEF EveryCombination!Create, Sequence, PartsOf

(* The loops that start and end make no pipeline, and go on where they were. *)
LEMMA LoopMade ==
  ASSUME IInv, Made, start_next_loop \/ end_of_loop
  PROVE  Made' /\ Sequence' = Sequence
<1>1. pipelines' = pipelines /\ pc' # "done" /\ Created' = Created /\ Sequence' = Sequence
  <2>1. pipelines' = pipelines /\ pc' = pc /\ pc = "multiloop"
    BY DEF start_next_loop, end_of_loop, Entered, InLoop
  <2> QED
    BY <2>1 DEF Created, Sequence
<1>2. counter \in [1..N -> Nat] /\ loop \in 1..N
  <2>1. loop > 0
    BY DEF start_next_loop, end_of_loop, Entered, InLoop
  <2>2. counter \in [1..N -> Nat] /\ loop \in 0..N
    BY DEF IInv, TypeOK
  <2> QED
    BY <2>1, <2>2
<1>3. Created = {k \in Combinations : Behind(k, counter, loop)} /\ loop # 0
  BY <1>2 DEF Made
<1>4. CASE start_next_loop
  <2>1. loop \in 1..(N - 1) /\ loop' = loop + 1 /\ counter' = [counter EXCEPT ![loop + 1] = 0]
    BY <1>2, <1>4 DEF start_next_loop
  <2>2. counter' \in [1..N -> Nat] /\ counter'[loop + 1] = 0 /\ \A d \in 1..loop : counter'[d] = counter[d]
    BY <1>2, <2>1
  <2>3. \A k \in Combinations : Behind(k, counter', loop + 1) <=> Behind(k, counter, loop)
    BY <1>2, <2>1, <2>2, BehindStart
  <2>4. loop + 1 # 0
    BY <1>2
  <2> QED
    BY <1>1, <1>3, <2>1, <2>3, <2>4 DEF Made
<1>5. CASE end_of_loop /\ loop > 1
  <2>1. loop \in 2..N /\ loop' = loop - 1 /\ End[loop] <= counter[loop]
        /\ counter' = [counter EXCEPT ![loop - 1] = @ + 1]
    <3>1. End[loop] \in Nat /\ counter[loop] \in Nat /\ counter[loop] >= End[loop]
      BY <1>2, <1>5 DEF end_of_loop
    <3> QED
      BY <1>2, <1>5, <3>1 DEF end_of_loop
  <2>2. /\ counter' \in [1..N -> Nat] /\ counter'[loop - 1] = counter[loop - 1] + 1
        /\ \A d \in 1..(loop - 2) : counter'[d] = counter[d]
    <3>1. loop - 1 \in 1..N /\ \A d \in 1..(loop - 2) : d \in 1..N /\ d # loop - 1
      BY <1>2, <2>1
    <3> QED
      BY <1>2, <2>1, <3>1
  <2>3. \A k \in Combinations : Behind(k, counter', loop - 1) <=> Behind(k, counter, loop)
    BY <1>2, <2>1, <2>2, BehindEnd
  <2>4. loop - 1 # 0
    BY <2>1
  <2> QED
    BY <1>1, <1>3, <2>1, <2>3, <2>4 DEF Made
<1>6. CASE end_of_loop /\ loop = 1
  <2>1. \A k \in Combinations : Behind(k, counter, 1)
    <3> SUFFICES ASSUME NEW k \in Combinations PROVE k[1] < counter[1]
      BY DEF Behind
    <3>1. k[1] \in Nat /\ k[1] < End[1] /\ End[1] \in Nat /\ counter[1] \in Nat
      BY <1>2, CombinationType
    <3>2. counter[1] >= End[1]
      BY <1>6 DEF end_of_loop
    <3> QED
      BY <3>1, <3>2
  <2>2. loop' = 0
    BY <1>6 DEF end_of_loop
  <2> QED
    BY <1>1, <1>3, <1>6, <2>1, <2>2 DEF Made
<1> QED
  BY <1>2, <1>4, <1>5, <1>6

SInv == IInv /\ Parts /\ Made

LEMMA InitSInv == Init => SInv /\ Sequence = <<>>
<1> SUFFICES ASSUME Init PROVE SInv /\ Sequence = <<>>
  OBVIOUS
<1>1. IInv
  BY InitIInv
<1>2. Parts
  BY DEF Init, Parts, IndexedCache, Known, Kinds, Filled
<1>3. pipelines = <<>> /\ loop = 1 /\ counter = [c \in Characteristics |-> 0] /\ pc = "initialized"
  BY DEF Init
<1>4. pipelines \in Seq({}) /\ Len(pipelines) = 0
  BY <1>3, EmptySeq
<1>5. Created = {} /\ Sequence \in Seq(Created) /\ Len(Sequence) = 0
  <2>1. Created = {}
    BY <1>4 DEF Created, PartsIn
  <2>2. Len(PartsOf(pipelines)) = Len(pipelines) /\ PartsOf(pipelines) \in Seq(PartsIn(pipelines))
    BY <1>4, IsSequence
  <2> QED
    BY <1>4, <2>1, <2>2 DEF Created, Sequence
<1>6. \A k \in Combinations : ~Behind(k, counter, loop)
  <2> SUFFICES ASSUME NEW k \in Combinations PROVE ~Behind(k, counter, loop)
    OBVIOUS
  <2>1. k \in [1..N -> Nat]
    BY CombinationType
  <2> QED
    BY <1>3, <2>1 DEF Behind
<1>7. Made
  BY <1>3, <1>4, <1>5, <1>6 DEF Made
<1>8. Sequence = <<>>
  BY <1>5, EmptySeq
<1> QED
  BY <1>1, <1>2, <1>7, <1>8 DEF SInv

LEMMA NextSInv ==
  ASSUME SInv, [Next]_vars
  PROVE  SInv' /\ (EveryCombination!Create \/ Sequence' = Sequence)
<1> USE DEF SInv
<1>1. IInv'
  BY NextIInv
<1>2. Parts'
  BY NextParts
<1>3. CASE move_new_pipeline
  BY <1>1, <1>2, <1>3, MoveCreates DEF Parts
<1>4. CASE start_next_loop \/ end_of_loop
  BY <1>1, <1>2, <1>4, LoopMade
<1>5. CASE ~(move_new_pipeline \/ start_next_loop \/ end_of_loop)
  <2>1. UNCHANGED <<pipelines, counter, loop>>
    <3>1. CASE \E c \in Characteristics : Characteristic(c)
      BY <3>1 DEF Characteristic, initialize, fill, preprocess, start_realize_shaders, realize_shaders, terminate_task,
         factory_vars
    <3>2. CASE combined_image_sampler_updated \/ abort \/ UNCHANGED vars
      BY <3>2 DEF combined_image_sampler_updated, abort, finish_impl, vars, factory_vars
    <3>3. CASE Factory
      BY <1>5, <3>3 DEF Factory, initialized, signal_task, characteristics_initialized, begin_pipeline, characteristics_filled,
         characteristics_preprocessed, characteristics_compiled, update_descriptor_set, wait_for_set_layout_binding_lock,
         obtained_set_layout_binding_lock, create_pipeline, done, finish_impl
    <3> QED
      BY <3>1, <3>2, <3>3 DEF Next
  <2>2. pc' = "done" => pc = "done" \/ loop = 0
    <3>1. CASE \E c \in Characteristics : Characteristic(c)
      BY <3>1 DEF Characteristic, initialize, fill, preprocess, start_realize_shaders, realize_shaders, terminate_task,
         factory_vars
    <3>2. CASE combined_image_sampler_updated \/ abort \/ UNCHANGED vars
      BY <3>2 DEF combined_image_sampler_updated, abort, vars, factory_vars
    <3>3. CASE Factory
      BY <1>5, <3>3 DEF Factory, initialized, signal_task, characteristics_initialized, begin_pipeline, characteristics_filled,
         characteristics_preprocessed, characteristics_compiled, update_descriptor_set, wait_for_set_layout_binding_lock,
         obtained_set_layout_binding_lock, create_pipeline, done, StartPhase
    <3> QED
      BY <3>1, <3>2, <3>3 DEF Next
  <2> QED
    BY <1>1, <1>2, <2>1, <2>2, MadeUnchanged
<1> QED
  BY <1>3, <1>4, <1>5

(* The factory implements PipelineSequence: for any number of characteristics with any
   number of values, every pipeline that PipelineFactory::multiplex_impl hands over is
   the next combination in the order of the MultiLoop, made of the parts of exactly its
   own values, and no combination is made twice or passed over. *)
THEOREM CreatesInSequence == Spec => ImplementsSequence
<1>1. Init => SInv /\ [i \in 1..Len(pipelines) |-> pipelines[i].parts] = <<>>
  BY InitSInv DEF Sequence, PartsOf
<1>2. SInv /\ [Next]_vars => SInv' /\ [EveryCombination!Create]_([i \in 1..Len(pipelines) |-> pipelines[i].parts])
  BY NextSInv DEF Sequence, PartsOf
<1> QED
  BY <1>1, <1>2, PTL DEF Spec, ImplementsSequence, EveryCombination!Spec

(* A factory that reaches the end of PipelineFactory_done made all combinations. *)
THEOREM DoneIsComplete == Spec => [](pc = "done" => EveryCombination!Missing = {})
<1>1. SInv => (pc = "done" => EveryCombination!Missing = {})
  BY StillMissing DEF SInv, Made
<1>2. Init => SInv
  BY InitSInv
<1>3. SInv /\ [Next]_vars => SInv'
  BY NextSInv
<1> QED
  BY <1>1, <1>2, <1>3, PTL DEF Spec

--------------------------------------------------------------------------------

(***************************************************************************)
(* The updater.                                                            *)
(***************************************************************************)

HIDE PipelineFactoryAssumption DEF Characteristics

(* A set of numbers has a smallest one. *)
LEMMA SmallestNumber ==
  ASSUME NEW W \in SUBSET Nat, W # {}
  PROVE  \E x \in W : \A y \in W : x <= y
<1> DEFINE R == OpToRel(<, Nat)
<1>1. IsWellFoundedOn(R, Nat)
  BY NatLessThanWellFounded DEF OpToRel
<1>2. \A x, y \in Nat : x < y => <<x, y>> \in R
  BY DEF OpToRel
<1> HIDE DEF R
<1>3. PICK x \in W : \A y \in W : ~(<<y, x>> \in R)
  BY <1>1, WFMin
<1>4. \A y \in W : ~(y < x) /\ x \in Nat /\ y \in Nat
  BY <1>2, <1>3
<1>5. \A y \in W : x <= y
  BY <1>4
<1> QED
  BY <1>5

(* The searches in the vectors, and what is inserted there. *)
LEMMA FirstFromFacts ==
  ASSUME NEW A, NEW s \in Seq(A), NEW i \in 1 .. Len(s) + 1, NEW hits
  PROVE  /\ FirstFrom(s, i, hits) \in i .. Len(s) + 1
         /\ FirstFrom(s, i, hits) <= Len(s) => FirstFrom(s, i, hits) \in hits
         /\ \A n \in i .. FirstFrom(s, i, hits) - 1 : n \notin hits
<1> DEFINE W == {j \in i .. Len(s) + 1 : j <= Len(s) => j \in hits}
<1>1. Len(s) \in Nat /\ Len(s) + 1 \in W
  OBVIOUS
<1>2. W \in SUBSET Nat /\ W # {}
  BY <1>1
<1>3. PICK j \in W : \A k \in W : j <= k
  <2> HIDE DEF W
  <2> QED
    BY <1>2, SmallestNumber
<1>4. (i .. j - 1) \cap hits = {}
  <2> SUFFICES ASSUME NEW n \in i .. j - 1, n \in hits PROVE FALSE
    OBVIOUS
  <2>1. n \in W /\ n < j
    BY <1>1, <1>3
  <2> QED
    BY <1>1, <1>3, <2>1
<1>5. \E k \in i .. Len(s) + 1 : (k <= Len(s) => k \in hits) /\ (i .. k - 1) \cap hits = {}
  BY <1>3, <1>4
<1>6. /\ FirstFrom(s, i, hits) \in i .. Len(s) + 1
      /\ FirstFrom(s, i, hits) <= Len(s) => FirstFrom(s, i, hits) \in hits
      /\ (i .. FirstFrom(s, i, hits) - 1) \cap hits = {}
  BY <1>5 DEF FirstFrom
<1> QED
  BY <1>6

LEMMA Inserted ==
  ASSUME NEW A, NEW s \in Seq(A), NEW i \in 1 .. Len(s) + 1, NEW e \in A
  PROVE  /\ InsertAt(s, i, e) \in Seq(A)
         /\ Len(InsertAt(s, i, e)) = Len(s) + 1
         /\ \A n \in 1 .. Len(s) + 1 :
              InsertAt(s, i, e)[n] = IF n < i THEN s[n] ELSE IF n = i THEN e ELSE s[n - 1]
<1>1. Len(s) \in Nat /\ i \in Nat /\ 1 <= i /\ i <= Len(s) + 1
  OBVIOUS
<1>2. /\ SubSeq(s, 1, i - 1) \in Seq(A) /\ Len(SubSeq(s, 1, i - 1)) = i - 1
      /\ \A n \in 1 .. i - 1 : SubSeq(s, 1, i - 1)[n] = s[n]
  BY <1>1
<1>3. /\ SubSeq(s, i, Len(s)) \in Seq(A) /\ Len(SubSeq(s, i, Len(s))) = Len(s) - i + 1
      /\ \A n \in 1 .. Len(s) - i + 1 : SubSeq(s, i, Len(s))[n] = s[i + n - 1]
  BY <1>1
<1>4. <<e>> \in Seq(A) /\ Len(<<e>>) = 1 /\ <<e>>[1] = e
  OBVIOUS
<1> DEFINE l == SubSeq(s, 1, i - 1)
           r == SubSeq(s, i, Len(s))
           m == l \o <<e>>
<1>5. InsertAt(s, i, e) = m \o r
  BY DEF InsertAt
<1> HIDE DEF l, r
<1>6. m \in Seq(A) /\ Len(m) = i /\ \A n \in 1 .. i : m[n] = IF n < i THEN l[n] ELSE e
  BY <1>1, <1>2, <1>4 DEF l
<1> HIDE DEF m
<1>7. m \o r \in Seq(A) /\ Len(m \o r) = Len(s) + 1
  BY <1>1, <1>3, <1>6 DEF r
<1>8. ASSUME NEW n \in 1 .. Len(s) + 1
      PROVE  (m \o r)[n] = IF n < i THEN s[n] ELSE IF n = i THEN e ELSE s[n - 1]
  <2>1. CASE n <= i
    <3>1. (m \o r)[n] = m[n]
      BY <1>1, <1>3, <1>6, <2>1 DEF r
    <3> QED
      BY <1>1, <1>2, <1>6, <2>1, <3>1 DEF l
  <2>2. CASE n > i
    <3>1. (m \o r)[n] = r[n - i]
      BY <1>1, <1>3, <1>6, <2>2 DEF r
    <3>2. n - i \in 1 .. Len(s) - i + 1
      BY <1>1, <2>2
    <3>3. r[n - i] = s[i + (n - i) - 1]
      BY <1>3, <3>2 DEF r
    <3>4. i + (n - i) - 1 = n - 1
      BY <1>1
    <3> QED
      BY <1>1, <2>2, <3>1, <3>3, <3>4
  <2>3. n <= i \/ n > i
    BY <1>1
  <2> QED
    BY <2>1, <2>2, <2>3
<1> QED
  BY <1>5, <1>7, <1>8
--------------------------------------------------------------------------------

(* Keys. *)

Keys == [id : Int, begin : Nat, end : Nat]

LEMMA RequestKey ==
  ASSUME NEW u \in Requests
  PROVE  /\ FactoryCharacteristicKey(u) = [id |-> u.id, begin |-> u.begin, end |-> u.end]
         /\ FactoryCharacteristicKey(u) \in Keys
         /\ u.id \in Int /\ u.begin \in Nat /\ u.end \in Nat /\ u.begin < u.end
<1>1. ~IsDescriptor(u) /\ u.id \in Int /\ u.begin \in Nat /\ u.end \in Nat /\ u.begin < u.end
  BY UpdaterAssumption DEF IsDescriptor
<1> QED
  BY <1>1 DEF FactoryCharacteristicKey, Keys

LEMMA DescriptorKey ==
  ASSUME NEW d \in Descriptors
  PROVE  /\ FactoryCharacteristicKey(d) \in Keys
         /\ FactoryCharacteristicKey(d).id = d.id
         /\ FactoryCharacteristicKey(d).begin = IF d.fill_index = -1 THEN 0 ELSE d.fill_index
         /\ FactoryCharacteristicKey(d).begin < FactoryCharacteristicKey(d).end
         /\ d.id \in Int /\ d.fill_index \in Nat \cup {-1}
<1>1. IsDescriptor(d) /\ d.id \in Int /\ d.fill_index \in Nat \cup {-1} /\ d.size \in Nat \ {0}
  BY UpdaterAssumption DEF IsDescriptor
<1> QED
  BY <1>1 DEF FactoryCharacteristicKey, Keys

LEMMA Extended ==
  ASSUME NEW k \in Keys, NEW l \in Keys
  PROVE  extend_subrange(k, l) = [id |-> k.id, begin |-> IF l.begin < k.begin THEN l.begin ELSE k.begin,
                                               end |-> IF l.end > k.end THEN l.end ELSE k.end]
<1> DEFINE first == IF l.begin < k.begin THEN l.begin ELSE k.begin
           past == IF l.end > k.end THEN l.end ELSE k.end
<1>1. extend_subrange(k, l) = [[k EXCEPT !.begin = first] EXCEPT !.end = past]
  BY DEF extend_subrange, Keys
<1> HIDE DEF first, past
<1>2. [k EXCEPT !.begin = first] = [id |-> k.id, begin |-> first, end |-> k.end]
  BY DEF Keys
<1>3. [[id |-> k.id, begin |-> first, end |-> k.end] EXCEPT !.end = past] = [id |-> k.id, begin |-> first, end |-> past]
  OBVIOUS
<1> QED
  BY <1>1, <1>2, <1>3 DEF first, past

--------------------------------------------------------------------------------

(* The vector of textures. *)

Elements == [key : Keys, texture : {u.texture : u \in Requests}]

Textures == m_factory_characteristic_key_to_texture_array_range

ElementVector(s) == s \in Seq(Elements) /\ \A n \in DOMAIN s : s[n].key.begin < s[n].key.end

\* The elements e and f, in this order, do not overlap.
Before(e, f) == e.key.id < f.key.id \/ (e.key.id = f.key.id /\ e.key.end <= f.key.begin)

Apart(s) == \A i, j \in DOMAIN s : i < j => Before(s[i], s[j])

LEMMA ElementKeys ==
  ASSUME NEW s, ElementVector(s)
  PROVE  /\ Len(s) \in Nat /\ DOMAIN s = 1 .. Len(s)
         /\ \A n \in DOMAIN s : /\ s[n] \in Elements /\ s[n].key \in Keys
                                /\ s[n].key.id \in Int /\ s[n].key.begin \in Nat /\ s[n].key.end \in Nat
                                /\ s[n].key.begin < s[n].key.end
<1>1. s \in Seq(Elements) /\ Len(s) \in Nat /\ DOMAIN s = 1 .. Len(s)
  BY DEF ElementVector
<1>2. \A n \in DOMAIN s : s[n] \in Elements /\ s[n].key.begin < s[n].key.end
  BY <1>1 DEF ElementVector
<1>3. \A e \in Elements : e.key \in Keys
  BY DEF Elements
<1>4. \A k \in Keys : k.id \in Int /\ k.begin \in Nat /\ k.end \in Nat
  BY DEF Keys
<1> QED
  BY <1>1, <1>2, <1>3, <1>4

(* Where the texture of a request goes. *)
LEMMA TextureIndexIs ==
  ASSUME ElementVector(Textures), NEW u \in Requests
  PROVE  /\ TextureIndex(u) \in 1 .. Len(Textures) + 1
         /\ Apart(Textures) =>
              /\ \A n \in 1 .. TextureIndex(u) - 1 :
                   Textures[n].key.id < u.id \/ (Textures[n].key.id = u.id /\ Textures[n].key.end <= u.begin)
              /\ TextureIndex(u) <= Len(Textures) => u.id <= Textures[TextureIndex(u)].key.id
<1> DEFINE s == Textures
           key == FactoryCharacteristicKey(u)
           ids == {n \in DOMAIN s : s[n].key.id >= u.id}
           first == FirstFrom(s, 1, ids)
           hits == {n \in DOMAIN s : s[n].key.id # u.id \/ ~Less(s[n].key, key) \/ s[n].texture = u.texture}
           i == FirstFrom(s, first, hits)
<1>1. key = [id |-> u.id, begin |-> u.begin, end |-> u.end] /\ u.id \in Int
  BY RequestKey
<1>2. TextureIndex(u) = i
  BY DEF TextureIndex, Textures
<1>3. s \in Seq(Elements)
  BY DEF ElementVector
<1>4. /\ Len(s) \in Nat /\ DOMAIN s = 1 .. Len(s)
      /\ \A n \in DOMAIN s : s[n].key.id \in Int /\ s[n].key.begin \in Nat /\ s[n].key.end \in Nat
  BY ElementKeys
<1> HIDE DEF s
<1>5. /\ first \in 1 .. Len(s) + 1 /\ (first <= Len(s) => first \in ids) /\ \A n \in 1 .. first - 1 : n \notin ids
  <2> HIDE DEF ids
  <2> QED
    BY <1>3, <1>4, FirstFromFacts
<1> HIDE DEF first
<1>6. /\ i \in first .. Len(s) + 1 /\ \A n \in first .. i - 1 : n \notin hits
  <2> HIDE DEF hits
  <2> QED
    BY <1>3, <1>5, FirstFromFacts
<1> HIDE DEF i
<1>7. \A n \in DOMAIN s : Less(s[n].key, key) <=> s[n].key.end <= u.begin
  BY <1>1 DEF Less
<1>8. i \in 1 .. Len(s) + 1
  BY <1>4, <1>5, <1>6
<1>9. ASSUME NEW n \in 1 .. i - 1
      PROVE  s[n].key.id < u.id \/ (s[n].key.id = u.id /\ s[n].key.end <= u.begin)
  <2>1. n \in DOMAIN s
    BY <1>4, <1>8
  <2>2. CASE n < first
    <3>1. n \notin ids
      BY <1>5, <2>1, <2>2
    <3> QED
      BY <1>1, <1>4, <2>1, <3>1
  <2>3. CASE n >= first
    <3>1. n \notin hits
      BY <1>5, <1>6, <2>1, <2>3
    <3> QED
      BY <1>7, <2>1, <3>1
  <2> QED
    BY <1>4, <1>5, <2>1, <2>2, <2>3
<1>10. ASSUME Apart(s), i <= Len(s) PROVE u.id <= s[i].key.id
  <2>1. i \in DOMAIN s /\ first \in DOMAIN s /\ s[first].key.id >= u.id
    BY <1>4, <1>5, <1>6, <1>8, <1>10
  <2>2. first = i \/ Before(s[first], s[i])
    BY <1>4, <1>5, <1>6, <1>10, <2>1 DEF Apart
  <2> QED
    BY <1>1, <1>4, <2>1, <2>2 DEF Before
<1> QED
  BY <1>2, <1>8, <1>9, <1>10 DEF s

\* What becomes of an element that is extended, or whose texture is replaced.
Extension(e, u) == [key |-> extend_subrange(e.key, FactoryCharacteristicKey(u)), texture |-> u.texture]

LEMMA StoredIs ==
  ASSUME ElementVector(Textures), NEW u \in Requests
  PROVE  LET s == Textures
             i == TextureIndex(u)
         IN  /\ Extends(u) => i \in DOMAIN s /\ s[i].key.id = u.id /\ Stored(u) = [s EXCEPT ![i] = Extension(s[i], u)]
             /\ ~Extends(u) => /\ Stored(u) = InsertAt(s, i, [key |-> FactoryCharacteristicKey(u), texture |-> u.texture])
                               /\ i <= Len(s) /\ s[i].key.id = u.id => u.end <= s[i].key.begin
<1> DEFINE s == Textures
           key == FactoryCharacteristicKey(u)
           i == TextureIndex(u)
<1>1. /\ Len(s) \in Nat /\ DOMAIN s = 1 .. Len(s) /\ s \in Seq(Elements)
      /\ \A n \in DOMAIN s : s[n] \in Elements /\ s[n].key.begin \in Nat
  BY ElementKeys DEF ElementVector
<1>2. i \in 1 .. Len(s) + 1
  BY TextureIndexIs
<1>3. key.end = u.end /\ u.end \in Nat
  BY RequestKey
<1>4. Extends(u) <=> i <= Len(s) /\ s[i].key.id = u.id /\ (s[i].texture = u.texture \/ ~Less(key, s[i].key))
  BY DEF Extends, Textures
<1>5. Stored(u) = IF Extends(u)
                  THEN [s EXCEPT ![i].key = extend_subrange(@, key), ![i].texture = u.texture]
                  ELSE InsertAt(s, i, [key |-> key, texture |-> u.texture])
  BY DEF Stored, Textures
<1> HIDE DEF s, i, key
<1>6. ASSUME Extends(u)
      PROVE  i \in DOMAIN s /\ s[i].key.id = u.id /\ Stored(u) = [s EXCEPT ![i] = Extension(s[i], u)]
  <2> DEFINE k == extend_subrange(s[i].key, key)
             e == s[i]
             r == [s EXCEPT ![i].key = k]
  <2>1. i \in DOMAIN s /\ e \in Elements
    BY <1>1, <1>2, <1>4, <1>6
  <2>2. Stored(u) = [r EXCEPT ![i].texture = u.texture]
    BY <1>5, <1>6
  <2>3. Extension(s[i], u) = [key |-> k, texture |-> u.texture]
    BY DEF Extension, key
  <2> HIDE DEF k
  <2>4. r = [s EXCEPT ![i] = [e EXCEPT !.key = k]]
    BY <2>1
  <2> HIDE DEF e
  <2>5. [e EXCEPT !.key = k] = [key |-> k, texture |-> e.texture]
    BY <2>1 DEF Elements
  <2>6. r = [s EXCEPT ![i] = [key |-> k, texture |-> e.texture]]
    BY <2>4, <2>5
  <2> HIDE DEF r
  <2>7. [r EXCEPT ![i].texture = u.texture] = [s EXCEPT ![i] = [key |-> k, texture |-> u.texture]]
    <3> DEFINE f == [key |-> k, texture |-> e.texture]
    <3>1. [f EXCEPT !.texture = u.texture] = [key |-> k, texture |-> u.texture]
      OBVIOUS
    <3> HIDE DEF f
    <3>2. [r EXCEPT ![i].texture = u.texture] = [s EXCEPT ![i] = [f EXCEPT !.texture = u.texture]]
      BY <1>1, <2>1, <2>6 DEF f
    <3> QED
      BY <3>1, <3>2
  <2> QED
    BY <1>4, <1>6, <2>1, <2>2, <2>3, <2>7
<1>7. ASSUME ~Extends(u), i <= Len(s), s[i].key.id = u.id
      PROVE  u.end <= s[i].key.begin
  BY <1>3, <1>4, <1>7 DEF Less
<1> QED
  BY <1>5, <1>6, <1>7 DEF s, i, key

LEMMA ExtensionIs ==
  ASSUME NEW e \in Elements, e.key.begin < e.key.end, NEW u \in Requests
  PROVE  /\ Extension(e, u) \in Elements
         /\ Extension(e, u).key.id = e.key.id /\ Extension(e, u).key.begin < Extension(e, u).key.end
         /\ Extension(e, u).key.begin = (IF u.begin < e.key.begin THEN u.begin ELSE e.key.begin)
         /\ Extension(e, u).key.end = (IF u.end > e.key.end THEN u.end ELSE e.key.end)
<1>1. /\ FactoryCharacteristicKey(u) = [id |-> u.id, begin |-> u.begin, end |-> u.end]
      /\ FactoryCharacteristicKey(u) \in Keys
      /\ u.begin \in Nat /\ u.end \in Nat /\ u.begin < u.end
  BY RequestKey
<1>2. e.key \in Keys
  BY DEF Elements
<1>3. e.key.id \in Int /\ e.key.begin \in Nat /\ e.key.end \in Nat
  BY <1>2 DEF Keys
<1> DEFINE begin == IF u.begin < e.key.begin THEN u.begin ELSE e.key.begin
           end == IF u.end > e.key.end THEN u.end ELSE e.key.end
<1>4. extend_subrange(e.key, FactoryCharacteristicKey(u)) = [id |-> e.key.id, begin |-> begin, end |-> end]
  BY <1>1, <1>2, Extended
<1>5. begin \in Nat /\ end \in Nat /\ begin < end
  BY <1>1, <1>3
<1> HIDE DEF begin, end
<1>6. [id |-> e.key.id, begin |-> begin, end |-> end] \in Keys
  BY <1>3, <1>5 DEF Keys
<1>7. Extension(e, u) = [key |-> [id |-> e.key.id, begin |-> begin, end |-> end], texture |-> u.texture]
  BY <1>4 DEF Extension
<1> QED
  BY <1>5, <1>6, <1>7 DEF Elements, begin, end

(* A debug build does not go on when an extended element overlaps one of the others. *)
LEMMA ExtendedVector ==
  ASSUME ElementVector(Textures), NEW u \in Requests, Extends(u)
  PROVE  ElementVector(Stored(u)) /\ (Apart(Textures) /\ ~OverlapsNext(u) => Apart(Stored(u)))
<1> DEFINE s == Textures
           i == TextureIndex(u)
           e == Extension(s[i], u)
           t == Stored(u)
<1>1. i \in DOMAIN s /\ s[i].key.id = u.id /\ t = [s EXCEPT ![i] = e]
  BY StoredIs
<1>2. /\ Len(s) \in Nat /\ DOMAIN s = 1 .. Len(s) /\ s \in Seq(Elements)
      /\ \A n \in DOMAIN s : /\ s[n] \in Elements /\ s[n].key.id \in Int
                             /\ s[n].key.begin \in Nat /\ s[n].key.end \in Nat
                             /\ s[n].key.begin < s[n].key.end
  BY ElementKeys DEF ElementVector
<1>3. u.begin \in Nat /\ u.end \in Nat /\ u.begin < u.end /\ FactoryCharacteristicKey(u).end = u.end /\ u.id \in Int
  BY RequestKey
<1>4. /\ e \in Elements /\ e.key.id = u.id /\ e.key.begin < e.key.end
      /\ e.key.begin = (IF u.begin < s[i].key.begin THEN u.begin ELSE s[i].key.begin)
      /\ e.key.end = (IF u.end > s[i].key.end THEN u.end ELSE s[i].key.end)
  <2> HIDE DEF i, s
  <2> QED
    BY <1>1, <1>2, ExtensionIs
<1>5. Apart(s) => \A n \in 1 .. i - 1 : s[n].key.id < u.id \/ (s[n].key.id = u.id /\ s[n].key.end <= u.begin)
  BY TextureIndexIs
<1>6. OverlapsNext(u) <=> i < Len(s) /\ ~(u.end <= s[i + 1].key.begin)
  BY <1>3 DEF OverlapsNext, Less, Textures
<1> HIDE DEF s, i, e, t
<1>7. t \in Seq(Elements) /\ DOMAIN t = DOMAIN s /\ t[i] = e /\ \A n \in DOMAIN s \ {i} : t[n] = s[n]
  BY <1>1, <1>2, <1>4
<1>8. ElementVector(t)
  BY <1>2, <1>4, <1>7 DEF ElementVector
<1>9. ASSUME Apart(s), ~OverlapsNext(u) PROVE Apart(t)
  <2>1. ASSUME NEW n \in DOMAIN s, n < i PROVE Before(s[n], e)
    <3>1. n \in 1 .. i - 1 /\ Before(s[n], s[i])
      BY <1>1, <1>2, <1>9, <2>1 DEF Apart
    <3> QED
      BY <1>1, <1>2, <1>3, <1>4, <1>5, <1>9, <3>1 DEF Before
  <2>2. ASSUME NEW n \in DOMAIN s, i < n PROVE Before(e, s[n])
    <3>1. i + 1 \in DOMAIN s /\ i < Len(s) /\ i < i + 1
      BY <1>1, <1>2, <2>2
    <3>2. u.end <= s[i + 1].key.begin
      BY <1>6, <1>9, <3>1
    <3>3. Before(s[i], s[i + 1]) /\ Before(s[i], s[n])
      BY <1>1, <1>9, <2>2, <3>1 DEF Apart
    <3>4. n = i + 1 \/ Before(s[i + 1], s[n])
      BY <1>1, <1>2, <1>9, <2>2, <3>1 DEF Apart
    <3>5. CASE s[n].key.id # u.id
      BY <1>1, <1>4, <3>3, <3>5 DEF Before
    <3>6. CASE s[n].key.id = u.id
      <4>1. s[i + 1].key.id = u.id
        BY <1>1, <1>2, <1>3, <3>1, <3>3, <3>4, <3>6 DEF Before
      <4>2. u.end <= s[n].key.begin
        BY <1>2, <1>3, <3>1, <3>2, <3>4, <3>6, <4>1 DEF Before
      <4>3. s[i].key.end <= s[n].key.begin
        BY <1>1, <1>2, <3>3, <3>6 DEF Before
      <4> QED
        BY <1>4, <3>6, <4>2, <4>3 DEF Before
    <3> QED
      BY <3>5, <3>6
  <2> SUFFICES ASSUME NEW n \in DOMAIN t, NEW m \in DOMAIN t, n < m PROVE Before(t[n], t[m])
    BY DEF Apart
  <2>3. n # m /\ n \in DOMAIN s /\ m \in DOMAIN s
    BY <1>2, <1>7
  <2>4. CASE n = i
    BY <1>7, <2>2, <2>3, <2>4
  <2>5. CASE m = i
    BY <1>7, <2>1, <2>3, <2>5
  <2>6. CASE n # i /\ m # i
    BY <1>7, <1>9, <2>3, <2>6 DEF Apart
  <2> QED
    BY <2>4, <2>5, <2>6
<1> QED
  BY <1>8, <1>9 DEF s, t

LEMMA InsertedVector ==
  ASSUME ElementVector(Textures), NEW u \in Requests, ~Extends(u)
  PROVE  ElementVector(Stored(u)) /\ (Apart(Textures) => Apart(Stored(u)))
<1> DEFINE s == Textures
           i == TextureIndex(u)
           e == [key |-> FactoryCharacteristicKey(u), texture |-> u.texture]
           t == Stored(u)
           old(n) == IF n < i THEN n ELSE n - 1
<1>1. /\ Len(s) \in Nat /\ DOMAIN s = 1 .. Len(s) /\ s \in Seq(Elements)
      /\ \A n \in DOMAIN s : /\ s[n].key.id \in Int /\ s[n].key.begin \in Nat /\ s[n].key.end \in Nat
                             /\ s[n].key.begin < s[n].key.end
  BY ElementKeys DEF ElementVector
<1>2. /\ FactoryCharacteristicKey(u) = [id |-> u.id, begin |-> u.begin, end |-> u.end]
      /\ FactoryCharacteristicKey(u) \in Keys
      /\ u.id \in Int /\ u.begin \in Nat /\ u.end \in Nat /\ u.begin < u.end
  BY RequestKey
<1>3. /\ i \in 1 .. Len(s) + 1
      /\ Apart(s) => /\ \A n \in 1 .. i - 1 : s[n].key.id < u.id \/ (s[n].key.id = u.id /\ s[n].key.end <= u.begin)
                     /\ i <= Len(s) => u.id <= s[i].key.id
  BY TextureIndexIs
<1>4. t = InsertAt(s, i, e) /\ (i <= Len(s) /\ s[i].key.id = u.id => u.end <= s[i].key.begin)
  BY StoredIs
<1>5. e \in Elements /\ e.key.id = u.id /\ e.key.begin = u.begin /\ e.key.end = u.end
  BY <1>2 DEF Elements
<1> HIDE DEF s, i, e, t
<1>6. /\ t \in Seq(Elements) /\ Len(t) = Len(s) + 1
      /\ \A n \in 1 .. Len(s) + 1 : t[n] = IF n < i THEN s[n] ELSE IF n = i THEN e ELSE s[n - 1]
  <2>1. s \in Seq(Elements) /\ i \in 1 .. Len(s) + 1 /\ e \in Elements
    BY <1>1, <1>3, <1>5
  <2> HIDE DEF old
  <2>2. InsertAt(s, i, e) \in Seq(Elements) /\ Len(InsertAt(s, i, e)) = Len(s) + 1
    BY <2>1, Inserted
  <2>3. \A n \in 1 .. Len(s) + 1 : InsertAt(s, i, e)[n] = IF n < i THEN s[n] ELSE IF n = i THEN e ELSE s[n - 1]
    BY <2>1, Inserted
  <2> QED
    BY <1>4, <2>2, <2>3
<1>7. DOMAIN t = 1 .. Len(s) + 1 /\ t[i] = e
  BY <1>1, <1>3, <1>6
<1>8. \A n \in DOMAIN t \ {i} : old(n) \in DOMAIN s /\ t[n] = s[old(n)]
  BY <1>1, <1>3, <1>6, <1>7
<1>9. ElementVector(t)
  <2>1. ASSUME NEW n \in DOMAIN t PROVE t[n].key.begin < t[n].key.end
    <3>1. CASE n = i
      BY <1>2, <1>5, <1>7, <3>1
    <3>2. CASE n # i
      <4> HIDE DEF old
      <4> QED
        BY <1>1, <1>8, <3>2
    <3> QED
      BY <3>1, <3>2
  <2> QED
    BY <1>6, <2>1 DEF ElementVector
<1>10. ASSUME Apart(s) PROVE Apart(t)
  <2>1. ASSUME NEW n \in DOMAIN s, n < i PROVE Before(s[n], e)
    <3>1. n \in 1 .. i - 1
      BY <1>1, <1>3, <2>1
    <3> QED
      BY <1>3, <1>5, <1>10, <3>1 DEF Before
  <2>2. ASSUME NEW n \in DOMAIN s, n >= i PROVE Before(e, s[n])
    <3>1. i \in DOMAIN s /\ i <= Len(s)
      BY <1>1, <1>3, <2>2
    <3>2. u.id <= s[i].key.id /\ (s[i].key.id = u.id => u.end <= s[i].key.begin)
      BY <1>3, <1>4, <1>10, <3>1
    <3>3. n = i \/ Before(s[i], s[n])
      BY <1>1, <1>3, <1>10, <2>2, <3>1 DEF Apart
    <3> QED
      BY <1>1, <1>2, <1>5, <3>1, <3>2, <3>3 DEF Before
  <2> SUFFICES ASSUME NEW n \in DOMAIN t, NEW m \in DOMAIN t, n < m PROVE Before(t[n], t[m])
    BY DEF Apart
  <2>3. CASE n = i
    <3>1. m # i /\ old(m) >= i
      BY <1>1, <1>3, <1>7, <2>3
    <3> HIDE DEF old
    <3> QED
      BY <1>7, <1>8, <2>2, <2>3, <3>1
  <2>4. CASE m = i
    <3>1. n # i /\ old(n) < i
      BY <1>1, <1>3, <1>7, <2>4
    <3> HIDE DEF old
    <3> QED
      BY <1>7, <1>8, <2>1, <2>4, <3>1
  <2>5. CASE n # i /\ m # i
    <3>1. old(n) < old(m)
      BY <1>1, <1>3, <1>7, <2>5
    <3> HIDE DEF old
    <3> QED
      BY <1>8, <1>10, <2>5, <3>1 DEF Apart
  <2> QED
    BY <2>3, <2>4, <2>5
<1> QED
  BY <1>9, <1>10 DEF s, t

--------------------------------------------------------------------------------

(* The vector of descriptors. *)

Entries == [key : Keys, descriptor : Descriptors]

Vector == m_factory_characteristic_key_to_descriptor

EntryVector(s) ==
  /\ s \in Seq(Entries)
  /\ \A n \in DOMAIN s : s[n].key = FactoryCharacteristicKey(s[n].descriptor)

\* Every descriptor that shows something has an entry.
AllEntered(s, ds) == \A d \in ds : \E n \in DOMAIN s : s[n].descriptor = d

AtMost(k, l) == k.id < l.id \/ (k.id = l.id /\ k.begin <= l.begin)

InOrder(s) == \A i, j \in DOMAIN s : i < j => AtMost(s[i].key, s[j].key)

LEMMA EntryKeys ==
  ASSUME NEW s, EntryVector(s)
  PROVE  /\ Len(s) \in Nat /\ DOMAIN s = 1 .. Len(s)
         /\ \A n \in DOMAIN s :
              /\ s[n] \in Entries /\ s[n].descriptor \in Descriptors
              /\ s[n].key.id \in Int /\ s[n].key.begin \in Nat /\ s[n].key.end \in Nat
              /\ s[n].key.begin < s[n].key.end
<1>1. /\ Len(s) \in Nat /\ DOMAIN s = 1 .. Len(s)
      /\ \A n \in DOMAIN s : s[n] \in Entries /\ s[n].key = FactoryCharacteristicKey(s[n].descriptor)
  BY DEF EntryVector
<1>2. \A e \in Entries : e.descriptor \in Descriptors /\ e.key \in Keys
  BY DEF Entries
<1>3. \A k \in Keys : k.id \in Int /\ k.begin \in Nat /\ k.end \in Nat
  BY DEF Keys
<1> QED
  BY <1>1, <1>2, <1>3, DescriptorKey

\* A request does not start within a descriptor that it matches.
StartsAtMost(u) ==
  LET s == m_factory_characteristic_key_to_descriptor
      key == FactoryCharacteristicKey(u)
  IN  \A n \in DOMAIN s : Matches(s[n].key, key) => key.begin <= s[n].key.begin

(* The descriptors that match a request are next to each other. *)
LEMMA FoundDescriptors ==
  ASSUME EntryVector(Vector), InOrder(Vector), NEW ds, AllEntered(Vector, ds), NEW u \in Requests, StartsAtMost(u),
         NEW d \in ds
  PROVE  d \in find_descriptors(FactoryCharacteristicKey(u)) <=>
           Matches(FactoryCharacteristicKey(u), FactoryCharacteristicKey(d))
<1> DEFINE s == Vector
           key == FactoryCharacteristicKey(u)
           hits == {n \in DOMAIN s : Matches(s[n].key, key)}
           misses == {n \in DOMAIN s : ~Matches(s[n].key, key)}
           begin == FirstFrom(s, 1, hits)
           end == FirstFrom(s, begin + 1, misses)
<1>0. s \in Seq(Entries) /\ Len(s) \in Nat /\ DOMAIN s = 1 .. Len(s)
  BY DEF EntryVector
<1>1. find_descriptors(key) = IF begin > Len(s) THEN {} ELSE {s[n].descriptor : n \in begin .. end - 1}
  BY DEF find_descriptors, Vector
<1>2. /\ key = [id |-> u.id, begin |-> u.begin, end |-> u.end]
      /\ u.id \in Int /\ u.begin \in Nat /\ u.end \in Nat /\ u.begin < u.end
  BY RequestKey
<1>3. \A n \in DOMAIN s : Matches(s[n].key, key) <=> Matches(key, FactoryCharacteristicKey(s[n].descriptor))
  <2>1. \A n \in DOMAIN s : s[n].key = FactoryCharacteristicKey(s[n].descriptor)
    BY DEF EntryVector
  <2> HIDE DEF s, key
  <2> QED
    BY <2>1 DEF Matches
<1>4. \E n \in DOMAIN s : s[n].descriptor = d
  BY DEF AllEntered
<1>5. (\E n \in hits : s[n].descriptor = d) <=> Matches(key, FactoryCharacteristicKey(d))
  BY <1>3, <1>4
<1>6. \A n \in DOMAIN s : s[n].key.id \in Int /\ s[n].key.begin \in Nat /\ s[n].key.end \in Nat /\ s[n].key.begin < s[n].key.end
  BY EntryKeys
<1>7. \A n \in hits : s[n].key.id = u.id /\ u.begin <= s[n].key.begin /\ s[n].key.begin < u.end
  BY <1>2 DEF StartsAtMost, Matches, Vector
<1>8. \A n \in DOMAIN s : s[n].key.id = u.id /\ u.begin <= s[n].key.begin /\ s[n].key.begin < u.end => n \in hits
  BY <1>2, <1>6 DEF Matches
<1> HIDE DEF s, key
<1>9. begin \in 1 .. Len(s) + 1 /\ (begin <= Len(s) => begin \in hits) /\ \A n \in 1 .. begin - 1 : n \notin hits
  <2>1. 1 \in 1 .. Len(s) + 1
    BY <1>0
  <2> HIDE DEF hits
  <2> QED
    BY <1>0, <2>1, FirstFromFacts
<1>10. CASE begin > Len(s)
  <2>1. \A n \in DOMAIN s : n \in 1 .. begin - 1
    BY <1>0, <1>9, <1>10
  <2>2. hits = {}
    BY <1>9, <2>1
  <2> QED
    BY <1>1, <1>5, <1>10, <2>2 DEF key
<1>11. CASE begin <= Len(s)
  <2>1. end \in begin + 1 .. Len(s) + 1 /\ (end <= Len(s) => end \in misses) /\ \A n \in begin + 1 .. end - 1 : n \notin misses
    <3>1. begin + 1 \in 1 .. Len(s) + 1
      BY <1>0, <1>9, <1>11
    <3> HIDE DEF misses, begin
    <3> QED
      BY <1>0, <3>1, FirstFromFacts
  <2>2. begin \in hits
    BY <1>9, <1>11
  <2> HIDE DEF begin, end
  <2>3. ASSUME NEW n \in begin .. end - 1 PROVE n \in hits
    <3>1. n \in DOMAIN s /\ (n = begin \/ n \in begin + 1 .. end - 1)
      BY <1>0, <1>9, <2>1
    <3> QED
      BY <2>1, <2>2, <3>1
  <2>4. ASSUME NEW n \in hits PROVE n \in begin .. end - 1
    <3>1. n \in 1 .. Len(s) /\ n >= begin
      BY <1>0, <1>9
    <3> SUFFICES ASSUME n >= end PROVE FALSE
      BY <1>9, <2>1, <3>1
    <3>2. end \in misses /\ end \in DOMAIN s /\ begin < end /\ begin \in DOMAIN s
      BY <1>0, <1>9, <1>11, <2>1, <3>1
    <3>3. end < n
      BY <2>1, <3>1, <3>2
    <3>4. InOrder(s)
      BY DEF s
    <3>5. AtMost(s[begin].key, s[end].key) /\ AtMost(s[end].key, s[n].key)
      BY <3>2, <3>3, <3>4 DEF InOrder
    <3>6. /\ s[begin].key.id = u.id /\ u.begin <= s[begin].key.begin
          /\ s[n].key.id = u.id /\ s[n].key.begin < u.end
      BY <1>7, <2>2
    <3>7. s[end].key.id = u.id /\ u.begin <= s[end].key.begin /\ s[end].key.begin < u.end
      BY <1>2, <1>6, <2>2, <3>2, <3>5, <3>6 DEF AtMost
    <3> QED
      BY <1>8, <3>2, <3>7
  <2>5. hits = begin .. end - 1
    BY <2>3, <2>4
  <2>6. ~(begin > Len(s))
    BY <1>0, <1>9, <1>11
  <2> QED
    BY <1>1, <1>5, <2>5, <2>6 DEF begin, end, key
<1>12. begin > Len(s) \/ begin <= Len(s)
  BY <1>0, <1>9
<1> QED
  BY <1>10, <1>11, <1>12

\* The descriptor comes after all others of its id, and what follows them, of another id, does
\* not start beyond it: the second search, which does not look at the id, does not stop there.
Misplaced(u) ==
  LET s == m_factory_characteristic_key_to_descriptor
  IN  \E n \in 1 .. Len(s) - 1 :
        /\ s[n].key.id = u.id /\ s[n].key.begin <= u.fill_index
        /\ u.id < s[n + 1].key.id /\ s[n + 1].key.begin <= u.fill_index

(* Where a descriptor goes. *)
LEMMA DescriptorGoes ==
  ASSUME EntryVector(Vector), NEW u \in Descriptors
  PROVE  /\ DescriptorIndex(u) \in 1 .. Len(Vector) + 1
         /\ InOrder(Vector) /\ ~Misplaced(u) =>
              \A n \in DOMAIN Vector :
                IF n < DescriptorIndex(u) THEN AtMost(Vector[n].key, FactoryCharacteristicKey(u))
                                          ELSE AtMost(FactoryCharacteristicKey(u), Vector[n].key)
         /\ InOrder(Vector) /\ Misplaced(u) =>
              \E n \in DOMAIN Vector : n < DescriptorIndex(u) /\ u.id < Vector[n].key.id
<1> DEFINE s == Vector
           key == FactoryCharacteristicKey(u)
           ids == {n \in DOMAIN s : s[n].key.id >= u.id}
           first == FirstFrom(s, 1, ids)
           larger == {n \in DOMAIN s : u.fill_index < s[n].key.begin}
           j == FirstFrom(s, first, larger)
<1>0. s \in Seq(Entries) /\ Len(s) \in Nat /\ DOMAIN s = 1 .. Len(s)
  BY DEF EntryVector
<1>1. DescriptorIndex(u) = IF first > Len(s) \/ s[first].key.id # u.id THEN first ELSE j
  BY DEF DescriptorIndex, Vector
<1>2. /\ key.id = u.id /\ u.id \in Int /\ key.begin \in Nat /\ u.fill_index \in Nat \cup {-1}
      /\ key.begin = IF u.fill_index = -1 THEN 0 ELSE u.fill_index
  BY DescriptorKey DEF Keys
<1>3. \A n \in DOMAIN s : s[n].key.id \in Int /\ s[n].key.begin \in Nat
  BY EntryKeys
<1>4. InOrder(s) => \A n, m \in DOMAIN s : n < m => AtMost(s[n].key, s[m].key)
  BY DEF InOrder
<1>5. Misplaced(u) <=> \E n \in 1 .. Len(s) - 1 :
                         /\ s[n].key.id = u.id /\ s[n].key.begin <= u.fill_index
                         /\ u.id < s[n + 1].key.id /\ s[n + 1].key.begin <= u.fill_index
  BY DEF Misplaced, Vector
<1>6. \A n \in DOMAIN s : (n \in ids <=> s[n].key.id >= u.id) /\ (n \in larger <=> u.fill_index < s[n].key.begin)
  OBVIOUS
<1> HIDE DEF s, key, ids, larger
<1>7. /\ first \in 1 .. Len(s) + 1 /\ (first <= Len(s) => first \in ids)
      /\ \A n \in 1 .. first - 1 : n \notin ids
  BY <1>0, FirstFromFacts
<1>8. /\ j \in first .. Len(s) + 1 /\ (j <= Len(s) => j \in larger)
      /\ \A n \in first .. j - 1 : n \notin larger
  BY <1>0, <1>7, FirstFromFacts
<1> HIDE DEF first, j
<1>9. \A n \in DOMAIN s : n < first => s[n].key.id < u.id
  BY <1>0, <1>2, <1>3, <1>6, <1>7
<1>10. ASSUME InOrder(s)
       PROVE  \A n \in DOMAIN s : n >= first => s[first].key.id >= u.id /\ s[n].key.id >= s[first].key.id
  <2> SUFFICES ASSUME NEW n \in DOMAIN s, n >= first PROVE s[first].key.id >= u.id /\ s[n].key.id >= s[first].key.id
    OBVIOUS
  <2>1. first \in DOMAIN s
    BY <1>0, <1>7
  <2>2. s[first].key.id >= u.id
    BY <1>0, <1>6, <1>7, <2>1
  <2>3. first = n \/ AtMost(s[first].key, s[n].key)
    BY <1>0, <1>4, <1>7, <1>10, <2>1
  <2> QED
    BY <1>3, <2>1, <2>2, <2>3 DEF AtMost
<1>11. ASSUME InOrder(s), first > Len(s) \/ s[first].key.id # u.id
       PROVE  /\ \A n \in DOMAIN s : IF n < first THEN AtMost(s[n].key, key) ELSE AtMost(key, s[n].key)
              /\ \A n \in DOMAIN s : s[n].key.id # u.id
  <2> SUFFICES ASSUME NEW n \in DOMAIN s
               PROVE  (IF n < first THEN AtMost(s[n].key, key) ELSE AtMost(key, s[n].key)) /\ s[n].key.id # u.id
    OBVIOUS
  <2>1. CASE n < first
    BY <1>2, <1>3, <1>9, <2>1 DEF AtMost
  <2>2. CASE ~(n < first)
    <3>1. n >= first /\ first \in DOMAIN s
      BY <1>0, <1>7, <2>2
    <3>2. s[first].key.id > u.id /\ s[n].key.id > u.id
      BY <1>0, <1>2, <1>3, <1>10, <1>11, <3>1
    <3> QED
      BY <1>2, <1>3, <2>2, <3>2 DEF AtMost
  <2> QED
    BY <2>1, <2>2
<1>12. ASSUME InOrder(s), ~Misplaced(u), first <= Len(s), s[first].key.id = u.id
       PROVE  \A n \in DOMAIN s : IF n < j THEN AtMost(s[n].key, key) ELSE AtMost(key, s[n].key)
  <2> SUFFICES ASSUME NEW n \in DOMAIN s PROVE IF n < j THEN AtMost(s[n].key, key) ELSE AtMost(key, s[n].key)
    OBVIOUS
  <2>0. first \in DOMAIN s
    BY <1>0, <1>7, <1>12
  <2>1. CASE n < first
    BY <1>0, <1>2, <1>7, <1>8, <1>9, <2>1 DEF AtMost
  <2>2. CASE n >= first /\ u.fill_index = -1
    <3>1. first \in larger
      BY <1>3, <1>6, <2>0, <2>2
    <3>2. j = first
      BY <1>7, <1>8, <3>1
    <3>3. s[n].key.id >= u.id /\ key.begin = 0
      BY <1>2, <1>10, <1>12, <2>2
    <3>4. AtMost(key, s[n].key)
      BY <1>2, <1>3, <3>3 DEF AtMost
    <3>5. ~(n < j)
      BY <1>0, <1>7, <2>2, <3>2
    <3> QED
      BY <3>4, <3>5
  <2>3. CASE n >= first /\ u.fill_index # -1
    <3>1. u.fill_index \in Nat /\ key.begin = u.fill_index
      BY <1>2, <2>3
    <3>2. s[n].key.id >= u.id
      BY <1>10, <1>12, <2>3
    <3>3. CASE n < j
      <4>1. \A m \in first .. n : s[m].key.begin <= u.fill_index
        <5> SUFFICES ASSUME NEW m \in first .. n PROVE s[m].key.begin <= u.fill_index
          OBVIOUS
        <5>1. m \in DOMAIN s /\ m \in first .. j - 1
          BY <1>0, <1>7, <1>8, <3>3
        <5>2. m \notin larger
          BY <1>8, <5>1
        <5> QED
          BY <1>3, <1>6, <3>1, <5>1, <5>2
      <4>2. s[n].key.id = u.id
        <5> SUFFICES ASSUME s[n].key.id # u.id PROVE FALSE
          OBVIOUS
        <5> DEFINE W == {m \in first .. n : u.id < s[m].key.id}
        <5>1. n \in W /\ W \in SUBSET Nat /\ W # {}
          BY <1>0, <1>2, <1>3, <1>7, <2>3, <3>2
        <5>2. PICK m \in W : \A l \in W : m <= l
          <6> HIDE DEF W
          <6> QED
            BY <5>1, SmallestNumber
        <5>3. m \in first .. n /\ u.id < s[m].key.id /\ m # first
          BY <1>2, <1>12
        <5>4. m - 1 \in first .. n /\ m - 1 \notin W /\ m - 1 \in DOMAIN s /\ m - 1 \in 1 .. Len(s) - 1
          BY <1>0, <1>7, <5>2, <5>3
        <5>5. s[m - 1].key.id = u.id
          BY <1>2, <1>3, <1>10, <1>12, <5>4
        <5>6. s[m - 1].key.begin <= u.fill_index /\ s[m].key.begin <= u.fill_index /\ (m - 1) + 1 = m
          BY <4>1, <5>3, <5>4
        <5> QED
          BY <1>5, <1>12, <5>3, <5>4, <5>5, <5>6
      <4>3. s[n].key.begin <= key.begin
        BY <1>7, <2>3, <3>1, <4>1
      <4> QED
        BY <1>2, <3>3, <4>2, <4>3 DEF AtMost
    <3>4. CASE ~(n < j)
      <4>1. j \in DOMAIN s /\ j \in larger /\ j <= n
        BY <1>0, <1>7, <1>8, <3>4
      <4>2. key.begin < s[j].key.begin
        BY <1>6, <3>1, <4>1
      <4>3. j = n \/ AtMost(s[j].key, s[n].key)
        BY <1>0, <1>4, <1>12, <4>1
      <4>4. s[j].key.id >= u.id
        BY <1>0, <1>2, <1>3, <1>7, <1>8, <1>10, <1>12, <4>1
      <4>5. s[n].key.id > u.id \/ key.begin <= s[n].key.begin
        BY <1>2, <1>3, <3>2, <4>1, <4>2, <4>3, <4>4 DEF AtMost
      <4> QED
        BY <1>2, <1>3, <3>2, <3>4, <4>5 DEF AtMost
    <3> QED
      BY <3>3, <3>4
  <2> QED
    BY <1>0, <1>7, <2>1, <2>2, <2>3
<1>13. ASSUME InOrder(s), Misplaced(u)
       PROVE  \E n \in DOMAIN s : n < DescriptorIndex(u) /\ u.id < s[n].key.id
  <2>1. PICK n \in 1 .. Len(s) - 1 :
          /\ s[n].key.id = u.id /\ s[n].key.begin <= u.fill_index
          /\ u.id < s[n + 1].key.id /\ s[n + 1].key.begin <= u.fill_index
    BY <1>5, <1>13
  <2>2. n \in DOMAIN s /\ n + 1 \in DOMAIN s
    BY <1>0
  <2>3. first <= Len(s) /\ s[first].key.id = u.id
    BY <1>11, <1>13, <1>0, <1>7, <2>1, <2>2
  <2>4. n >= first
    BY <1>0, <1>2, <1>7, <1>9, <2>1, <2>2
  <2>5. ASSUME NEW m \in first .. n + 1 PROVE m \notin larger
    <3>1. m \in DOMAIN s /\ (m = n + 1 \/ m = n \/ m < n)
      BY <1>0, <1>7, <2>2
    <3>2. m < n => AtMost(s[m].key, s[n].key) /\ s[m].key.id >= u.id
      BY <1>2, <1>3, <1>4, <1>7, <1>10, <1>13, <2>2, <2>3, <3>1
    <3>3. s[m].key.begin <= u.fill_index
      BY <1>2, <1>3, <2>1, <2>2, <3>1, <3>2 DEF AtMost
    <3> QED
      BY <1>2, <1>3, <1>6, <3>1, <3>3
  <2>6. j > n + 1
    BY <1>0, <1>7, <1>8, <2>2, <2>4, <2>5
  <2>7. DescriptorIndex(u) = j
    BY <1>0, <1>1, <1>7, <2>3
  <2> QED
    BY <1>0, <1>7, <1>8, <2>1, <2>2, <2>6, <2>7
<1>14. DescriptorIndex(u) \in 1 .. Len(s) + 1
  BY <1>0, <1>1, <1>7, <1>8
<1>15. ASSUME InOrder(s), ~Misplaced(u)
       PROVE  \A n \in DOMAIN s : IF n < DescriptorIndex(u) THEN AtMost(s[n].key, key) ELSE AtMost(key, s[n].key)
  <2>1. CASE first > Len(s) \/ s[first].key.id # u.id
    BY <1>1, <1>11, <1>15, <2>1
  <2>2. CASE first <= Len(s) /\ s[first].key.id = u.id
    <3>1. DescriptorIndex(u) = j
      BY <1>0, <1>1, <1>7, <2>2
    <3> QED
      BY <1>12, <1>15, <2>2, <3>1
  <2> QED
    BY <1>0, <1>7, <2>1, <2>2
<1> QED
  BY <1>13, <1>14, <1>15 DEF s, key

LEMMA DescriptorInserted ==
  ASSUME EntryVector(Vector), NEW ds, AllEntered(Vector, ds), NEW u \in Descriptors,
         NEW t, t = InsertAt(Vector, DescriptorIndex(u), [key |-> FactoryCharacteristicKey(u), descriptor |-> u])
  PROVE  /\ EntryVector(t) /\ AllEntered(t, ds \cup {u})
         /\ InOrder(Vector) => (InOrder(t) <=> ~Misplaced(u))
<1> DEFINE s == Vector
           key == FactoryCharacteristicKey(u)
           i == DescriptorIndex(u)
           e == [key |-> key, descriptor |-> u]
           old(n) == IF n < i THEN n ELSE n - 1
<1>0. s \in Seq(Entries) /\ Len(s) \in Nat /\ DOMAIN s = 1 .. Len(s)
  BY DEF EntryVector
<1>1. key \in Keys /\ key.id \in Int /\ key.begin \in Nat /\ key.id = u.id
  BY DescriptorKey DEF Keys
<1>2. e \in Entries
  BY <1>1 DEF Entries
<1>3. /\ i \in 1 .. Len(s) + 1
      /\ InOrder(s) /\ ~Misplaced(u) =>
           \A n \in DOMAIN s : IF n < i THEN AtMost(s[n].key, key) ELSE AtMost(key, s[n].key)
      /\ InOrder(s) /\ Misplaced(u) => \E n \in DOMAIN s : n < i /\ u.id < s[n].key.id
  BY DescriptorGoes
<1>4. /\ \A n \in DOMAIN s : s[n].key = FactoryCharacteristicKey(s[n].descriptor)
      /\ \A d \in ds : \E n \in DOMAIN s : s[n].descriptor = d
      /\ InOrder(s) => \A n, m \in DOMAIN s : n < m => AtMost(s[n].key, s[m].key)
  BY DEF EntryVector, AllEntered, InOrder
<1>5. t = InsertAt(s, i, e)
  OBVIOUS
<1> HIDE DEF s, i
<1>6. /\ t \in Seq(Entries) /\ Len(t) = Len(s) + 1
      /\ \A n \in 1 .. Len(s) + 1 : t[n] = IF n < i THEN s[n] ELSE IF n = i THEN e ELSE s[n - 1]
  <2> HIDE DEF e
  <2>1. s \in Seq(Entries) /\ i \in 1 .. Len(s) + 1 /\ e \in Entries
    BY <1>0, <1>2, <1>3
  <2>2. /\ InsertAt(s, i, e) \in Seq(Entries) /\ Len(InsertAt(s, i, e)) = Len(s) + 1
        /\ \A n \in 1 .. Len(s) + 1 : InsertAt(s, i, e)[n] = IF n < i THEN s[n] ELSE IF n = i THEN e ELSE s[n - 1]
    BY <2>1, Inserted
  <2> QED
    BY <1>5, <2>2
<1>7. e.key = key /\ e.descriptor = u
  OBVIOUS
<1> HIDE DEF e
<1>8. DOMAIN t = 1 .. Len(s) + 1
  BY <1>6
<1>9. \A n \in DOMAIN t : n # i => old(n) \in DOMAIN s /\ t[n] = s[old(n)]
  BY <1>0, <1>3, <1>6, <1>8
<1>10. t[i] = e /\ i \in DOMAIN t
  BY <1>0, <1>3, <1>6, <1>8
<1>11. ASSUME NEW n \in DOMAIN t PROVE t[n].key = FactoryCharacteristicKey(t[n].descriptor)
  <2>1. CASE n = i
    BY <1>7, <1>10, <2>1 DEF key
  <2>2. CASE n # i
    <3> HIDE DEF old
    <3> QED
      BY <1>4, <1>9, <2>2
  <2> QED
    BY <2>1, <2>2
<1>12. ASSUME NEW d \in ds \cup {u} PROVE \E n \in DOMAIN t : t[n].descriptor = d
  <2>1. CASE d = u
    BY <1>7, <1>10, <2>1
  <2>2. CASE d \in ds
    <3>1. PICK m \in DOMAIN s : s[m].descriptor = d
      BY <1>4, <2>2
    <3> DEFINE n == IF m < i THEN m ELSE m + 1
    <3>2. n \in DOMAIN t /\ n # i /\ old(n) = m
      BY <1>0, <1>3, <1>8
    <3> HIDE DEF old, n
    <3> QED
      BY <1>9, <3>1, <3>2
  <2> QED
    BY <2>1, <2>2
<1>13. ASSUME InOrder(s), ~Misplaced(u), NEW n \in DOMAIN t, NEW m \in DOMAIN t, n < m
       PROVE  AtMost(t[n].key, t[m].key)
  <2>1. CASE n = i
    <3>1. m # i /\ ~(old(m) < i)
      BY <1>0, <1>3, <1>8, <1>13, <2>1
    <3> HIDE DEF old
    <3> QED
      BY <1>3, <1>7, <1>9, <1>10, <1>13, <2>1, <3>1
  <2>2. CASE m = i
    <3>1. n # i /\ old(n) < i
      BY <1>0, <1>3, <1>8, <1>13, <2>2
    <3> HIDE DEF old
    <3> QED
      BY <1>3, <1>7, <1>9, <1>10, <1>13, <2>2, <3>1
  <2>3. CASE n # i /\ m # i
    <3>1. old(n) < old(m)
      BY <1>0, <1>3, <1>8, <1>13, <2>3
    <3> HIDE DEF old
    <3> QED
      BY <1>4, <1>9, <1>13, <2>3, <3>1
  <2> QED
    BY <2>1, <2>2, <2>3
<1>14. ASSUME InOrder(s), Misplaced(u), InOrder(t) PROVE FALSE
  <2>1. PICK n \in DOMAIN s : n < i /\ u.id < s[n].key.id
    BY <1>3, <1>14
  <2>2. n \in DOMAIN t /\ t[n] = s[n]
    BY <1>0, <1>3, <1>6, <1>8, <2>1
  <2>3. AtMost(s[n].key, key)
    BY <1>7, <1>10, <1>14, <2>1, <2>2 DEF InOrder
  <2>4. s[n].key.id \in Int
    BY EntryKeys DEF s
  <2> QED
    BY <1>1, <2>1, <2>3, <2>4 DEF AtMost
<1>15. InOrder(s) => (InOrder(t) <=> ~Misplaced(u))
  BY <1>13, <1>14 DEF InOrder
<1>16. EntryVector(t) /\ AllEntered(t, ds \cup {u})
  BY <1>6, <1>11, <1>12 DEF EntryVector, AllEntered
<1> QED
  BY <1>15, <1>16 DEF s

--------------------------------------------------------------------------------

(***************************************************************************)
(* The inductive invariant.  What a debug build tests keeps its textures   *)
(* apart, whatever is requested: an extension that reaches an element of   *)
(* the same id does not pass the ASSERT.                                   *)
(***************************************************************************)
UpdaterInv ==
  /\ m_new_data \in Seq(Updates)
  /\ EntryVector(Vector) /\ AllEntered(Vector, DOMAIN shown)
  /\ ElementVector(Textures)
  /\ cw_debug /\ run_state # "stopped" => Apart(Textures)

LEMMA UpdaterInvInit == UpdaterInit => UpdaterInv
<1> SUFFICES ASSUME UpdaterInit PROVE UpdaterInv
  OBVIOUS
<1>1. Textures = <<>> /\ Vector = <<>> /\ m_new_data = <<>> /\ shown = <<>>
  BY DEF UpdaterInit, Textures, Vector
<1>2. EntryVector(<<>>) /\ ElementVector(<<>>) /\ Apart(<<>>)
  BY DEF EntryVector, ElementVector, Apart
<1>3. AllEntered(<<>>, DOMAIN shown)
  BY <1>1 DEF AllEntered
<1> QED
  BY <1>1, <1>2, <1>3 DEF UpdaterInv

LEMMA HandleDescriptorKeeps ==
  ASSUME UpdaterInv, run_state = "flush", NEW u \in Updates, HandleDescriptor(u), cw_debug' = cw_debug
  PROVE  /\ EntryVector(Vector') /\ AllEntered(Vector', DOMAIN shown')
         /\ ElementVector(Textures') /\ (cw_debug' /\ run_state' # "stopped" => Apart(Textures'))
         /\ u \in Descriptors
         /\ InOrder(Vector) => (InOrder(Vector') <=> ~Misplaced(u))
<1>1. /\ u \in Descriptors
      /\ Vector' = InsertAt(Vector, DescriptorIndex(u), [key |-> FactoryCharacteristicKey(u), descriptor |-> u])
      /\ DOMAIN shown' \subseteq DOMAIN shown \cup {u}
      /\ Textures' = Textures
  BY DEF HandleDescriptor, IsDescriptor, Vector, Textures
<1>2. /\ EntryVector(Vector) /\ AllEntered(Vector, DOMAIN shown) /\ ElementVector(Textures)
      /\ cw_debug => Apart(Textures)
  BY DEF UpdaterInv
<1>3. /\ EntryVector(Vector') /\ AllEntered(Vector', DOMAIN shown \cup {u})
      /\ InOrder(Vector) => (InOrder(Vector') <=> ~Misplaced(u))
  BY <1>1, <1>2, DescriptorInserted
<1>4. AllEntered(Vector', DOMAIN shown')
  BY <1>1, <1>3 DEF AllEntered
<1> QED
  BY <1>1, <1>2, <1>3, <1>4

LEMMA HandleRequestKeeps ==
  ASSUME UpdaterInv, run_state = "flush", NEW u \in Updates, HandleRequest(u), cw_debug' = cw_debug
  PROVE  /\ u \in Requests /\ Vector' = Vector /\ DOMAIN shown' = DOMAIN shown
         /\ ElementVector(Textures') /\ (cw_debug' /\ run_state' # "stopped" => Apart(Textures'))
<1>1. /\ u \in Requests /\ Vector' = Vector /\ DOMAIN shown' = DOMAIN shown /\ Textures' = Stored(u)
      /\ run_state' # "stopped" => MayGoOn(u)
  BY DEF HandleRequest, IsDescriptor, Updates, Vector, Textures
<1>2. ElementVector(Textures) /\ (cw_debug => Apart(Textures))
  BY DEF UpdaterInv
<1>3. ElementVector(Stored(u)) /\ (Apart(Textures) /\ ~OverlapsNext(u) => Apart(Stored(u)))
  BY <1>1, <1>2, ExtendedVector, InsertedVector
<1>4. cw_debug /\ run_state' # "stopped" => ~OverlapsNext(u)
  BY <1>1 DEF MayGoOn
<1> QED
  BY <1>1, <1>2, <1>3, <1>4

LEMMA HeadIsUpdate ==
  ASSUME UpdaterInv, Flush
  PROVE  Head(m_new_data) \in Updates /\ m_new_data' \in Seq(Updates)
<1>1. m_new_data \in Seq(Updates) /\ m_new_data # <<>> /\ m_new_data' = Tail(m_new_data)
  BY DEF UpdaterInv, Flush
<1> QED
  BY <1>1

LEMMA UpdaterInvNext ==
  ASSUME UpdaterInv, [UpdaterNext]_updaterVars
  PROVE  UpdaterInv'
<1>1. ASSUME NEW u \in Updates, AddDatum(u) PROVE UpdaterInv'
  BY <1>1 DEF AddDatum, UpdaterInv, Textures, Vector
<1>2. ASSUME Flush PROVE UpdaterInv'
  <2> DEFINE u == Head(m_new_data)
  <2>1. u \in Updates /\ m_new_data' \in Seq(Updates)
    BY <1>2, HeadIsUpdate
  <2>2. run_state = "flush" /\ cw_debug' = cw_debug /\ (HandleDescriptor(u) \/ HandleRequest(u))
    BY <1>2 DEF Flush
  <2> HIDE DEF u
  <2>3. CASE HandleDescriptor(u)
    BY <2>1, <2>2, <2>3, HandleDescriptorKeeps DEF UpdaterInv
  <2>4. CASE HandleRequest(u)
    <3>1. EntryVector(Vector) /\ AllEntered(Vector, DOMAIN shown)
      BY DEF UpdaterInv
    <3> QED
      BY <2>1, <2>2, <2>4, <3>1, HandleRequestKeeps DEF UpdaterInv
  <2> QED
    BY <2>2, <2>3, <2>4
<1>3. ASSUME UNCHANGED <<m_new_data, cw_debug, m_factory_characteristic_key_to_descriptor,
                         m_factory_characteristic_key_to_texture_array_range, shown>>,
             run_state' # "stopped" => run_state # "stopped"
      PROVE  UpdaterInv'
  BY <1>3 DEF UpdaterInv, Textures, Vector
<1>4. CASE FlushedAll \/ Wait \/ Wake \/ (\E u \in Updates : SignalNeedAction(u)) \/ UNCHANGED updaterVars
  BY <1>3, <1>4 DEF FlushedAll, Wait, Wake, SignalNeedAction, updaterVars, dequeVars
<1> QED
  BY <1>1, <1>2, <1>4 DEF UpdaterNext, Task

LEMMA SortedIsInOrder == SortedByKey <=> InOrder(Vector)
BY DEF SortedByKey, InOrder, AtMost, Vector

\* The texture of a request is shown by all descriptors that it matches and by no other, when
\* the descriptors are sorted and it does not start within one of them. (find_descriptors,
\* which ends at the first element that does not match.)
RequestShows ==
  [][\A u \in Requests :
       Flush /\ Head(m_new_data) = u /\ run_state' # "stopped" /\ SortedByKey /\ StartsAtMost(u) =>
         \A d \in DOMAIN shown :
           shown'[d] = IF Matches(FactoryCharacteristicKey(u), FactoryCharacteristicKey(d)) THEN u.texture ELSE shown[d]
    ]_updaterVars

\* Whatever came before, and for any request: the early end of the search misses nothing as
\* long as the vector is sorted. (With DescriptorsSorted, which says when it ceases to be.)
THEOREM LatestTextureShows == UpdaterSpec => RequestShows
<1> DEFINE Step ==
      \A u \in Requests :
        Flush /\ Head(m_new_data) = u /\ run_state' # "stopped" /\ SortedByKey /\ StartsAtMost(u) =>
          \A d \in DOMAIN shown :
            shown'[d] = IF Matches(FactoryCharacteristicKey(u), FactoryCharacteristicKey(d)) THEN u.texture ELSE shown[d]
<1>1. UpdaterInv /\ [UpdaterNext]_updaterVars => UpdaterInv'
  BY UpdaterInvNext
<1>2. ASSUME UpdaterInv PROVE Step
  <2> SUFFICES ASSUME NEW u \in Requests, Flush, Head(m_new_data) = u, run_state' # "stopped", SortedByKey, StartsAtMost(u),
                      NEW d \in DOMAIN shown
               PROVE  shown'[d] = IF Matches(FactoryCharacteristicKey(u), FactoryCharacteristicKey(d))
                                  THEN u.texture ELSE shown[d]
    OBVIOUS
  <2>1. ~IsDescriptor(u)
    BY UpdaterAssumption DEF IsDescriptor
  <2>2. HandleRequest(u)
    BY <2>1 DEF Flush, HandleDescriptor
  <2>3. shown'[d] = IF d \in find_descriptors(FactoryCharacteristicKey(u)) THEN u.texture ELSE shown[d]
    BY <2>2 DEF HandleRequest
  <2>4. EntryVector(Vector) /\ AllEntered(Vector, DOMAIN shown) /\ InOrder(Vector)
    BY <1>2, SortedIsInOrder DEF UpdaterInv
  <2>5. d \in find_descriptors(FactoryCharacteristicKey(u)) <=>
          Matches(FactoryCharacteristicKey(u), FactoryCharacteristicKey(d))
    BY <2>4, FoundDescriptors
  <2> QED
    BY <2>3, <2>5
<1>3. UpdaterInv => [Step]_updaterVars
  BY <1>2
<1> QED
  BY <1>1, <1>3, UpdaterInvInit, PTL DEF UpdaterSpec, RequestShows

\* The descriptors, once sorted (the comment at CombinedImageSamplerUpdater.cxx:95), cease to be
\* by a step that inserts a descriptor beyond all of its id, when the next id starts not beyond
\* it, and by no other.
SortedExcept ==
  [][SortedByKey =>
       (SortedByKey' <=> ~(Flush /\ Head(m_new_data) \in Descriptors /\ Misplaced(Head(m_new_data))))
    ]_updaterVars

\* Exactly one kind of step breaks the order that the searches rely on: the one in which the
\* search at :149-156, which does not look at the id, runs on into the next id.
THEOREM DescriptorsSorted == UpdaterSpec => SortedExcept
<1> DEFINE Step ==
      SortedByKey => (SortedByKey' <=> ~(Flush /\ Head(m_new_data) \in Descriptors /\ Misplaced(Head(m_new_data))))
<1>1. UpdaterInv /\ [UpdaterNext]_updaterVars => UpdaterInv'
  BY UpdaterInvNext
<1>2. ASSUME UpdaterInv, UpdaterNext PROVE Step
  <2>1. SortedByKey' <=> InOrder(Vector')
    BY DEF SortedByKey, InOrder, AtMost, Vector
  <2>2. SortedByKey <=> InOrder(Vector)
    BY SortedIsInOrder
  <2>3. ASSUME Vector' = Vector PROVE SortedByKey' <=> SortedByKey
    BY <2>1, <2>2, <2>3
  <2>4. CASE Flush
    <3> DEFINE u == Head(m_new_data)
    <3>1. u \in Updates
      BY <1>2, <2>4, HeadIsUpdate
    <3>2. run_state = "flush" /\ cw_debug' = cw_debug /\ (HandleDescriptor(u) \/ HandleRequest(u))
      BY <2>4 DEF Flush
    <3> HIDE DEF u
    <3>3. CASE HandleDescriptor(u)
      <4>1. u \in Descriptors /\ (InOrder(Vector) => (InOrder(Vector') <=> ~Misplaced(u)))
        BY <1>2, <3>1, <3>2, <3>3, HandleDescriptorKeeps
      <4> QED
        BY <2>1, <2>2, <2>4, <4>1 DEF u
    <3>4. CASE HandleRequest(u)
      <4>1. u \in Requests /\ Vector' = Vector
        BY <1>2, <3>1, <3>2, <3>4, HandleRequestKeeps
      <4>2. u \notin Descriptors
        BY <4>1, UpdaterAssumption
      <4> QED
        BY <2>3, <4>1, <4>2 DEF u
    <3> QED
      BY <3>2, <3>3, <3>4
  <2>5. CASE ~Flush
    <3>1. Vector' = Vector
      BY <1>2, <2>5 DEF UpdaterNext, Task, FlushedAll, Wait, Wake, AddDatum, SignalNeedAction, Vector
    <3> QED
      BY <2>3, <2>5, <3>1
  <2> QED
    BY <2>4, <2>5
<1>3. UpdaterInv /\ [UpdaterNext]_updaterVars => [Step]_updaterVars
  BY <1>2
<1> QED
  BY <1>1, <1>3, UpdaterInvInit, PTL DEF UpdaterSpec, SortedExcept

\* A task that waits, or is about to, while the deque is not empty, has a signal pending, or
\* the producer of the last element did not give its signal yet.
SignalNotLost == m_new_data # <<>> /\ run_state \in {"empty", "wait"} => need_action \/ adding # {}

\* The signal of a producer is never lost between the last look at the deque and the wait
\* (have_new_datum, and the states of CombinedImageSamplerUpdater::multiplex_impl).
THEOREM SignalPending == UpdaterSpec => []SignalNotLost
<1>1. UpdaterInit => SignalNotLost
  BY DEF UpdaterInit, SignalNotLost
<1>2. ASSUME SignalNotLost, [UpdaterNext]_updaterVars PROVE SignalNotLost'
  <2>1. ASSUME NEW u \in Updates, AddDatum(u) PROVE SignalNotLost'
    BY <2>1 DEF AddDatum, SignalNotLost
  <2>2. ASSUME NEW u \in Updates, SignalNeedAction(u) PROVE SignalNotLost'
    BY <2>2 DEF SignalNeedAction, SignalNotLost
  <2>3. CASE Flush
    BY <2>3 DEF Flush, HandleDescriptor, HandleRequest, SignalNotLost
  <2>4. CASE FlushedAll
    BY <2>4 DEF FlushedAll, SignalNotLost
  <2>5. CASE Wait
    BY <1>2, <2>5 DEF Wait, SignalNotLost
  <2>6. CASE Wake
    BY <2>6 DEF Wake, SignalNotLost
  <2>7. CASE UNCHANGED updaterVars
    BY <1>2, <2>7 DEF updaterVars, dequeVars, SignalNotLost
  <2> QED
    BY <1>2, <2>1, <2>2, <2>3, <2>4, <2>5, <2>6, <2>7 DEF UpdaterNext, Task
<1> QED
  BY <1>1, <1>2, PTL DEF UpdaterSpec

\* In a debug build that goes on, a descriptor with a fill index has at most one texture to show.
OneTexture ==
  cw_debug /\ run_state # "stopped" =>
    \A d \in Descriptors : d.fill_index # -1 =>
      \A n, m \in DOMAIN m_factory_characteristic_key_to_texture_array_range :
        /\ Matches(m_factory_characteristic_key_to_texture_array_range[n].key, FactoryCharacteristicKey(d))
        /\ Matches(m_factory_characteristic_key_to_texture_array_range[m].key, FactoryCharacteristicKey(d))
        => n = m

\* The ASSERTs at CombinedImageSamplerUpdater.cxx:289 and :319 see every extension that overlaps
\* another element, so that the fatal error at :71 can only come for the full range: for any
\* requests, in any order.
THEOREM OneTextureMatches == UpdaterSpec => []OneTexture
<1>1. UpdaterInv /\ [UpdaterNext]_updaterVars => UpdaterInv'
  BY UpdaterInvNext
<1>2. UpdaterInv => OneTexture
  <2> SUFFICES ASSUME UpdaterInv, cw_debug, run_state # "stopped", NEW d \in Descriptors, d.fill_index # -1,
                      NEW n \in DOMAIN Textures, NEW m \in DOMAIN Textures,
                      Matches(Textures[n].key, FactoryCharacteristicKey(d)),
                      Matches(Textures[m].key, FactoryCharacteristicKey(d))
               PROVE  n = m
    BY DEF OneTexture, Textures
  <2> DEFINE s == Textures
             key == FactoryCharacteristicKey(d)
  <2>1. ElementVector(s) /\ Apart(s)
    BY DEF UpdaterInv
  <2>2. key.begin \in Nat /\ key.end = key.begin + 1
    <3>1. IsDescriptor(d) /\ d.fill_index \in Nat
      BY UpdaterAssumption DEF IsDescriptor
    <3> QED
      BY <3>1 DEF FactoryCharacteristicKey
  <2>3. \A x \in {n, m} : /\ x \in Nat /\ s[x].key.id \in Int /\ s[x].key.begin \in Nat /\ s[x].key.end \in Nat
                          /\ s[x].key.begin < s[x].key.end
    BY <2>1, ElementKeys
  <2>4. \A x \in {n, m} : s[x].key.id = key.id /\ s[x].key.end > key.begin /\ key.end > s[x].key.begin
    BY DEF Matches
  <2> HIDE DEF s, key
  <2>5. ~Before(s[n], s[m]) /\ ~Before(s[m], s[n])
    BY <2>2, <2>3, <2>4 DEF Before
  <2>6. n < m \/ m < n \/ n = m
    BY <2>3
  <2> QED
    BY <2>1, <2>5, <2>6 DEF Apart, s
<1> QED
  BY <1>1, <1>2, UpdaterInvInit, PTL DEF UpdaterSpec
================================================================================
