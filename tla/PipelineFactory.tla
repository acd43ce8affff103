------------------------ MODULE PipelineFactory ------------------------
(* A PipelineFactory and its Characteristic tasks. The factory loops over all
   combinations of the values of the characteristics; for each of them it lets
   the tasks whose value changed fill in, preprocess and compile their part, all
   at the same time, and waits until the last one has called back. *)
EXTENDS Integers, Sequences, FiniteSets

CONSTANTS N,          \* m_characteristics.size()
          End,        \* m_end of each; m_begin is 0
          Ranges,     \* those derived from CharacteristicRange: they need do_fill
          Shaders,    \* those derived from AddShaderStage: they need do_preprocess and do_compile
          Sets        \* the number of descriptor sets a pipeline uses

Characteristics == 1..N

ASSUME PipelineFactoryAssumption ==
  /\ N \in Nat \ {0}
  /\ End \in [Characteristics -> Nat \ {0}]
  /\ Ranges \subseteq Characteristics
  /\ \A c \in Characteristics \ Ranges : End[c] = 1
  /\ Shaders \subseteq Characteristics
  /\ Sets \in Nat

VARIABLES
  pc,           \* where the factory is
  phase,        \* what the Characteristic tasks are asked to do
  to_signal,    \* those that still have to be sent the signal for it
  number,       \* m_number_of_running_characteristic_tasks
  running,      \* m_running_characteristic_tasks
  completed,    \* m_completed_characteristic_tasks
  counter, loop,     \* m_range_counters, and its current loop (0 when finished)
  woken,        \* the conditions that were signalled to the factory
  updating,     \* m_number_of_running_combined_image_sampler_updaters
  updates,      \* the DescriptorUpdateInfo objects that exist
  m_set_index, m_have_lock,
  cache,        \* m_per_fill_index_cache of every characteristic
  pipelines,    \* what was passed to have_new_datum: the parts and the pipeline::Index
  at,           \* where every Characteristic task is
  signals,      \* what was signalled to it
  terminate,    \* m_terminate of all of them
  m_fill_index,
  data          \* its part of the pipeline: the value for which it was filled in

factory_vars == <<pc, phase, to_signal, running, completed, counter, loop, m_set_index, m_have_lock, cache, pipelines>>
update_vars == <<updating, updates>>
task_vars == <<at, signals, data>>
vars == <<pc, phase, to_signal, number, running, completed, counter, loop, woken, updating, updates,
          m_set_index, m_have_lock, cache, pipelines, at, signals, terminate, m_fill_index, data>>

Nothing == -2    \* a part that was cleared

Init ==
  /\ pc = "initialized" /\ phase = "initialize" /\ to_signal = {} /\ number = 0
  /\ running = {} /\ completed = {} /\ counter = [c \in Characteristics |-> 0] /\ loop = 1
  /\ woken = {} /\ updating = 0 /\ updates = 0 /\ m_set_index = 0 /\ m_have_lock = FALSE
  /\ cache = [c \in Characteristics |-> <<>>] /\ pipelines = <<>>
  /\ at = [c \in Characteristics |-> "new"] /\ signals = [c \in Characteristics |-> {}]
  /\ terminate = FALSE
  /\ m_fill_index = [c \in Characteristics |-> -1]
  /\ data = [c \in Characteristics |-> Nothing]

---------------------------------------------------------------------------
(* The Characteristic tasks. A signal that is sent before the task waits is
   remembered, so that a callback and the wait after it are one step. *)

\* characteristic_range_initialized, _filled, _preprocessed and _compiled.
characteristic_range_done(p) ==
  /\ number' = number - 1
  /\ woken' = IF number = 1 THEN woken \cup {p} ELSE woken

\* The index of its part in the FlatCreateInfo: a task that isn't a range uses slot 0.
Slot(c) == IF m_fill_index[c] < 0 THEN 0 ELSE m_fill_index[c]

\* The state of the derived class, followed by CharacteristicRange_initialized.
initialize(c) ==
  /\ at[c] = "initialize"
  /\ characteristic_range_done("initialize")
  /\ at' = [at EXCEPT ![c] = IF c \in Ranges THEN "fill" ELSE IF c \in Shaders THEN "preprocess" ELSE "done"]
  /\ data' = IF c \in Ranges \cup Shaders THEN data ELSE [data EXCEPT ![c] = 0]
  /\ UNCHANGED <<factory_vars, update_vars, signals, terminate, m_fill_index>>

\* The task waits for signal p, or for do_terminate.
Received(c, p) == at[c] = p /\ p \in signals[c] /\ ~terminate

\* CharacteristicRange_fill_or_terminate: pre_fill_state clears the shader stages.
fill(c) ==
  /\ Received(c, "fill")
  /\ signals' = [signals EXCEPT ![c] = @ \ {"fill"}]
  /\ data' = [data EXCEPT ![c] = IF c \in Shaders THEN Nothing ELSE m_fill_index[c]]
  /\ characteristic_range_done("fill")
  /\ at' = [at EXCEPT ![c] = IF c \in Shaders THEN "preprocess" ELSE "fill"]
  /\ UNCHANGED <<factory_vars, update_vars, terminate, m_fill_index>>

preprocess(c) ==
  /\ Received(c, "preprocess")
  /\ signals' = [signals EXCEPT ![c] = @ \ {"preprocess"}]
  /\ characteristic_range_done("preprocess")
  /\ at' = [at EXCEPT ![c] = "compile"]
  /\ UNCHANGED <<factory_vars, update_vars, terminate, m_fill_index, data>>

start_realize_shaders(c) ==
  /\ Received(c, "compile")
  /\ signals' = [signals EXCEPT ![c] = @ \ {"compile"}]
  /\ at' = [at EXCEPT ![c] = "realize_shaders"]
  /\ UNCHANGED <<factory_vars, number, woken, update_vars, terminate, m_fill_index, data>>

\* Returned true: all shaders of the task are compiled, here or by another task.
realize_shaders(c) ==
  /\ at[c] = "realize_shaders"
  /\ data' = [data EXCEPT ![c] = Slot(c)]
  /\ characteristic_range_done("compile")
  /\ at' = [at EXCEPT ![c] = IF c \in Ranges THEN "fill" ELSE "done"]
  /\ UNCHANGED <<factory_vars, update_vars, signals, terminate, m_fill_index>>

terminate_task(c) ==
  /\ at[c] \in {"fill", "preprocess", "compile"} /\ terminate
  /\ at' = [at EXCEPT ![c] = "done"]
  /\ UNCHANGED <<factory_vars, number, woken, update_vars, signals, terminate, m_fill_index, data>>

Characteristic(c) ==
  \/ initialize(c) \/ fill(c) \/ preprocess(c) \/ start_realize_shaders(c) \/ realize_shaders(c)
  \/ terminate_task(c)

---------------------------------------------------------------------------
(* The fan-out: count the tasks, then signal them one by one. *)

(* Mutant: also counts tasks that have nothing to preprocess. *)
Needed_all(p, tasks) == tasks \cap (IF p = "fill" THEN Ranges ELSE Characteristics)

Needed(p, tasks) == tasks \cap (IF p = "fill" THEN Ranges ELSE Shaders)

StartPhase(p, tasks) ==
  /\ phase' = p
  /\ number' = Cardinality(tasks)
  /\ to_signal' = tasks
  /\ pc' = "signal"

First(tasks) == CHOOSE c \in tasks : \A d \in tasks : c <= d

signal_task ==
  /\ pc = "signal" /\ to_signal # {}
  /\ LET c == First(to_signal) IN
     /\ IF phase = "initialize"
          THEN at' = [at EXCEPT ![c] = "initialize"] /\ UNCHANGED signals
          ELSE signals' = [signals EXCEPT ![c] = @ \cup {phase}] /\ UNCHANGED at
     /\ to_signal' = to_signal \ {c}
     /\ pc' = IF to_signal = {c} THEN "wait" ELSE "signal"
  /\ UNCHANGED <<phase, number, running, completed, counter, loop, woken, update_vars, m_set_index, m_have_lock,
                 cache, pipelines, terminate, m_fill_index, data>>

(* Mutant: continues while the tasks are running. *)
Reached_at_once(p) ==
  /\ phase = p
  /\ pc = "wait" \/ (pc = "signal" /\ to_signal = {})
  /\ woken' = woken \ {p}

\* The factory is woken up, or falls through when there was nobody to signal.
Reached(p) ==
  /\ phase = p
  /\ \/ pc = "wait" /\ p \in woken
     \/ pc = "signal" /\ to_signal = {}
  /\ woken' = woken \ {p}

---------------------------------------------------------------------------
(* The factory. *)

initialized ==
  /\ pc = "initialized"
  /\ StartPhase("initialize", Characteristics)
  /\ UNCHANGED <<running, completed, counter, loop, woken, update_vars, m_set_index, m_have_lock, cache, pipelines,
                 task_vars, terminate, m_fill_index>>

characteristics_initialized ==
  /\ Reached("initialize")
  /\ pc' = "multiloop"
  /\ UNCHANGED <<phase, to_signal, number, running, completed, counter, loop, update_vars, m_set_index, m_have_lock,
                 cache, pipelines, task_vars, terminate, m_fill_index>>

InLoop == pc = "multiloop" /\ loop > 0
Entered == InLoop /\ counter[loop] < End[loop]

start_next_loop ==
  /\ Entered /\ loop < N
  /\ loop' = loop + 1
  /\ counter' = [counter EXCEPT ![loop + 1] = 0]
  /\ UNCHANGED <<pc, phase, to_signal, number, running, completed, woken, update_vars, m_set_index, m_have_lock,
                 cache, pipelines, task_vars, terminate, m_fill_index>>

\* The ranges whose fill index changes and that did not complete all values yet, and
\* the others that did not complete.
Changed == {c \in Ranges : m_fill_index[c] # counter[c]}
Running == (Changed \cup (Characteristics \ Ranges)) \ completed

begin_pipeline ==
  /\ Entered /\ loop = N
  /\ running' = Running
  /\ m_fill_index' = [c \in Characteristics |-> IF c \in Ranges THEN counter[c] ELSE m_fill_index[c]]
  /\ StartPhase("fill", Needed("fill", Running))
  /\ UNCHANGED <<completed, counter, loop, woken, update_vars, m_set_index, m_have_lock, cache, pipelines, task_vars,
                 terminate>>

characteristics_filled ==
  /\ Reached("fill")
  /\ StartPhase("preprocess", Needed("preprocess", running))
  /\ UNCHANGED <<running, completed, counter, loop, update_vars, m_set_index, m_have_lock, cache, pipelines,
                 task_vars, terminate, m_fill_index>>

characteristics_preprocessed ==
  /\ Reached("preprocess")
  /\ StartPhase("compile", Needed("compile", running))
  /\ UNCHANGED <<running, completed, counter, loop, update_vars, m_set_index, m_have_lock, cache, pipelines,
                 task_vars, terminate, m_fill_index>>

\* initialize_shader_resources_per_set_index; descriptor_set_update_start keeps the
\* counter from reaching zero while the factory waits for a lock.
characteristics_compiled ==
  /\ Reached("compile")
  /\ pc' = "descriptor_sets" /\ m_set_index' = 0 /\ m_have_lock' = FALSE
  /\ updating' = updating + 1
  /\ UNCHANGED <<phase, to_signal, number, running, completed, counter, loop, updates, cache, pipelines, task_vars,
                 terminate, m_fill_index>>

\* update_missing_descriptor_sets: the descriptor set of the next set index may get an
\* image sampler, which is updated by another task.
update_descriptor_set ==
  /\ pc = "descriptor_sets" /\ m_set_index < Sets
  /\ m_set_index' = m_set_index + 1 /\ m_have_lock' = FALSE
  /\ \E n \in {0, 1} : updating' = updating + n /\ updates' = updates + n
  /\ UNCHANGED <<pc, phase, to_signal, number, running, completed, counter, loop, woken, cache, pipelines, task_vars,
                 terminate, m_fill_index>>

wait_for_set_layout_binding_lock ==
  /\ pc = "descriptor_sets" /\ m_set_index < Sets /\ ~m_have_lock
  /\ pc' = "wait_for_lock" /\ m_have_lock' = TRUE
  /\ UNCHANGED <<phase, to_signal, number, running, completed, counter, loop, woken, update_vars, m_set_index, cache,
                 pipelines, task_vars, terminate, m_fill_index>>

\* obtained_set_layout_binding_lock is signalled by whoever unlocks it.
obtained_set_layout_binding_lock ==
  /\ pc = "wait_for_lock"
  /\ pc' = "descriptor_sets"
  /\ UNCHANGED <<phase, to_signal, number, running, completed, counter, loop, woken, update_vars, m_set_index,
                 m_have_lock, cache, pipelines, task_vars, terminate, m_fill_index>>

(* Mutant: signals the factory after every update. *)
descriptor_set_updated_each ==
  /\ updating' = updating - 1
  /\ woken' = IF pc # "wait_for_lock" THEN woken \cup {"updated"} ELSE woken

\* A signal to a factory that waits for something else is lost.
descriptor_set_updated ==
  /\ updating' = updating - 1
  /\ woken' = IF updating = 1 /\ pc # "wait_for_lock" THEN woken \cup {"updated"} ELSE woken

\* The destructor of DescriptorUpdateInfo, in another task.
combined_image_sampler_updated ==
  /\ updates > 0
  /\ updates' = updates - 1
  /\ descriptor_set_updated
  /\ UNCHANGED <<factory_vars, number, task_vars, terminate, m_fill_index>>

\* FlatCreateInfo::merge: the part of c for the current fill index is copied the first time.
Merged(c) == IF Slot(c) < Len(cache[c]) THEN cache[c] ELSE Append(cache[c], data[c])

create_pipeline ==
  /\ pc = "descriptor_sets" /\ m_set_index = Sets
  /\ descriptor_set_updated
  /\ cache' = [c \in Characteristics |-> Merged(c)]
  /\ pc' = "wait_for_updates"
  /\ UNCHANGED <<phase, to_signal, number, running, completed, counter, loop, updates, m_set_index, m_have_lock,
                 pipelines, task_vars, terminate, m_fill_index>>

---------------------------------------------------------------------------
(* The pipeline::Index: the bits of all values, next to each other. *)

bit_width(n) == CHOOSE w \in 0..n : n < 2^w /\ \A v \in 0..(w - 1) : 2^v <= n
range_width(c) == bit_width(End[c] - 1)

m_range_shift ==
  [c \in Characteristics |->
     LET shift[d \in 1..c] == IF d = 1 THEN 0 ELSE shift[d - 1] + range_width(d - 1) IN shift[c]]
Bits(n) == {b \in 0..n : (n \div 2^b) % 2 = 1}
pipeline_index == UNION {{m_range_shift[c] + b : b \in Bits(counter[c])} : c \in Characteristics}

move_new_pipeline ==
  /\ pc = "wait_for_updates" /\ "updated" \in woken
  /\ woken' = woken \ {"updated"}
  /\ pipelines' = Append(pipelines, [index |-> pipeline_index,
                                     parts |-> [c \in Characteristics |-> cache[c][Slot(c) + 1]]])
  /\ counter' = [counter EXCEPT ![N] = @ + 1]
  /\ pc' = "multiloop"
  /\ UNCHANGED <<phase, to_signal, number, running, completed, loop, update_vars, m_set_index, m_have_lock, cache,
                 task_vars, terminate, m_fill_index>>

(* Mutant: marks the loop that continues. *)
end_of_loop_outer ==
  /\ InLoop /\ counter[loop] >= End[loop]
  /\ completed' = IF loop > 1 THEN completed \cup {loop - 1} ELSE completed
  /\ counter' = IF loop > 1 THEN [counter EXCEPT ![loop - 1] = @ + 1] ELSE counter
  /\ loop' = loop - 1
  /\ UNCHANGED <<pc, phase, to_signal, number, running, woken, update_vars, m_set_index, m_have_lock, cache,
                 pipelines, task_vars, terminate, m_fill_index>>

\* PipelineFactory_bottom_multiloop_for_loop: all but the outer loop completed.
end_of_loop ==
  /\ InLoop /\ counter[loop] >= End[loop]
  /\ completed' = IF loop > 1 THEN completed \cup {loop} ELSE completed
  /\ counter' = IF loop > 1 THEN [counter EXCEPT ![loop - 1] = @ + 1] ELSE counter
  /\ loop' = loop - 1
  /\ UNCHANGED <<pc, phase, to_signal, number, running, woken, update_vars, m_set_index, m_have_lock, cache,
                 pipelines, task_vars, terminate, m_fill_index>>

\* finish_impl: every characteristic is told to terminate.
finish_impl ==
  /\ terminate' = TRUE
  /\ UNCHANGED <<phase, to_signal, number, running, completed, counter, loop, woken, update_vars, m_set_index,
                 m_have_lock, cache, pipelines, task_vars, m_fill_index>>

done ==
  /\ pc = "multiloop" /\ loop = 0
  /\ pc' = "done"
  /\ finish_impl

\* The window is closed while the factory is idle, or yields.
abort ==
  /\ pc \in {"wait", "wait_for_lock", "wait_for_updates"}
  /\ pc' = "aborted"
  /\ finish_impl

Factory ==
  \/ initialized \/ signal_task \/ characteristics_initialized \/ start_next_loop \/ begin_pipeline
  \/ characteristics_filled \/ characteristics_preprocessed \/ characteristics_compiled
  \/ update_descriptor_set \/ wait_for_set_layout_binding_lock \/ obtained_set_layout_binding_lock
  \/ create_pipeline \/ move_new_pipeline \/ end_of_loop \/ done

Next ==
  \/ Factory \/ abort \/ combined_image_sampler_updated
  \/ \E c \in Characteristics : Characteristic(c)

Spec == Init /\ [][Next]_vars

\* The thread pool runs every task that is not waiting.
FairSpec ==
  /\ Spec
  /\ WF_vars(Factory)
  /\ WF_vars(combined_image_sampler_updated)
  /\ \A c \in Characteristics : WF_vars(Characteristic(c))

---------------------------------------------------------------------------
(* Properties. *)

TypeOK ==
  /\ pc \in {"initialized", "signal", "wait", "multiloop", "descriptor_sets", "wait_for_lock", "wait_for_updates",
              "done", "aborted"}
  /\ phase \in {"initialize", "fill", "preprocess", "compile"}
  /\ to_signal \subseteq Characteristics /\ running \subseteq Characteristics /\ completed \subseteq Characteristics
  /\ number \in Nat /\ updating \in Nat /\ updates \in Nat
  /\ counter \in [Characteristics -> Nat] /\ loop \in 0..N
  /\ woken \subseteq {"initialize", "fill", "preprocess", "compile", "updated"}
  /\ m_set_index \in 0..Sets /\ m_have_lock \in BOOLEAN /\ terminate \in BOOLEAN
  /\ cache \in [Characteristics -> Seq(Int)] /\ data \in [Characteristics -> Int]
  /\ at \in [Characteristics -> {"new", "initialize", "fill", "preprocess", "compile", "realize_shaders", "done"}]
  /\ signals \in [Characteristics -> SUBSET {"fill", "preprocess", "compile"}]
  /\ m_fill_index \in [Characteristics -> Int]

\* The tasks that were counted for this phase and did not call back yet.
Busy ==
  IF phase = "initialize"
    THEN {c \in Characteristics : at[c] \in {"new", "initialize"}}
    ELSE to_signal \cup {c \in Characteristics : signals[c] # {} \/ at[c] = "realize_shaders"}

\* The shared counter is exactly the number of tasks that still have to call back, from
\* before the first of them is signalled until the last one did, and the factory is woken
\* up by the last one and by no other.
CountsTheBusy ==
  pc # "initialized" =>
    /\ number = Cardinality(Busy)
    /\ \A p \in woken \ {"updated"} : p = phase /\ Busy = {} /\ pc \in {"wait", "aborted"}
    /\ pc = "wait" /\ Busy = {} => phase \in woken

\* While the factory merges the parts, or changes the fill indices, no characteristic task
\* is using them; and each part is either in the cache or the next one to be added to it.
NobodyBusyWhenMerged ==
  /\ pc \in {"multiloop", "descriptor_sets", "wait_for_lock", "wait_for_updates", "done"} => Busy = {}
  /\ pc = "descriptor_sets" => \A c \in Characteristics : Slot(c) <= Len(cache[c])

\* A pipeline is handed over only after all its image samplers were updated; an update
\* of it never wakes the factory up during a later pipeline.
UpdatedBeforeUse ==
  /\ pc = "wait_for_updates" /\ "updated" \in woken => updates = 0
  /\ pc \in {"signal", "wait", "multiloop"} => updates = 0 /\ "updated" \notin woken

\* Every pipeline gets an index of its own.
IndicesUnique ==
  \A i, j \in 1..Len(pipelines) : i # j => pipelines[i].index # pipelines[j].index

\* One pipeline for every combination, in order, each with the parts of its own values.
EveryCombination == INSTANCE PipelineSequence WITH pipelines <- [i \in 1..Len(pipelines) |-> pipelines[i].parts]
ImplementsSequence == EveryCombination!Spec

\* Unless it is aborted, a factory creates all pipelines and finishes.
AllPipelinesCreated == <>(pc = "aborted" \/ (pc = "done" /\ EveryCombination!Missing = {}))

\* No characteristic task keeps running after its factory.
TasksTerminate == <>[](\A c \in Characteristics : at[c] = "done")
=========================================================================
