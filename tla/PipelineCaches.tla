------------------------- MODULE PipelineCaches -------------------------
(* Pipeline factories, the synchronous task that moves the pipelines of each of
   them to its window, and their pipeline caches: Application merges the caches
   of all factories of windows with the same pipeline_cache_name into that of
   the first factory that is done, which is written to disk after the last one.
   All windows here have the same pipeline_cache_name. *)
EXTENDS Sequences, FiniteSets, Integers

CONSTANTS Windows,
          PerWindow,      \* the number of factories of a window
          MaxPipelines,   \* bound on the number of pipelines of a factory
          ClosesEarly,    \* a window can be closed before the tasks of its factories start
          Files,          \* the state of the pipeline cache file before the program starts
          None            \* a null pointer

Factories == Windows \X (1..PerWindow)

ASSUME PipelineCachesAssumption ==
  /\ IsFiniteSet(Windows)
  /\ PerWindow \in Nat \ {0}
  /\ MaxPipelines \in Nat \ {0}
  /\ ClosesEarly \in BOOLEAN
  /\ Files \subseteq {"absent", "invalid", "valid"} /\ Files # {}
  /\ None \notin Factories /\ \A S \in SUBSET Factories : S # None

owning_window(f) == f[1]

VARIABLES
  window,             \* "new", "open", "closing" or "destructed"
  at,                 \* what the thread of a window is doing ...
  mover,              \* ... for the MoveNewPipelines task of which factory
  last_window,        \* a local of pipeline_factory_done
  factory,            \* the state of every PipelineFactory
  new_pipelines,      \* size of the deque of its MoveNewPipelines
  moved,              \* pipelines that were passed to have_new_pipeline
  no_more_pipelines,  \* m_producer_finished of MoveNewPipelines
  mover_action,       \* need_action was signalled to MoveNewPipelines
  cache,              \* the state of every PipelineCache
  m_pipeline_cache,   \* the factories of which it has the pipelines; None without handle
  m_new_data,         \* the caches that must be merged into it
  m_producer_finished,
  conditions,         \* what was signalled to it
  m_is_merger,
  merged_pipeline_cache, window_list,   \* PipelineCacheMerger
  file,               \* the pipeline cache file
  writers             \* the caches that have it open for writing

thread == <<at, mover, last_window>>
mover_vars == <<new_pipelines, moved, no_more_pipelines, mover_action>>
cache_vars == <<cache, m_pipeline_cache, m_new_data, m_producer_finished, conditions, m_is_merger>>
merger_vars == <<merged_pipeline_cache, window_list>>
file_vars == <<file, writers>>
vars == <<window, at, mover, last_window, factory, new_pipelines, moved, no_more_pipelines, mover_action,
          cache, m_pipeline_cache, m_new_data, m_producer_finished, conditions, m_is_merger,
          merged_pipeline_cache, window_list, file, writers>>

Init ==
  /\ window = [w \in Windows |-> "new"]
  /\ at = [w \in Windows |-> "mainloop"] /\ mover = [w \in Windows |-> None]
  /\ last_window = [w \in Windows |-> FALSE]
  /\ factory = [f \in Factories |-> "none"]
  /\ new_pipelines = [f \in Factories |-> 0] /\ moved = [f \in Factories |-> 0]
  /\ no_more_pipelines = [f \in Factories |-> FALSE]
  /\ mover_action = [f \in Factories |-> FALSE]
  /\ cache = [f \in Factories |-> "none"]
  /\ m_pipeline_cache = [f \in Factories |-> None]
  /\ m_new_data = [f \in Factories |-> <<>>]
  /\ m_producer_finished = [f \in Factories |-> FALSE]
  /\ conditions = [f \in Factories |-> {}]
  /\ m_is_merger = [f \in Factories |-> FALSE]
  /\ merged_pipeline_cache = None /\ window_list = <<>>
  /\ file \in Files /\ writers = {}

---------------------------------------------------------------------------
(* The window. *)

(* create_graphics_pipelines: create_pipeline_factory for every factory. *)
create_pipeline_factories(w) ==
  /\ window[w] = "new"
  /\ window' = [window EXCEPT ![w] = "open"]
  /\ factory' = [f \in Factories |-> IF owning_window(f) = w THEN "start" ELSE factory[f]]
  /\ window_list' = window_list \o [i \in 1..PerWindow |-> w]
  /\ UNCHANGED <<thread, mover_vars, cache_vars, merged_pipeline_cache, file_vars>>

close(w) ==
  /\ window[w] = "open" /\ at[w] = "mainloop"
  /\ ClosesEarly \/ \A f \in Factories : owning_window(f) = w => factory[f] # "start"
  /\ window' = [window EXCEPT ![w] = "closing"]
  /\ UNCHANGED <<thread, factory, mover_vars, cache_vars, merger_vars, file_vars>>

(* A PipelineCache exists until it finished and nothing points to it anymore. *)
Referenced(f) ==
  \/ cache[f] \notin {"none", "finished"}
  \/ cache[f] = "finished" /\ (merged_pipeline_cache = f \/ \E w \in Windows : mover[w] = f)

(* finish_impl waits for m_task_counter_gate: the caches of its factories. *)
Counted(f) == Referenced(f)

finish_impl(w) ==
  /\ window[w] = "closing" /\ at[w] = "mainloop"
  /\ \A f \in Factories : owning_window(f) = w => ~Counted(f)
  /\ window' = [window EXCEPT ![w] = "destructed"]
  /\ UNCHANGED <<thread, factory, mover_vars, cache_vars, merger_vars, file_vars>>

---------------------------------------------------------------------------
(* PipelineFactory. *)

(* PipelineFactory_start creates and runs the PipelineCache. *)
start(f) ==
  /\ factory[f] = "start"
  /\ factory' = [factory EXCEPT ![f] = "wait_cache"]
  /\ cache' = [cache EXCEPT ![f] = "initialize"]
  /\ UNCHANGED <<window, thread, mover_vars, m_pipeline_cache, m_new_data, m_producer_finished,
                 conditions, m_is_merger, merger_vars, file_vars>>

(* Mutant: MoveNewPipelines is not signalled. *)
have_new_pipeline_silent(f) ==
  /\ new_pipelines' = [new_pipelines EXCEPT ![f] = @ + 1]
  /\ UNCHANGED mover_action

(* A pipeline was created with the cache: have_new_datum of MoveNewPipelines. *)
have_new_pipeline(f) ==
  /\ new_pipelines' = [new_pipelines EXCEPT ![f] = @ + 1]
  /\ mover_action' = [mover_action EXCEPT ![f] = TRUE]

create_pipeline(f) ==
  /\ factory[f] = "creating" /\ new_pipelines[f] + moved[f] < MaxPipelines
  /\ m_pipeline_cache' = [m_pipeline_cache EXCEPT ![f] = @ \cup {f}]
  /\ have_new_pipeline(f)
  /\ UNCHANGED <<window, thread, factory, moved, no_more_pipelines, cache, m_new_data,
                 m_producer_finished, conditions, m_is_merger, merger_vars, file_vars>>

(* finish_impl: set_producer_finished of MoveNewPipelines. *)
finish(f) ==
  /\ factory[f] = "creating" /\ f \in m_pipeline_cache[f]
  /\ factory' = [factory EXCEPT ![f] = "finished"]
  /\ no_more_pipelines' = [no_more_pipelines EXCEPT ![f] = TRUE]
  /\ mover_action' = [mover_action EXCEPT ![f] = TRUE]
  /\ UNCHANGED <<window, thread, new_pipelines, moved, cache_vars, merger_vars, file_vars>>

---------------------------------------------------------------------------
(* MoveNewPipelines: synchronous, run by the thread of the window. *)

Goto(w, state) == at' = [at EXCEPT ![w] = state]

run_mover(w) ==
  /\ window[w] \in {"open", "closing"} /\ at[w] = "mainloop"
  /\ \E f \in Factories :
       /\ owning_window(f) = w /\ mover_action[f] /\ factory[f] # "deleted"
       /\ mover' = [mover EXCEPT ![w] = f]
       /\ mover_action' = [mover_action EXCEPT ![f] = FALSE]
  /\ Goto(w, "flush")
  /\ UNCHANGED <<window, last_window, factory, new_pipelines, moved, no_more_pipelines, cache_vars, merger_vars, file_vars>>

(* flush_new_data, until the deque is empty. *)
flush_pipelines(w) ==
  /\ at[w] = "flush"
  /\ LET f == mover[w]
     IN /\ moved' = [moved EXCEPT ![f] = @ + new_pipelines[f]]
        /\ new_pipelines' = [new_pipelines EXCEPT ![f] = 0]
  /\ Goto(w, "check")
  /\ UNCHANGED <<window, mover, last_window, factory, no_more_pipelines, mover_action, cache_vars, merger_vars, file_vars>>

(* producer_not_finished: wait for need_action. *)
wait_for_pipelines(w) ==
  /\ at[w] = "check" /\ ~no_more_pipelines[mover[w]]
  /\ Goto(w, "mainloop")
  /\ mover' = [mover EXCEPT ![w] = None]
  /\ UNCHANGED <<window, last_window, factory, mover_vars, cache_vars, merger_vars, file_vars>>

(* Mutant: the finished flag is not tested. *)
all_pipelines_always(w) ==
  /\ at[w] = "check"
  /\ Goto(w, "factory_done")
  /\ UNCHANGED <<window, mover, last_window, factory, mover_vars, cache_vars, merger_vars, file_vars>>

all_pipelines(w) ==
  /\ at[w] = "check" /\ no_more_pipelines[mover[w]]
  /\ Goto(w, "factory_done")
  /\ UNCHANGED <<window, mover, last_window, factory, mover_vars, cache_vars, merger_vars, file_vars>>

(* The window list without one occurrence of w. *)
Without(list, w) ==
  LET i == CHOOSE k \in DOMAIN list : list[k] = w /\ \A j \in 1..k-1 : list[j] # w
  IN SubSeq(list, 1, i-1) \o SubSeq(list, i+1, Len(list))

(* have_new_datum of the merger. *)
have_new_datum(f, datum) ==
  /\ m_new_data' = [m_new_data EXCEPT ![f] = Append(@, datum)]
  /\ conditions' = [conditions EXCEPT ![f] = @ \cup {"need_action"}]

(* The window drops its pointer: a factory that still runs is deleted later. *)
delete_factory(f) ==
  factory' = [factory EXCEPT ![f] = IF @ = "finished" THEN "deleted" ELSE @]

(* pipeline_factory_done, with m_pipeline_factory_list locked: the first cache
   becomes the merger, the handle of any other cache is passed to the merger. *)
first_factory_done(w) ==
  /\ at[w] = "factory_done" /\ merged_pipeline_cache = None
  /\ merged_pipeline_cache' = mover[w]
  /\ window_list' = Without(window_list, w)
  /\ last_window' = [last_window EXCEPT ![w] = window_list' = <<>>]
  /\ delete_factory(mover[w])
  /\ Goto(w, "set_is_merger")
  /\ UNCHANGED <<window, mover, mover_vars, cache_vars, file_vars>>

other_factory_done(w) ==
  /\ at[w] = "factory_done" /\ merged_pipeline_cache # None
  /\ have_new_datum(merged_pipeline_cache, m_pipeline_cache[mover[w]])
  /\ m_pipeline_cache' = [m_pipeline_cache EXCEPT ![mover[w]] = None]
  /\ window_list' = Without(window_list, w)
  /\ last_window' = [last_window EXCEPT ![w] = window_list' = <<>>]
  /\ delete_factory(mover[w])
  /\ Goto(w, "signal")
  /\ UNCHANGED <<window, mover, mover_vars, cache, m_producer_finished, m_is_merger,
                 merged_pipeline_cache, file_vars>>

(* Mutant: the first cache is not told that it is the merger. *)
set_is_merger_not(w) ==
  /\ at[w] = "set_is_merger"
  /\ Goto(w, "signal_merger")
  /\ UNCHANGED <<window, mover, last_window, factory, mover_vars, cache_vars, merger_vars, file_vars>>

(* After unlocking it. The merger is looked up in the PipelineCacheMerger again. *)
set_is_merger(w) ==
  /\ at[w] = "set_is_merger" /\ merged_pipeline_cache # None
  /\ m_is_merger' = [m_is_merger EXCEPT ![merged_pipeline_cache] = TRUE]
  /\ Goto(w, "signal_merger")
  /\ UNCHANGED <<window, mover, last_window, factory, mover_vars, cache, m_pipeline_cache, m_new_data,
                 m_producer_finished, conditions, merger_vars, file_vars>>

(* This wakes up the task that was idle since its factory could use it. *)
signal_factory_finished(w) ==
  /\ \/ /\ at[w] = "signal" /\ mover[w] # None
        /\ conditions' = [conditions EXCEPT ![mover[w]] = @ \cup {"factory_finished"}]
     \/ /\ at[w] = "signal_merger" /\ merged_pipeline_cache # None
        /\ conditions' = [conditions EXCEPT ![merged_pipeline_cache] = @ \cup {"factory_finished"}]
  /\ Goto(w, "last")
  /\ UNCHANGED <<window, mover, last_window, factory, mover_vars, cache, m_pipeline_cache, m_new_data,
                 m_producer_finished, m_is_merger, merger_vars, file_vars>>

Return(w) ==
  /\ Goto(w, "mainloop")
  /\ mover' = [mover EXCEPT ![w] = None]
  /\ last_window' = [last_window EXCEPT ![w] = FALSE]

not_last_window(w) ==
  /\ at[w] = "last" /\ ~last_window[w]
  /\ Return(w)
  /\ UNCHANGED <<window, factory, mover_vars, cache_vars, merger_vars, file_vars>>

set_producer_finished(f) ==
  /\ m_producer_finished' = [m_producer_finished EXCEPT ![f] = TRUE]
  /\ conditions' = [conditions EXCEPT ![f] = @ \cup {"need_action"}]

(* That was the last factory with this name: set_producer_finished of the merger. *)
merged_all(w) ==
  /\ at[w] = "last" /\ last_window[w] /\ merged_pipeline_cache # None
  /\ set_producer_finished(merged_pipeline_cache)
  /\ merged_pipeline_cache' = None
  /\ Return(w)
  /\ UNCHANGED <<window, factory, mover_vars, cache, m_pipeline_cache, m_new_data, m_is_merger,
                 window_list, file_vars>>

MainLoop(w) ==
  \/ finish_impl(w) \/ run_mover(w) \/ flush_pipelines(w) \/ wait_for_pipelines(w) \/ all_pipelines(w)
  \/ first_factory_done(w) \/ other_factory_done(w) \/ set_is_merger(w)
  \/ signal_factory_finished(w) \/ not_last_window(w) \/ merged_all(w)

Window(w) == create_pipeline_factories(w) \/ close(w) \/ MainLoop(w)

---------------------------------------------------------------------------
(* PipelineCache: run by the thread pool. *)

Set(f, state) == cache' = [cache EXCEPT ![f] = state]

(* PipelineCache_ready: the factory continues and creates its MoveNewPipelines. *)
ready(f) ==
  /\ Set(f, "factory_finished")
  /\ factory' = [factory EXCEPT ![f] = "creating"]

(* There is no file: an empty pipeline cache. *)
initialize_empty(f) ==
  /\ cache[f] = "initialize" /\ file = "absent"
  /\ m_pipeline_cache' = [m_pipeline_cache EXCEPT ![f] = {}]
  /\ ready(f)
  /\ UNCHANGED <<window, thread, mover_vars, m_new_data, m_producer_finished, conditions, m_is_merger,
                 merger_vars, file_vars>>

initialize(f) ==
  /\ cache[f] = "initialize" /\ file # "absent"
  /\ Set(f, "load_from_disk")
  /\ UNCHANGED <<window, thread, factory, mover_vars, m_pipeline_cache, m_new_data, m_producer_finished,
                 conditions, m_is_merger, merger_vars, file_vars>>

load_from_disk(f) ==
  /\ cache[f] = "load_from_disk" /\ file = "valid"
  /\ m_pipeline_cache' = [m_pipeline_cache EXCEPT ![f] = {}]
  /\ ready(f)
  /\ UNCHANGED <<window, thread, mover_vars, m_new_data, m_producer_finished, conditions, m_is_merger,
                 merger_vars, file_vars>>

load_failed(f) ==
  /\ cache[f] = "load_from_disk" /\ file # "valid"
  /\ Set(f, "remove")
  /\ UNCHANGED <<window, thread, factory, mover_vars, m_pipeline_cache, m_new_data, m_producer_finished,
                 conditions, m_is_merger, merger_vars, file_vars>>

(* The exception: remove the file and try again. *)
remove(f) ==
  /\ cache[f] = "remove"
  /\ file' = "absent" /\ writers' = {}
  /\ Set(f, "initialize")
  /\ UNCHANGED <<window, thread, factory, mover_vars, m_pipeline_cache, m_new_data, m_producer_finished,
                 conditions, m_is_merger, merger_vars>>

(* PipelineCache_factory_finished; with clear_cache and finish if it isn't the merger. *)
factory_finished(f) ==
  /\ cache[f] = "factory_finished" /\ "factory_finished" \in conditions[f]
  /\ conditions' = [conditions EXCEPT ![f] = @ \ {"factory_finished"}]
  /\ IF m_is_merger[f]
       THEN Set(f, "merge") /\ UNCHANGED m_pipeline_cache
       ELSE Set(f, "finished") /\ m_pipeline_cache' = [m_pipeline_cache EXCEPT ![f] = None]
  /\ UNCHANGED <<window, thread, factory, mover_vars, m_new_data, m_producer_finished, m_is_merger,
                 merger_vars, file_vars>>

Content(list) == UNION {list[i] : i \in DOMAIN list}

(* Mutant: what was passed is flushed, and not merged. *)
factory_merge_forgets(f) ==
  /\ cache[f] = "merge"
  /\ m_new_data' = [m_new_data EXCEPT ![f] = <<>>]
  /\ Set(f, "check")
  /\ UNCHANGED <<window, thread, factory, mover_vars, m_pipeline_cache, m_producer_finished, conditions,
                 m_is_merger, merger_vars, file_vars>>

(* PipelineCache_factory_merge: flush_new_data, merge_pipeline_caches. *)
factory_merge(f) ==
  /\ cache[f] = "merge"
  /\ m_pipeline_cache' = [m_pipeline_cache EXCEPT ![f] = @ \cup Content(m_new_data[f])]
  /\ m_new_data' = [m_new_data EXCEPT ![f] = <<>>]
  /\ Set(f, "check")
  /\ UNCHANGED <<window, thread, factory, mover_vars, m_producer_finished, conditions, m_is_merger,
                 merger_vars, file_vars>>

producer_not_finished(f) ==
  /\ cache[f] = "check" /\ ~m_producer_finished[f]
  /\ Set(f, "need_action")
  /\ UNCHANGED <<window, thread, factory, mover_vars, m_pipeline_cache, m_new_data, m_producer_finished,
                 conditions, m_is_merger, merger_vars, file_vars>>

need_action(f) ==
  /\ cache[f] = "need_action" /\ "need_action" \in conditions[f]
  /\ conditions' = [conditions EXCEPT ![f] = @ \ {"need_action"}]
  /\ Set(f, "merge")
  /\ UNCHANGED <<window, thread, factory, mover_vars, m_pipeline_cache, m_new_data, m_producer_finished,
                 m_is_merger, merger_vars, file_vars>>

(* PipelineCache_save_to_disk: opening the file truncates it ... *)
save_to_disk(f) ==
  /\ cache[f] = "check" /\ m_producer_finished[f]
  /\ file' = "invalid" /\ writers' = writers \cup {f}
  /\ Set(f, "save_to_disk")
  /\ UNCHANGED <<window, thread, factory, mover_vars, m_pipeline_cache, m_new_data, m_producer_finished,
                 conditions, m_is_merger, merger_vars>>

(* ... and it can be read when everything was written, unless two tasks were
   writing the same file. A file that was removed meanwhile is lost. Then
   clear_cache and finish. *)
saved(f) ==
  /\ cache[f] = "save_to_disk"
  /\ \/ writers = {f} /\ file' = "valid"
     \/ f \in writers /\ writers # {f} /\ file' = "invalid"
     \/ f \notin writers /\ UNCHANGED file
  /\ writers' = writers \ {f}
  /\ m_pipeline_cache' = [m_pipeline_cache EXCEPT ![f] = None]
  /\ Set(f, "finished")
  /\ UNCHANGED <<window, thread, factory, mover_vars, m_new_data, m_producer_finished, conditions,
                 m_is_merger, merger_vars>>

PipelineFactory(f) == start(f) \/ create_pipeline(f) \/ finish(f)

PipelineCache(f) ==
  \/ initialize_empty(f) \/ initialize(f) \/ load_from_disk(f) \/ load_failed(f) \/ remove(f)
  \/ factory_finished(f) \/ factory_merge(f) \/ producer_not_finished(f) \/ need_action(f)
  \/ save_to_disk(f) \/ saved(f)

Next ==
  \/ \E w \in Windows : Window(w)
  \/ \E f \in Factories : PipelineFactory(f) \/ PipelineCache(f)

Spec == Init /\ [][Next]_vars

(* Windows run their main loop, the thread pool runs its tasks, the user calls generate. *)
FairSpec ==
  /\ Spec
  /\ \A w \in Windows : WF_vars(MainLoop(w))
  /\ \A f \in Factories : WF_vars(start(f)) /\ WF_vars(create_pipeline(f) \/ finish(f)) /\ WF_vars(PipelineCache(f))

---------------------------------------------------------------------------
(* The type invariant. *)
TypeOK ==
  /\ window \in [Windows -> {"new", "open", "closing", "destructed"}]
  /\ at \in [Windows -> {"mainloop", "flush", "check", "factory_done", "set_is_merger", "signal",
                         "signal_merger", "last"}]
  /\ mover \in [Windows -> Factories \cup {None}]
  /\ factory \in [Factories -> {"none", "start", "wait_cache", "creating", "finished", "deleted"}]
  /\ cache \in [Factories -> {"none", "initialize", "load_from_disk", "remove", "factory_finished", "merge",
                              "check", "need_action", "save_to_disk", "finished"}]
  /\ \A f \in Factories :
       /\ m_pipeline_cache[f] = None \/ m_pipeline_cache[f] \subseteq Factories
       /\ new_pipelines[f] \in Nat /\ moved[f] \in Nat /\ new_pipelines[f] + moved[f] <= MaxPipelines
       /\ conditions[f] \subseteq {"factory_finished", "need_action"}
  /\ merged_pipeline_cache \in Factories \cup {None}
  /\ file \in {"absent", "invalid", "valid"}

(* A factory creates pipelines with a cache that exists and that nobody merges,
   detaches, saves or clears: access to it is "externally synchronized". *)
CacheExternallySynchronized ==
  \A f \in Factories :
    factory[f] = "creating" =>
      /\ cache[f] = "factory_finished" /\ conditions[f] = {} /\ m_pipeline_cache[f] # None
      /\ merged_pipeline_cache # f

(* The merger doesn't sleep when there is something to merge, or to save: a
   signal that comes while it is merging, or before it is the merger, isn't lost. *)
MergerAwake ==
  \A f \in Factories :
    cache[f] = "need_action" /\ "need_action" \notin conditions[f] =>
      m_new_data[f] = <<>> /\ ~m_producer_finished[f]

(* Likewise for MoveNewPipelines of every factory. *)
MoverAwake ==
  \A f \in Factories :
    factory[f] # "deleted" /\ ~mover_action[f] /\ (\A w \in Windows : mover[w] # f) =>
      new_pipelines[f] = 0 /\ ~no_more_pipelines[f]

(* With a single window: the cache file is only written when all factories that exist
   are done, by one merger, and that has the pipelines of each of them or, when they
   came after its last flush, still has them in its deque. *)
SavedLast ==
  \A f \in Factories : cache[f] = "save_to_disk" =>
    /\ writers = {f}
    /\ \A g \in Factories :
         \/ factory[g] = "none"
         \/ factory[g] = "deleted" /\ g \in m_pipeline_cache[f] \cup Content(m_new_data[f])

(* "We merged all pipeline caches. Now make it write to disk.": what is written has
   the pipelines of all factories. *)
MergedAll ==
  \A f, g \in Factories :
    cache[f] = "save_to_disk" /\ factory[g] = "deleted" => g \in m_pipeline_cache[f]

(* A window is only destructed when no cache of a factory of it exists: a cache
   points to its factory and that to the window. *)
DestructedLast ==
  \A f \in Factories : window[owning_window(f)] = "destructed" => ~Referenced(f)

(* Only a factory that starts when its window is destructed already has a cache after
   that: the window leaves none behind, and nothing takes up one that was finished. *)
LeftBehind(f) == window[owning_window(f)] = "destructed" /\ Referenced(f)
OnlyLateStarts ==
  [][\A f \in Factories :
       LeftBehind(f)' => LeftBehind(f) \/ (window[owning_window(f)] = "destructed" /\ start(f))]_vars

(* In the end there is a valid cache file. *)
EventuallySaved ==
  (\E f \in Factories : cache[f] # "none") ~> [](file = "valid")

(* A window that is closed is destructed. *)
CloseCompletes == \A w \in Windows : window[w] = "closing" ~> window[w] = "destructed"

(* TaskToTaskDeque: "After a call to this function, no more calls to
   have_new_datum will follow": all pipelines are passed to have_new_pipeline
   before MoveNewPipelines finishes. *)
PipelinesMoved == \A f \in Factories : factory[f] = "deleted" => new_pipelines[f] = 0

(* "pipeline_cache_task was moved to pipeline_cache_merger->merged_pipeline_cache". *)
MergerPresent ==
  \A w \in Windows : at[w] \in {"set_is_merger", "signal_merger"} => merged_pipeline_cache = mover[w]

(* "all PipelineFactory tasks are aborted before the owning window enters
   m_task_counter_gate.wait()": none can start after that. *)
FactoriesAborted ==
  \A f \in Factories : window[owning_window(f)] = "destructed" => factory[f] # "start"

(* "we should never get in state PipelineCache_load_from_disk when it doesn't exist". *)
LoadExists == \A f \in Factories : cache[f] \in {"load_from_disk", "remove"} => file # "absent"
=============================================================================
