---------------------- MODULE PipelineCachesProofs ----------------------
(* Proofs about PipelineCaches: for every number of windows, factories and pipelines
   the pipeline caches are used by one task at a time and nobody sleeps with work to
   do; with a single window the cache file is only written when all is done. *)
EXTENDS PipelineCaches, SequenceTheorems, FiniteSetTheorems, TLAPS

(* The types of all variables, more precise than TypeOK. *)
DataTypes ==
  /\ window \in [Windows -> {"new", "open", "closing", "destructed"}]
  /\ at \in [Windows -> {"mainloop", "flush", "check", "factory_done", "set_is_merger", "signal",
                         "signal_merger", "last"}]
  /\ mover \in [Windows -> Factories \cup {None}]
  /\ last_window \in [Windows -> BOOLEAN]
  /\ factory \in [Factories -> {"none", "start", "wait_cache", "creating", "finished", "deleted"}]
  /\ new_pipelines \in [Factories -> Nat] /\ moved \in [Factories -> Nat]
  /\ no_more_pipelines \in [Factories -> BOOLEAN] /\ mover_action \in [Factories -> BOOLEAN]
  /\ cache \in [Factories -> {"none", "initialize", "load_from_disk", "remove", "factory_finished", "merge",
                              "check", "need_action", "save_to_disk", "finished"}]
  /\ m_pipeline_cache \in [Factories -> (SUBSET Factories) \cup {None}]
  /\ m_new_data \in [Factories -> Seq(SUBSET Factories)]
  /\ m_producer_finished \in [Factories -> BOOLEAN] /\ m_is_merger \in [Factories -> BOOLEAN]
  /\ conditions \in [Factories -> SUBSET {"factory_finished", "need_action"}]
  /\ merged_pipeline_cache \in Factories \cup {None}
  /\ file \in {"absent", "invalid", "valid"}

(* The bound that create_pipeline keeps. *)
Bounded == \A f \in Factories : new_pipelines[f] + moved[f] <= MaxPipelines

(* The thread of a window runs pipeline_factory_done for one of its own factories,
   that is finished, and deleted from the point where it left the list. After a flush
   of the deque, what is in it was announced by a signal. *)
Movers ==
  \A w \in Windows :
    /\ at[w] = "mainloop" <=> mover[w] = None
    /\ mover[w] # None => mover[w] \in Factories /\ owning_window(mover[w]) = w
    /\ at[w] # "mainloop" => window[w] \in {"open", "closing"}
    /\ at[w] \in {"flush", "check"} => factory[mover[w]] \in {"creating", "finished"}
    /\ at[w] = "factory_done" => factory[mover[w]] = "finished"
    /\ at[w] \in {"set_is_merger", "signal", "signal_merger", "last"} => factory[mover[w]] = "deleted"
    /\ at[w] = "check" => new_pipelines[mover[w]] = 0 \/ mover_action[mover[w]]

(* How far a factory and its cache got, relative to each other. *)
Lifecycle ==
  \A f \in Factories :
    /\ no_more_pipelines[f] <=> factory[f] \in {"finished", "deleted"}
    /\ factory[f] \in {"none", "start", "wait_cache"} => new_pipelines[f] = 0 /\ ~mover_action[f]
    /\ factory[f] \in {"none", "start"} <=> cache[f] = "none"
    /\ factory[f] = "wait_cache" <=> cache[f] \in {"initialize", "load_from_disk", "remove"}
    /\ factory[f] = "none" <=> window[owning_window(f)] = "new"
    /\ factory[f] \in {"creating", "finished"} => cache[f] = "factory_finished" /\ m_pipeline_cache[f] # None

(* Nothing is asked of the cache of a factory that isn't done. *)
Untouched ==
  \A f \in Factories : factory[f] # "deleted" =>
    /\ conditions[f] = {} /\ m_new_data[f] = <<>> /\ ~m_producer_finished[f]
    /\ merged_pipeline_cache # f /\ ~m_is_merger[f]

(* The handle of a merger isn't handed over to another one, ... *)
Handles ==
  \A f \in Factories :
    /\ cache[f] \in {"merge", "check", "need_action", "save_to_disk"} => m_pipeline_cache[f] # None
    /\ m_is_merger[f] \/ merged_pipeline_cache = f => cache[f] = "finished" \/ m_pipeline_cache[f] # None

(* ... and a merger with something to do has been, or will be, signalled. *)
Awake ==
  \A f \in Factories :
    /\ m_new_data[f] # <<>> => "need_action" \in conditions[f] \/ cache[f] = "merge"
    /\ m_producer_finished[f] => "need_action" \in conditions[f] \/ cache[f] # "need_action"

IInv == DataTypes /\ Bounded /\ Movers /\ Lifecycle /\ Untouched /\ Handles /\ Awake /\ MoverAwake

(* The null pointer is neither a factory nor a pipeline cache. *)
LEMMA NoPointer == None \notin Factories /\ \A S \in SUBSET Factories : S # None
BY PipelineCachesAssumption

(* A factory belongs to a window. *)
LEMMA Owner == \A f \in Factories : owning_window(f) \in Windows
BY DEF Factories, owning_window

---------------------------------------------------------------------------
(* Every step preserves IInv: first those of the thread of a window ... *)

LEMMA Step_create_pipeline_factories ==
  ASSUME IInv, NEW w \in Windows, create_pipeline_factories(w)
  PROVE  IInv'
<1> USE DEF IInv, create_pipeline_factories, thread, mover_vars, cache_vars, file_vars
<1>1. DataTypes'
  BY DEF DataTypes
<1>2. Bounded'
  BY DEF Bounded
<1>3. Movers'
  BY DEF Movers
<1>4. Lifecycle'
  BY DEF Lifecycle, DataTypes
<1>5. Untouched'
  BY DEF Untouched, Lifecycle
<1>6. Handles'
  BY DEF Handles
<1>7. Awake'
  BY DEF Awake
<1>8. MoverAwake'
  BY DEF MoverAwake, Lifecycle
<1> QED
  BY <1>1, <1>2, <1>3, <1>4, <1>5, <1>6, <1>7, <1>8

LEMMA Step_close ==
  ASSUME IInv, NEW w \in Windows, close(w)
  PROVE  IInv'
<1> USE DEF IInv, close, thread, mover_vars, cache_vars, merger_vars, file_vars
<1>1. DataTypes'
  BY DEF DataTypes
<1>2. Bounded'
  BY DEF Bounded
<1>3. Movers'
  BY DEF Movers
<1>4. Lifecycle'
  BY DEF Lifecycle
<1>5. Untouched'
  BY DEF Untouched
<1>6. Handles'
  BY DEF Handles
<1>7. Awake'
  BY DEF Awake
<1>8. MoverAwake'
  BY DEF MoverAwake
<1> QED
  BY <1>1, <1>2, <1>3, <1>4, <1>5, <1>6, <1>7, <1>8

LEMMA Step_finish_impl ==
  ASSUME IInv, NEW w \in Windows, finish_impl(w)
  PROVE  IInv'
<1> USE DEF IInv, finish_impl, thread, mover_vars, cache_vars, merger_vars, file_vars, Counted, Referenced
<1>1. DataTypes'
  BY DEF DataTypes
<1>2. Bounded'
  BY DEF Bounded
<1>3. Movers'
  BY DEF Movers
<1>4. Lifecycle'
  BY DEF Lifecycle
<1>5. Untouched'
  BY DEF Untouched
<1>6. Handles'
  BY DEF Handles
<1>7. Awake'
  BY DEF Awake
<1>8. MoverAwake'
  BY DEF MoverAwake
<1> QED
  BY <1>1, <1>2, <1>3, <1>4, <1>5, <1>6, <1>7, <1>8

LEMMA Step_run_mover ==
  ASSUME IInv, NEW w \in Windows, run_mover(w)
  PROVE  IInv'
<1> USE DEF IInv, run_mover, cache_vars, merger_vars, file_vars, Goto
<1>1. DataTypes'
  BY DEF DataTypes
<1>2. Bounded'
  BY DEF Bounded
<1>3. Movers'
  BY NoPointer DEF Movers, DataTypes, Lifecycle
<1>4. Lifecycle'
  BY DEF Lifecycle
<1>5. Untouched'
  BY DEF Untouched
<1>6. Handles'
  BY DEF Handles
<1>7. Awake'
  BY DEF Awake
<1>8. MoverAwake'
  BY NoPointer DEF MoverAwake, DataTypes, Movers
<1> QED
  BY <1>1, <1>2, <1>3, <1>4, <1>5, <1>6, <1>7, <1>8

LEMMA Step_flush_pipelines ==
  ASSUME IInv, NEW w \in Windows, flush_pipelines(w)
  PROVE  IInv'
<1> USE DEF IInv, flush_pipelines, cache_vars, merger_vars, file_vars, Goto
<1>1. DataTypes'
  BY DEF DataTypes, Movers
<1>2. Bounded'
  BY DEF Bounded, DataTypes
<1>3. Movers'
  BY DEF Movers, DataTypes
<1>4. Lifecycle'
  BY DEF Lifecycle
<1>5. Untouched'
  BY DEF Untouched
<1>6. Handles'
  BY DEF Handles
<1>7. Awake'
  BY DEF Awake
<1>8. MoverAwake'
  BY DEF MoverAwake
<1> QED
  BY <1>1, <1>2, <1>3, <1>4, <1>5, <1>6, <1>7, <1>8

LEMMA Step_wait_for_pipelines ==
  ASSUME IInv, NEW w \in Windows, wait_for_pipelines(w)
  PROVE  IInv'
<1> USE DEF IInv, wait_for_pipelines, mover_vars, cache_vars, merger_vars, file_vars, Goto
<1>1. DataTypes'
  BY DEF DataTypes
<1>2. Bounded'
  BY DEF Bounded
<1>3. Movers'
  BY DEF Movers, DataTypes
<1>4. Lifecycle'
  BY DEF Lifecycle
<1>5. Untouched'
  BY DEF Untouched
<1>6. Handles'
  BY DEF Handles
<1>7. Awake'
  BY DEF Awake
<1>8. MoverAwake'
  BY DEF MoverAwake, Movers
<1> QED
  BY <1>1, <1>2, <1>3, <1>4, <1>5, <1>6, <1>7, <1>8

LEMMA Step_all_pipelines ==
  ASSUME IInv, NEW w \in Windows, all_pipelines(w)
  PROVE  IInv'
<1> USE DEF IInv, all_pipelines, mover_vars, cache_vars, merger_vars, file_vars, Goto
<1>1. DataTypes'
  BY DEF DataTypes
<1>2. Bounded'
  BY DEF Bounded
<1>3. Movers'
  BY DEF Movers, Lifecycle
<1>4. Lifecycle'
  BY DEF Lifecycle
<1>5. Untouched'
  BY DEF Untouched
<1>6. Handles'
  BY DEF Handles
<1>7. Awake'
  BY DEF Awake
<1>8. MoverAwake'
  BY DEF MoverAwake
<1> QED
  BY <1>1, <1>2, <1>3, <1>4, <1>5, <1>6, <1>7, <1>8

LEMMA Step_first_factory_done ==
  ASSUME IInv, NEW w \in Windows, first_factory_done(w)
  PROVE  IInv'
<1> USE DEF IInv, first_factory_done, mover_vars, cache_vars, file_vars, Goto, delete_factory
<1>1. DataTypes'
  BY DEF DataTypes
<1>2. Bounded'
  BY DEF Bounded
<1>3. Movers'
  BY DEF Movers, DataTypes
<1>4. Lifecycle'
  BY DEF Lifecycle
<1>5. Untouched'
  BY DEF Untouched, DataTypes, Movers
<1>6. Handles'
  BY DEF Handles, Movers, Lifecycle
<1>7. Awake'
  BY DEF Awake
<1>8. MoverAwake'
  BY DEF MoverAwake
<1> QED
  BY <1>1, <1>2, <1>3, <1>4, <1>5, <1>6, <1>7, <1>8

LEMMA Step_other_factory_done ==
  ASSUME IInv, NEW w \in Windows, other_factory_done(w)
  PROVE  IInv'
<1> USE DEF IInv, other_factory_done, mover_vars, file_vars, Goto, have_new_datum, delete_factory
<1>1. DataTypes'
  <2>1. mover[w] \in Factories /\ m_pipeline_cache[mover[w]] \in SUBSET Factories
    BY DEF DataTypes, Movers, Lifecycle
  <2>2. m_new_data' \in [Factories -> Seq(SUBSET Factories)]
    BY <2>1 DEF DataTypes
  <2>3. m_pipeline_cache' \in [Factories -> (SUBSET Factories) \cup {None}]
    BY DEF DataTypes
  <2>4. conditions' \in [Factories -> SUBSET {"factory_finished", "need_action"}]
    BY DEF DataTypes
  <2> QED
    BY <2>2, <2>3, <2>4 DEF DataTypes
<1>2. Bounded'
  BY DEF Bounded
<1>3. Movers'
  BY DEF Movers, DataTypes
<1>4. Lifecycle'
  BY DEF Lifecycle, DataTypes, Movers
<1>5. Untouched'
  BY DEF Untouched
<1>6. Handles'
  BY DEF Handles, Movers, Lifecycle, Untouched
<1>7. Awake'
  BY DEF Awake, DataTypes
<1>8. MoverAwake'
  BY DEF MoverAwake
<1> QED
  BY <1>1, <1>2, <1>3, <1>4, <1>5, <1>6, <1>7, <1>8

LEMMA Step_set_is_merger ==
  ASSUME IInv, NEW w \in Windows, set_is_merger(w)
  PROVE  IInv'
<1> USE DEF IInv, set_is_merger, mover_vars, merger_vars, file_vars, Goto
<1>1. DataTypes'
  BY DEF DataTypes
<1>2. Bounded'
  BY DEF Bounded
<1>3. Movers'
  BY DEF Movers
<1>4. Lifecycle'
  BY DEF Lifecycle
<1>5. Untouched'
  BY DEF Untouched
<1>6. Handles'
  BY DEF Handles
<1>7. Awake'
  BY DEF Awake
<1>8. MoverAwake'
  BY DEF MoverAwake
<1> QED
  BY <1>1, <1>2, <1>3, <1>4, <1>5, <1>6, <1>7, <1>8

LEMMA Step_signal_factory_finished ==
  ASSUME IInv, NEW w \in Windows, signal_factory_finished(w)
  PROVE  IInv'
<1> USE DEF IInv, signal_factory_finished, mover_vars, merger_vars, file_vars, Goto
<1>0. PICK f \in Factories : conditions' = [conditions EXCEPT ![f] = @ \cup {"factory_finished"}]
  <2>1. CASE at[w] = "signal" /\ mover[w] # None
    BY ZenonT(30), <2>1 DEF DataTypes
  <2>2. CASE at[w] = "signal_merger" /\ merged_pipeline_cache # None
    BY <2>2 DEF DataTypes
  <2> QED
    BY <2>1, <2>2
<1>1. DataTypes'
  <2>1. conditions' \in [Factories -> SUBSET {"factory_finished", "need_action"}]
    BY <1>0 DEF DataTypes
  <2> QED
    BY <2>1 DEF DataTypes
<1>2. Bounded'
  BY DEF Bounded
<1>3. Movers'
  BY DEF Movers
<1>4. Lifecycle'
  BY DEF Lifecycle
<1>5. Untouched'
  BY DEF Untouched, DataTypes, Movers
<1>6. Handles'
  BY DEF Handles
<1>7. Awake'
  <2>1. \A g \in Factories : conditions[g] \subseteq conditions'[g]
    BY <1>0 DEF DataTypes
  <2> QED
    BY <2>1 DEF Awake
<1>8. MoverAwake'
  BY DEF MoverAwake
<1> QED
  BY <1>1, <1>2, <1>3, <1>4, <1>5, <1>6, <1>7, <1>8

LEMMA Step_not_last_window ==
  ASSUME IInv, NEW w \in Windows, not_last_window(w)
  PROVE  IInv'
<1> USE DEF IInv, not_last_window, mover_vars, cache_vars, merger_vars, file_vars, Return, Goto
<1>1. DataTypes'
  BY DEF DataTypes
<1>2. Bounded'
  BY DEF Bounded
<1>3. Movers'
  BY DEF Movers, DataTypes
<1>4. Lifecycle'
  BY DEF Lifecycle
<1>5. Untouched'
  BY DEF Untouched
<1>6. Handles'
  BY DEF Handles
<1>7. Awake'
  BY DEF Awake
<1>8. MoverAwake'
  BY DEF MoverAwake, Movers
<1> QED
  BY <1>1, <1>2, <1>3, <1>4, <1>5, <1>6, <1>7, <1>8

LEMMA Step_merged_all ==
  ASSUME IInv, NEW w \in Windows, merged_all(w)
  PROVE  IInv'
<1> USE DEF IInv, merged_all, mover_vars, file_vars, Return, set_producer_finished, Goto
<1>1. DataTypes'
  BY DEF DataTypes
<1>2. Bounded'
  BY DEF Bounded
<1>3. Movers'
  BY DEF Movers, DataTypes
<1>4. Lifecycle'
  BY DEF Lifecycle
<1>5. Untouched'
  BY NoPointer DEF Untouched
<1>6. Handles'
  BY NoPointer DEF Handles
<1>7. Awake'
  BY DEF Awake, DataTypes
<1>8. MoverAwake'
  BY DEF MoverAwake, Movers
<1> QED
  BY <1>1, <1>2, <1>3, <1>4, <1>5, <1>6, <1>7, <1>8

(* ... then those of the factories and the caches. *)

LEMMA Step_start ==
  ASSUME IInv, NEW f \in Factories, start(f)
  PROVE  IInv'
<1> USE DEF IInv, start, thread, mover_vars, merger_vars, file_vars
<1>1. DataTypes'
  BY DEF DataTypes
<1>2. Bounded'
  BY DEF Bounded
<1>3. Movers'
  BY DEF Movers
<1>4. Lifecycle'
  BY DEF Lifecycle, DataTypes
<1>5. Untouched'
  BY DEF Untouched
<1>6. Handles'
  BY DEF Handles, Untouched
<1>7. Awake'
  BY DEF Awake, Untouched
<1>8. MoverAwake'
  BY DEF MoverAwake
<1> QED
  BY <1>1, <1>2, <1>3, <1>4, <1>5, <1>6, <1>7, <1>8

LEMMA Step_create_pipeline ==
  ASSUME IInv, NEW f \in Factories, create_pipeline(f)
  PROVE  IInv'
<1> USE DEF IInv, create_pipeline, thread, merger_vars, file_vars, have_new_pipeline
<1>1. DataTypes'
  <2>1. m_pipeline_cache[f] \cup {f} \in SUBSET Factories
    BY DEF DataTypes, Lifecycle
  <2>2. m_pipeline_cache' \in [Factories -> (SUBSET Factories) \cup {None}]
    BY <2>1 DEF DataTypes
  <2> QED
    BY <2>2 DEF DataTypes
<1>2. Bounded'
  <2> SUFFICES ASSUME NEW g \in Factories PROVE new_pipelines'[g] + moved'[g] <= MaxPipelines
    BY DEF Bounded
  <2>1. new_pipelines[f] \in Nat /\ moved[f] \in Nat /\ new_pipelines[f] + moved[f] < MaxPipelines
    BY DEF DataTypes
  <2>2. CASE g = f
    <3>1. new_pipelines'[g] = new_pipelines[f] + 1 /\ moved'[g] = moved[f]
      BY <2>2 DEF DataTypes
    <3> QED
      BY <2>1, <3>1, PipelineCachesAssumption
  <2>3. CASE g # f
    BY <2>3 DEF Bounded, DataTypes
  <2> QED
    BY <2>2, <2>3
<1>3. Movers'
  BY DEF Movers, DataTypes
<1>4. Lifecycle'
  <2>1. m_pipeline_cache[f] \cup {f} \in SUBSET Factories
    BY NoPointer DEF DataTypes, Lifecycle
  <2>2. m_pipeline_cache[f] \cup {f} # None
    BY <2>1, NoPointer
  <2> QED
    BY <2>2 DEF Lifecycle, DataTypes
<1>5. Untouched'
  BY DEF Untouched
<1>6. Handles'
  BY DEF Handles, Lifecycle, Untouched
<1>7. Awake'
  BY DEF Awake
<1>8. MoverAwake'
  BY DEF MoverAwake, DataTypes
<1> QED
  BY <1>1, <1>2, <1>3, <1>4, <1>5, <1>6, <1>7, <1>8

LEMMA Step_finish ==
  ASSUME IInv, NEW f \in Factories, finish(f)
  PROVE  IInv'
<1> USE DEF IInv, finish, thread, cache_vars, merger_vars, file_vars
<1>1. DataTypes'
  BY DEF DataTypes
<1>2. Bounded'
  BY DEF Bounded
<1>3. Movers'
  BY DEF Movers
<1>4. Lifecycle'
  BY DEF Lifecycle, DataTypes
<1>5. Untouched'
  BY DEF Untouched
<1>6. Handles'
  BY DEF Handles
<1>7. Awake'
  BY DEF Awake
<1>8. MoverAwake'
  BY DEF MoverAwake, DataTypes
<1> QED
  BY <1>1, <1>2, <1>3, <1>4, <1>5, <1>6, <1>7, <1>8

LEMMA Step_initialize_empty ==
  ASSUME IInv, NEW f \in Factories, initialize_empty(f)
  PROVE  IInv'
<1> USE DEF IInv, initialize_empty, thread, mover_vars, merger_vars, file_vars, ready, Set
<1>1. DataTypes'
  BY DEF DataTypes
<1>2. Bounded'
  BY DEF Bounded
<1>3. Movers'
  BY DEF Movers, Lifecycle
<1>4. Lifecycle'
  BY NoPointer DEF Lifecycle, DataTypes
<1>5. Untouched'
  BY DEF Untouched, Lifecycle
<1>6. Handles'
  BY DEF Handles, Lifecycle, Untouched
<1>7. Awake'
  BY DEF Awake
<1>8. MoverAwake'
  BY DEF MoverAwake, Lifecycle
<1> QED
  BY <1>1, <1>2, <1>3, <1>4, <1>5, <1>6, <1>7, <1>8

LEMMA Step_initialize ==
  ASSUME IInv, NEW f \in Factories, initialize(f)
  PROVE  IInv'
<1> USE DEF IInv, initialize, thread, mover_vars, merger_vars, file_vars, Set
<1>1. DataTypes'
  BY DEF DataTypes
<1>2. Bounded'
  BY DEF Bounded
<1>3. Movers'
  BY DEF Movers
<1>4. Lifecycle'
  BY DEF Lifecycle
<1>5. Untouched'
  BY DEF Untouched
<1>6. Handles'
  BY DEF Handles
<1>7. Awake'
  BY DEF Awake
<1>8. MoverAwake'
  BY DEF MoverAwake
<1> QED
  BY <1>1, <1>2, <1>3, <1>4, <1>5, <1>6, <1>7, <1>8

LEMMA Step_load_from_disk ==
  ASSUME IInv, NEW f \in Factories, load_from_disk(f)
  PROVE  IInv'
<1> USE DEF IInv, load_from_disk, thread, mover_vars, merger_vars, file_vars, ready, Set
<1>1. DataTypes'
  BY DEF DataTypes
<1>2. Bounded'
  BY DEF Bounded
<1>3. Movers'
  BY DEF Movers, Lifecycle
<1>4. Lifecycle'
  BY NoPointer DEF Lifecycle, DataTypes
<1>5. Untouched'
  BY DEF Untouched, Lifecycle
<1>6. Handles'
  BY DEF Handles, Lifecycle, Untouched
<1>7. Awake'
  BY DEF Awake
<1>8. MoverAwake'
  BY DEF MoverAwake, Lifecycle
<1> QED
  BY <1>1, <1>2, <1>3, <1>4, <1>5, <1>6, <1>7, <1>8

LEMMA Step_load_failed ==
  ASSUME IInv, NEW f \in Factories, load_failed(f)
  PROVE  IInv'
<1> USE DEF IInv, load_failed, thread, mover_vars, merger_vars, file_vars, Set
<1>1. DataTypes'
  BY DEF DataTypes
<1>2. Bounded'
  BY DEF Bounded
<1>3. Movers'
  BY DEF Movers
<1>4. Lifecycle'
  BY DEF Lifecycle
<1>5. Untouched'
  BY DEF Untouched
<1>6. Handles'
  BY DEF Handles
<1>7. Awake'
  BY DEF Awake
<1>8. MoverAwake'
  BY DEF MoverAwake
<1> QED
  BY <1>1, <1>2, <1>3, <1>4, <1>5, <1>6, <1>7, <1>8

LEMMA Step_remove ==
  ASSUME IInv, NEW f \in Factories, remove(f)
  PROVE  IInv'
<1> USE DEF IInv, remove, thread, mover_vars, merger_vars, Set
<1>1. DataTypes'
  BY DEF DataTypes
<1>2. Bounded'
  BY DEF Bounded
<1>3. Movers'
  BY DEF Movers
<1>4. Lifecycle'
  BY DEF Lifecycle
<1>5. Untouched'
  BY DEF Untouched
<1>6. Handles'
  BY DEF Handles
<1>7. Awake'
  BY DEF Awake
<1>8. MoverAwake'
  BY DEF MoverAwake
<1> QED
  BY <1>1, <1>2, <1>3, <1>4, <1>5, <1>6, <1>7, <1>8

LEMMA Step_factory_finished ==
  ASSUME IInv, NEW f \in Factories, factory_finished(f)
  PROVE  IInv'
<1> USE DEF IInv, factory_finished, thread, mover_vars, merger_vars, file_vars, Set
<1>1. DataTypes'
  <2>1. \/ cache' = [cache EXCEPT ![f] = "merge"] /\ m_pipeline_cache' = m_pipeline_cache
        \/ /\ cache' = [cache EXCEPT ![f] = "finished"]
           /\ m_pipeline_cache' = [m_pipeline_cache EXCEPT ![f] = None]
    OBVIOUS
  <2>2. m_pipeline_cache' \in [Factories -> (SUBSET Factories) \cup {None}]
    BY <2>1 DEF DataTypes
  <2>3. conditions' \in [Factories -> SUBSET {"factory_finished", "need_action"}]
    BY DEF DataTypes
  <2> QED
    BY <2>1, <2>2, <2>3 DEF DataTypes
<1>2. Bounded'
  BY DEF Bounded
<1>3. Movers'
  BY DEF Movers
<1>4. Lifecycle'
  BY DEF Lifecycle, DataTypes, Untouched
<1>5. Untouched'
  BY DEF Untouched
<1>6. Handles'
  BY DEF Handles, DataTypes
<1>7. Awake'
  BY DEF Awake, DataTypes
<1>8. MoverAwake'
  BY DEF MoverAwake
<1> QED
  BY <1>1, <1>2, <1>3, <1>4, <1>5, <1>6, <1>7, <1>8

LEMMA Step_factory_merge ==
  ASSUME IInv, NEW f \in Factories, factory_merge(f)
  PROVE  IInv'
<1> USE DEF IInv, factory_merge, thread, mover_vars, merger_vars, file_vars, Set
<1> DEFINE Merged == m_pipeline_cache[f] \cup Content(m_new_data[f])
<1>0. Merged \in SUBSET Factories
  <2>1. m_pipeline_cache[f] \in SUBSET Factories
    BY DEF DataTypes, Handles
  <2>2. \A i \in DOMAIN m_new_data[f] : m_new_data[f][i] \in SUBSET Factories
    BY ElementOfSeq DEF DataTypes
  <2>3. Content(m_new_data[f]) \in SUBSET Factories
    BY <2>2 DEF Content
  <2> QED
    BY <2>1, <2>3
<1>1. DataTypes'
  <2>1. Merged \in SUBSET Factories
    BY <1>0
  <2>2. m_pipeline_cache' \in [Factories -> (SUBSET Factories) \cup {None}]
    BY <2>1 DEF DataTypes
  <2>3. m_new_data' \in [Factories -> Seq(SUBSET Factories)]
    <3> <<>> \in Seq(SUBSET Factories)
      OBVIOUS
    <3> QED
      BY DEF DataTypes
  <2>4. cache' \in [Factories -> {"none", "initialize", "load_from_disk", "remove", "factory_finished", "merge",
                                  "check", "need_action", "save_to_disk", "finished"}]
    BY DEF DataTypes
  <2> QED
    BY <2>2, <2>3, <2>4 DEF DataTypes
<1>2. Bounded'
  BY DEF Bounded
<1>3. Movers'
  BY DEF Movers
<1>4. Lifecycle'
  BY DEF Lifecycle
<1>5. Untouched'
  BY DEF Untouched
<1>6. Handles'
  <2>1. Merged \in SUBSET Factories /\ Merged # None
    BY <1>0, NoPointer
  <2> QED
    BY <2>1 DEF Handles, DataTypes
<1>7. Awake'
  BY DEF Awake, DataTypes
<1>8. MoverAwake'
  BY DEF MoverAwake
<1> QED
  BY <1>1, <1>2, <1>3, <1>4, <1>5, <1>6, <1>7, <1>8

LEMMA Step_producer_not_finished ==
  ASSUME IInv, NEW f \in Factories, producer_not_finished(f)
  PROVE  IInv'
<1> USE DEF IInv, producer_not_finished, thread, mover_vars, merger_vars, file_vars, Set
<1>1. DataTypes'
  BY DEF DataTypes
<1>2. Bounded'
  BY DEF Bounded
<1>3. Movers'
  BY DEF Movers
<1>4. Lifecycle'
  BY DEF Lifecycle
<1>5. Untouched'
  BY DEF Untouched
<1>6. Handles'
  BY DEF Handles
<1>7. Awake'
  BY DEF Awake
<1>8. MoverAwake'
  BY DEF MoverAwake
<1> QED
  BY <1>1, <1>2, <1>3, <1>4, <1>5, <1>6, <1>7, <1>8

LEMMA Step_need_action ==
  ASSUME IInv, NEW f \in Factories, need_action(f)
  PROVE  IInv'
<1> USE DEF IInv, need_action, thread, mover_vars, merger_vars, file_vars, Set
<1>1. DataTypes'
  BY DEF DataTypes
<1>2. Bounded'
  BY DEF Bounded
<1>3. Movers'
  BY DEF Movers
<1>4. Lifecycle'
  BY DEF Lifecycle
<1>5. Untouched'
  BY DEF Untouched
<1>6. Handles'
  BY DEF Handles
<1>7. Awake'
  BY DEF Awake, DataTypes
<1>8. MoverAwake'
  BY DEF MoverAwake
<1> QED
  BY <1>1, <1>2, <1>3, <1>4, <1>5, <1>6, <1>7, <1>8

LEMMA Step_save_to_disk ==
  ASSUME IInv, NEW f \in Factories, save_to_disk(f)
  PROVE  IInv'
<1> USE DEF IInv, save_to_disk, thread, mover_vars, merger_vars, Set
<1>1. DataTypes'
  BY DEF DataTypes
<1>2. Bounded'
  BY DEF Bounded
<1>3. Movers'
  BY DEF Movers
<1>4. Lifecycle'
  BY DEF Lifecycle
<1>5. Untouched'
  BY DEF Untouched
<1>6. Handles'
  BY DEF Handles
<1>7. Awake'
  BY DEF Awake
<1>8. MoverAwake'
  BY DEF MoverAwake
<1> QED
  BY <1>1, <1>2, <1>3, <1>4, <1>5, <1>6, <1>7, <1>8

LEMMA Step_saved ==
  ASSUME IInv, NEW f \in Factories, saved(f)
  PROVE  IInv'
<1> USE DEF IInv, saved, thread, mover_vars, merger_vars, Set
<1>1. DataTypes'
  <2>1. m_pipeline_cache' \in [Factories -> (SUBSET Factories) \cup {None}]
    BY DEF DataTypes
  <2> QED
    BY <2>1 DEF DataTypes
<1>2. Bounded'
  BY DEF Bounded
<1>3. Movers'
  BY DEF Movers
<1>4. Lifecycle'
  BY DEF Lifecycle
<1>5. Untouched'
  BY DEF Untouched
<1>6. Handles'
  BY DEF Handles, DataTypes
<1>7. Awake'
  BY DEF Awake
<1>8. MoverAwake'
  BY DEF MoverAwake
<1> QED
  BY <1>1, <1>2, <1>3, <1>4, <1>5, <1>6, <1>7, <1>8

---------------------------------------------------------------------------
(* The invariant, and what follows from it. *)

LEMMA InitInvariant == Init => IInv
<1> SUFFICES ASSUME Init PROVE IInv
  OBVIOUS
<1> USE DEF Init
<1>1. DataTypes
  <2>1. <<>> \in Seq(SUBSET Factories)
    OBVIOUS
  <2>2. m_new_data \in [Factories -> Seq(SUBSET Factories)]
    BY <2>1
  <2>3. m_pipeline_cache \in [Factories -> (SUBSET Factories) \cup {None}]
    OBVIOUS
  <2>4. conditions \in [Factories -> SUBSET {"factory_finished", "need_action"}]
    OBVIOUS
  <2> QED
    BY <2>2, <2>3, <2>4, PipelineCachesAssumption DEF DataTypes
<1>2. Movers
  BY DEF Movers
<1>3. Bounded /\ Lifecycle /\ Untouched /\ Handles /\ Awake /\ MoverAwake
  BY Owner, NoPointer, PipelineCachesAssumption
  DEF Bounded, Lifecycle, Untouched, Handles, Awake, MoverAwake
<1> QED
  BY <1>1, <1>2, <1>3 DEF IInv

LEMMA NextInvariant == IInv /\ [Next]_vars => IInv'
<1> SUFFICES ASSUME IInv, [Next]_vars PROVE IInv'
  OBVIOUS
<1>1. ASSUME NEW w \in Windows, Window(w) PROVE IInv'
  BY <1>1, Step_create_pipeline_factories, Step_close, Step_finish_impl, Step_run_mover, Step_flush_pipelines,
     Step_wait_for_pipelines, Step_all_pipelines, Step_first_factory_done, Step_other_factory_done,
     Step_set_is_merger, Step_signal_factory_finished, Step_not_last_window, Step_merged_all
  DEF Window, MainLoop
<1>2. ASSUME NEW f \in Factories, PipelineFactory(f) PROVE IInv'
  BY <1>2, Step_start, Step_create_pipeline, Step_finish DEF PipelineFactory
<1>3. ASSUME NEW f \in Factories, PipelineCache(f) PROVE IInv'
  BY <1>3, Step_initialize_empty, Step_initialize, Step_load_from_disk, Step_load_failed, Step_remove,
     Step_factory_finished, Step_factory_merge, Step_producer_not_finished, Step_need_action, Step_save_to_disk,
     Step_saved
  DEF PipelineCache
<1>4. CASE UNCHANGED vars
  BY <1>4 DEF vars, IInv, DataTypes, Bounded, Movers, Lifecycle, Untouched, Handles, Awake, MoverAwake
<1> QED
  BY <1>1, <1>2, <1>3, <1>4 DEF Next

LEMMA Invariant == Spec => []IInv
BY InitInvariant, NextInvariant, PTL DEF Spec

(* The type invariant. *)
THEOREM TypeCorrect == Spec => []TypeOK
<1>1. IInv => TypeOK
  BY DEF IInv, DataTypes, Bounded, TypeOK
<1> QED
  BY <1>1, Invariant, PTL

(* While a factory creates pipelines its cache exists, and nobody merges it, takes
   its handle, saves it or clears it, however many windows share the merger. *)
THEOREM ExternallySynchronized == Spec => []CacheExternallySynchronized
<1>1. IInv => CacheExternallySynchronized
  BY DEF IInv, Lifecycle, Untouched, CacheExternallySynchronized
<1> QED
  BY <1>1, Invariant, PTL

(* MoveNewPipelines is never asleep while pipelines, or the end of its factory, wait
   for it: a signal that comes while it runs is kept. *)
THEOREM MoversAwake == Spec => []MoverAwake
<1>1. IInv => MoverAwake
  BY DEF IInv
<1> QED
  BY <1>1, Invariant, PTL

(* Nor is the merger, when there are caches to merge or when it was the last. *)
THEOREM MergersAwake == Spec => []MergerAwake
<1>1. IInv => MergerAwake
  BY DEF IInv, Awake, DataTypes, MergerAwake
<1> QED
  BY <1>1, Invariant, PTL

---------------------------------------------------------------------------
(* The end of a window. *)

(* A step of a window that is destructed, or gets it, adds no reference to its caches. *)
LEMMA WindowDestructed ==
  ASSUME IInv, NEW w \in Windows, Window(w), NEW f \in Factories, LeftBehind(f)'
  PROVE  LeftBehind(f)
<1> USE Owner, NoPointer DEF LeftBehind, Referenced, IInv, DataTypes, thread, cache_vars, merger_vars
<1>1. CASE create_pipeline_factories(w) \/ close(w)
  BY <1>1 DEF create_pipeline_factories, close
<1>2. CASE finish_impl(w)
  BY <1>2 DEF finish_impl, Counted
<1>3. CASE run_mover(w)
  BY <1>3 DEF run_mover
<1>4. CASE first_factory_done(w)
  BY <1>4 DEF first_factory_done
<1>5. CASE other_factory_done(w)
  BY <1>5 DEF other_factory_done
<1>6. CASE flush_pipelines(w) \/ all_pipelines(w) \/ set_is_merger(w) \/ signal_factory_finished(w)
  BY <1>6 DEF flush_pipelines, all_pipelines, set_is_merger, signal_factory_finished
<1>7. CASE wait_for_pipelines(w) \/ not_last_window(w) \/ merged_all(w)
  BY <1>7 DEF wait_for_pipelines, not_last_window, merged_all, Return
<1> QED
  BY <1>1, <1>2, <1>3, <1>4, <1>5, <1>6, <1>7 DEF Window, MainLoop

(* Nor does one of a factory or a cache, except the start of a factory. *)
LEMMA PipelineDestructed ==
  ASSUME IInv, NEW g \in Factories, PipelineFactory(g) \/ PipelineCache(g), NEW f \in Factories, LeftBehind(f)'
  PROVE  LeftBehind(f) \/ (window[owning_window(f)] = "destructed" /\ start(f))
<1>1. UNCHANGED <<window, mover, merged_pipeline_cache>>
  BY DEF PipelineFactory, start, create_pipeline, finish, PipelineCache, initialize_empty, initialize, load_from_disk,
    load_failed, remove, factory_finished, factory_merge, producer_not_finished, need_action, save_to_disk, saved,
    thread, merger_vars
<1>2. window[owning_window(f)] = "destructed"
  BY <1>1 DEF LeftBehind
<1>3. CASE start(g)
  BY <1>1, <1>2, <1>3 DEF start, LeftBehind, Referenced, IInv, DataTypes
<1>4. CASE ~start(g)
  <2>1. cache[f] \in {"none", "finished"} => cache'[f] = cache[f]
    BY <1>4 DEF PipelineFactory, create_pipeline, finish, PipelineCache, initialize_empty, initialize, load_from_disk,
      load_failed, remove, factory_finished, factory_merge, producer_not_finished, need_action, save_to_disk, saved,
      ready, Set, cache_vars, IInv, DataTypes
  <2> QED
    BY <1>1, <1>2, <2>1 DEF LeftBehind, Referenced
<1> QED
  BY <1>3, <1>4

(* Whether a window is closed before its factories start or not: it is destructed
   when no cache of it exists, and after that there is one only of a factory that
   starts then. *)
THEOREM CachesGoFirst == Spec => OnlyLateStarts
<1> DEFINE Late == \A f \in Factories :
             LeftBehind(f)' => LeftBehind(f) \/ (window[owning_window(f)] = "destructed" /\ start(f))
<1>1. IInv /\ [Next]_vars => [Late]_vars
  <2> SUFFICES ASSUME IInv, Next, NEW f \in Factories, LeftBehind(f)'
               PROVE  LeftBehind(f) \/ (window[owning_window(f)] = "destructed" /\ start(f))
    OBVIOUS
  <2> QED
    BY WindowDestructed, PipelineDestructed DEF Next
<1> QED
  BY <1>1, Invariant, PTL DEF Spec, OnlyLateStarts

---------------------------------------------------------------------------
(* One window with this pipeline_cache_name: what is saved, and when. *)

(* The factories that still have to be merged, or that are the merger's own. *)
Undone == {f \in Factories : factory[f] \notin {"none", "deleted"}}

(* Every one of them is in the list of the merger. *)
Listed ==
  /\ window_list \in Seq(Windows)
  /\ Cardinality(Undone) <= Len(window_list)
  /\ \A w \in Windows : window[w] = "new" => window_list = <<>>

(* The thread that empties the list finds no other factory. *)
LastOne ==
  \A w \in Windows :
    last_window[w] => Undone = {} /\ at[w] \in {"set_is_merger", "signal", "signal_merger", "last"}

(* At most one merger is told that it has everything, after which its window does
   nothing anymore with factories. *)
Finished ==
  \A f \in Factories : m_producer_finished[f] =>
    /\ Undone = {}
    /\ \A w \in Windows : window[w] # "new" /\ at[w] = "mainloop"
    /\ \A g \in Factories : m_producer_finished[g] => g = f

(* Only that one writes the file. *)
Writing ==
  /\ writers \in SUBSET Factories
  /\ \A f \in Factories : cache[f] = "save_to_disk" => f \in writers
  /\ \A f \in Factories : f \in writers => m_producer_finished[f]

(* The pipelines that a cache has, or that it was passed. *)
Passed(f) == m_pipeline_cache[f] \cup Content(m_new_data[f])

(* A factory that is done put a pipeline of its own in its cache. From the first that
   is done there is a merger, that was passed the caches of all that are done. *)
Collected ==
  /\ \A f \in Factories : factory[f] = "finished" => f \in m_pipeline_cache[f]
  /\ \A f \in Factories : merged_pipeline_cache = f \/ m_producer_finished[f] =>
       cache[f] = "finished" \/ \A g \in Factories : factory[g] = "deleted" => g \in Passed(f)
  /\ \A g \in Factories : factory[g] = "deleted" =>
       merged_pipeline_cache # None \/ \E f \in Factories : m_producer_finished[f]

SInv == Listed /\ LastOne /\ Finished /\ Writing /\ Collected

LEMMA PerWindowInterval == IsFiniteSet(1..PerWindow) /\ Cardinality(1..PerWindow) = PerWindow
<1>1. 1 \in Int /\ PerWindow \in Int /\ PerWindow >= 1
  BY PipelineCachesAssumption
<1>2. /\ IsFiniteSet(1..PerWindow)
      /\ Cardinality(1..PerWindow) = IF 1 > PerWindow THEN 0 ELSE PerWindow - 1 + 1
  BY <1>1, FS_Interval
<1> QED
  BY <1>1, <1>2

LEMMA FiniteUndone == IsFiniteSet(Factories) /\ IsFiniteSet(Undone) /\ Cardinality(Undone) \in Nat
<1>1. IsFiniteSet(1..PerWindow)
  BY PerWindowInterval
<1>2. IsFiniteSet(Factories)
  BY <1>1, FS_Product, PipelineCachesAssumption DEF Factories
<1>3. Undone \in SUBSET Factories
  BY DEF Undone
<1> QED
  BY <1>2, <1>3, FS_Subset, FS_CardinalityType

(* The factories of a single window. *)
LEMMA FactoriesOfOne ==
  ASSUME NEW w, Windows = {w}
  PROVE  Cardinality(Factories) = PerWindow
<1>1. IsFiniteSet(1..PerWindow) /\ Cardinality(1..PerWindow) = PerWindow
  BY PerWindowInterval
<1>2. IsFiniteSet({w}) /\ Cardinality({w}) = 1
  BY FS_Singleton
<1>3. Cardinality({w} \X (1..PerWindow)) = 1 * PerWindow
  BY <1>1, <1>2, FS_Product
<1> QED
  BY <1>3, PipelineCachesAssumption DEF Factories

(* Without removes one element. *)
LEMMA WithoutOne ==
  ASSUME NEW list \in Seq(Windows), NEW w, w \in Windows, Windows = {w}, Len(list) > 0
  PROVE  Without(list, w) \in Seq(Windows) /\ Len(Without(list, w)) = Len(list) - 1
<1> DEFINE First(k) == list[k] = w /\ \A j \in 1..k-1 : list[j] # w
           i == CHOOSE k \in DOMAIN list : First(k)
<1>1. Len(list) \in Nat /\ DOMAIN list = 1..Len(list) /\ \A j \in 1..Len(list) : list[j] = w
  BY LenProperties, ElementOfSeq
<1>2. 1 \in DOMAIN list /\ First(1)
  BY <1>1
<1>3. i \in DOMAIN list
  BY <1>2
<1>4. Without(list, w) = SubSeq(list, 1, i-1) \o SubSeq(list, i+1, Len(list))
  BY DEF Without
<1> DEFINE s1 == SubSeq(list, 1, i-1)
           s2 == SubSeq(list, i+1, Len(list))
<1> HIDE DEF i, First
<1>5. PICK L \in Nat : L = Len(list)
  BY <1>1
<1>6. i \in Int /\ 1 <= i /\ i <= L
  BY <1>1, <1>3, <1>5
<1>7. s1 \in Seq(Windows) /\ Len(s1) = i - 1
  <2>1. \A j \in 1..i-1 : list[j] \in Windows
    BY <1>1, <1>5, <1>6
  <2> QED
    BY <1>6, <2>1, SubSeqProperties
<1>8. s2 \in Seq(Windows) /\ Len(s2) = L - i
  <2>1. \A j \in i+1..L : list[j] \in Windows
    BY <1>1, <1>5, <1>6
  <2>2. i + 1 \in Int /\ L \in Int
    BY <1>6
  <2>3. /\ SubSeq(list, i+1, L) \in Seq(Windows)
        /\ Len(SubSeq(list, i+1, L)) = IF i+1 <= L THEN L-(i+1)+1 ELSE 0
    BY <2>1, <2>2, SubSeqProperties
  <2> QED
    BY <1>5, <1>6, <2>3
<1> HIDE DEF s1, s2
<1>9. s1 \o s2 \in Seq(Windows) /\ Len(s1 \o s2) = Len(s1) + Len(s2)
  BY <1>7, <1>8, ConcatProperties
<1>10. Without(list, w) = s1 \o s2
  BY <1>4 DEF s1, s2
<1> QED
  BY <1>5, <1>6, <1>7, <1>8, <1>9, <1>10

LEMMA InitSaving == Init => SInv
<1> SUFFICES ASSUME Init PROVE SInv
  OBVIOUS
<1>1. Undone = {}
  BY DEF Init, Undone
<1>2. Listed
  BY <1>1, FS_EmptySet, EmptySeq DEF Init, Listed
<1>3. LastOne /\ Finished /\ Writing
  BY <1>1 DEF Init, LastOne, Finished, Writing
<1>4. Collected
  BY DEF Init, Collected
<1> QED
  BY <1>2, <1>3, <1>4 DEF SInv

(* create_pipeline_factories adds as many windows to the list as factories. *)
LEMMA SavingCreate ==
  ASSUME NEW w \in Windows, Windows = {w}, IInv, SInv, create_pipeline_factories(w)
  PROVE  SInv'
<1> USE DEF create_pipeline_factories, thread, cache_vars, file_vars
<1>1. \A f \in Factories : owning_window(f) = w /\ factory[f] = "none"
  BY Owner DEF IInv, Lifecycle
<1>2. Undone = {} /\ Undone' = Factories
  BY <1>1 DEF Undone
<1>3. window_list = <<>> /\ window_list' = [i \in 1..PerWindow |-> w]
  <2>1. [i \in 1..PerWindow |-> w] \in Seq(Windows)
    BY PipelineCachesAssumption
  <2>2. window_list = <<>>
    BY DEF SInv, Listed
  <2> QED
    BY <2>1, <2>2
<1>4. window_list' \in Seq(Windows) /\ Len(window_list') = PerWindow
  BY <1>3, PipelineCachesAssumption
<1>5. Listed'
  <2>1. Cardinality(Undone') = PerWindow
    BY <1>2, FactoriesOfOne
  <2>2. \A v \in Windows : window'[v] = "open"
    BY DEF IInv, DataTypes
  <2> QED
    BY <1>4, <2>1, <2>2, PipelineCachesAssumption DEF Listed
<1>6. at[w] = "mainloop" /\ ~last_window[w] /\ \A f \in Factories : ~m_producer_finished[f]
  BY DEF IInv, Movers, SInv, LastOne, Finished
<1>7. LastOne' /\ Finished' /\ Writing'
  BY <1>6 DEF SInv, LastOne, Finished, Writing
<1>8. Collected'
  BY <1>1 DEF Collected
<1> QED
  BY <1>5, <1>7, <1>8 DEF SInv

(* What is passed to a cache is added to what it was passed. *)
LEMMA ContentAppend ==
  ASSUME NEW list \in Seq(SUBSET Factories), NEW S \in SUBSET Factories
  PROVE  Content(Append(list, S)) = Content(list) \cup S
<1>1. /\ DOMAIN list = 1..Len(list) /\ Len(list) \in Nat
      /\ DOMAIN Append(list, S) = 1..(Len(list) + 1)
      /\ \A i \in 1..Len(list) : Append(list, S)[i] = list[i]
      /\ Append(list, S)[Len(list) + 1] = S
  BY LenProperties, AppendProperties
<1> QED
  BY <1>1 DEF Content

(* The first factory that is done starts a merger, each other one is passed to it. *)
LEMMA CollectedFirst ==
  ASSUME NEW w \in Windows, Windows = {w}, IInv, SInv, first_factory_done(w)
  PROVE  Collected'
<1> DEFINE m == mover[w]
<1>1. m \in Factories /\ factory[m] = "finished" /\ m # None /\ at[w] # "mainloop"
  BY NoPointer DEF first_factory_done, IInv, DataTypes, Movers
<1>2. \A f \in Factories : ~m_producer_finished[f]
  BY <1>1 DEF SInv, Finished
<1>3. \A g \in Factories : factory[g] # "deleted"
  BY <1>2 DEF first_factory_done, SInv, Collected
<1>4. factory' = [factory EXCEPT ![m] = "deleted"] /\ merged_pipeline_cache' = m
  BY <1>1 DEF first_factory_done, delete_factory, IInv, DataTypes
<1>5. UNCHANGED <<cache, m_pipeline_cache, m_new_data, m_producer_finished>>
  BY DEF first_factory_done, cache_vars
<1>6. m \in m_pipeline_cache[m]
  BY <1>1 DEF SInv, Collected
<1> HIDE DEF m
<1> QED
  BY <1>1, <1>2, <1>3, <1>4, <1>5, <1>6 DEF SInv, Collected, Passed, IInv, DataTypes

LEMMA CollectedOther ==
  ASSUME NEW w \in Windows, Windows = {w}, IInv, SInv, other_factory_done(w)
  PROVE  Collected'
<1> DEFINE m == mover[w]
           M == merged_pipeline_cache
<1>1. m \in Factories /\ factory[m] = "finished" /\ at[w] # "mainloop"
  BY DEF other_factory_done, IInv, DataTypes, Movers
<1>2. \A f \in Factories : ~m_producer_finished[f]
  BY <1>1 DEF SInv, Finished
<1>3. M \in Factories /\ M # m /\ factory[M] = "deleted"
  BY <1>1 DEF other_factory_done, IInv, DataTypes, Untouched
<1>4. m \in m_pipeline_cache[m] /\ m_pipeline_cache[m] \in SUBSET Factories
  BY <1>1 DEF SInv, Collected, IInv, Lifecycle, DataTypes
<1>5. /\ factory' = [factory EXCEPT ![m] = "deleted"]
      /\ UNCHANGED <<merged_pipeline_cache, m_producer_finished, cache>>
  BY <1>1 DEF other_factory_done, delete_factory, IInv, DataTypes
<1>6. m_pipeline_cache' = [m_pipeline_cache EXCEPT ![m] = None]
  BY DEF other_factory_done
<1>7. m_new_data' = [m_new_data EXCEPT ![M] = Append(@, m_pipeline_cache[m])]
  BY DEF other_factory_done, have_new_datum
<1>8. Passed(M)' = Passed(M) \cup m_pipeline_cache[m]
  <2>1. Content(Append(m_new_data[M], m_pipeline_cache[m])) = Content(m_new_data[M]) \cup m_pipeline_cache[m]
    BY <1>3, <1>4, ContentAppend DEF IInv, DataTypes
  <2>2. m_new_data'[M] = Append(m_new_data[M], m_pipeline_cache[m]) /\ m_pipeline_cache'[M] = m_pipeline_cache[M]
    BY <1>3, <1>6, <1>7 DEF IInv, DataTypes
  <2> QED
    BY <1>5, <2>1, <2>2 DEF Passed
<1>9. \A g \in Factories : factory'[g] = "finished" => g \in m_pipeline_cache'[g]
  BY <1>1, <1>5, <1>6 DEF SInv, Collected, IInv, DataTypes
<1>10. cache[M] = "finished" \/ \A g \in Factories : factory'[g] = "deleted" => g \in Passed(M)'
  BY <1>1, <1>3, <1>4, <1>5, <1>8 DEF SInv, Collected, IInv, DataTypes
<1>11. M # None
  BY <1>3, NoPointer
<1> QED
  BY <1>2, <1>5, <1>9, <1>10, <1>11 DEF Collected

(* The other steps of the window. *)
LEMMA CollectedWindow ==
  ASSUME NEW w \in Windows, Windows = {w}, IInv, SInv, MainLoop(w) \/ close(w),
         ~first_factory_done(w), ~other_factory_done(w)
  PROVE  Collected'
<1>1. UNCHANGED <<factory, cache, m_pipeline_cache, m_new_data>>
  BY DEF MainLoop, close, finish_impl, run_mover, flush_pipelines, wait_for_pipelines, all_pipelines, set_is_merger,
    signal_factory_finished, not_last_window, merged_all, set_producer_finished, thread, mover_vars, cache_vars
<1>2. CASE merged_all(w)
  <2>1. merged_pipeline_cache \in Factories /\ merged_pipeline_cache' = None
    BY <1>2 DEF merged_all, IInv, DataTypes
  <2>2. m_producer_finished' = [m_producer_finished EXCEPT ![merged_pipeline_cache] = TRUE]
    BY <1>2 DEF merged_all, set_producer_finished
  <2> QED
    BY <1>1, <2>1, <2>2, NoPointer DEF SInv, Collected, Passed, IInv, DataTypes
<1>3. CASE ~merged_all(w)
  <2>1. UNCHANGED <<merged_pipeline_cache, m_producer_finished>>
    BY <1>3 DEF MainLoop, close, finish_impl, run_mover, flush_pipelines, wait_for_pipelines, all_pipelines,
      set_is_merger, signal_factory_finished, not_last_window, cache_vars, merger_vars
  <2> QED
    BY <1>1, <2>1 DEF SInv, Collected, Passed
<1> QED
  BY <1>2, <1>3

(* Of a factory or a cache: a flush merges what was passed; what is cleared is
   the cache of a task that finished. *)
LEMMA CollectedPipeline ==
  ASSUME IInv, SInv, NEW f \in Factories, PipelineFactory(f) \/ PipelineCache(f)
  PROVE  Collected'
<1>1. UNCHANGED <<merged_pipeline_cache, m_producer_finished>>
  BY DEF PipelineFactory, start, create_pipeline, finish, PipelineCache, initialize_empty, initialize, load_from_disk,
    load_failed, remove, factory_finished, factory_merge, producer_not_finished, need_action, save_to_disk, saved,
    merger_vars, cache_vars
<1>2. \A g \in Factories : factory'[g] = "deleted" => factory[g] = "deleted"
  BY DEF PipelineFactory, start, create_pipeline, finish, PipelineCache, initialize_empty, initialize, load_from_disk,
    load_failed, remove, factory_finished, factory_merge, producer_not_finished, need_action, save_to_disk, saved,
    ready, IInv, DataTypes
<1>3. \A g \in Factories \ {f} :
        factory'[g] = factory[g] /\ cache'[g] = cache[g] /\ m_pipeline_cache'[g] = m_pipeline_cache[g]
        /\ m_new_data'[g] = m_new_data[g]
  BY DEF PipelineFactory, start, create_pipeline, finish, PipelineCache, initialize_empty, initialize, load_from_disk,
    load_failed, remove, factory_finished, factory_merge, producer_not_finished, need_action, save_to_disk, saved,
    ready, Set, cache_vars, IInv, DataTypes
<1>4. factory'[f] = "finished" => f \in m_pipeline_cache'[f]
  BY DEF PipelineFactory, start, create_pipeline, finish, PipelineCache, initialize_empty, initialize, load_from_disk,
    load_failed, remove, factory_finished, factory_merge, producer_not_finished, need_action, save_to_disk, saved,
    ready, cache_vars, IInv, DataTypes, Lifecycle, Untouched, SInv, Collected
<1>5. ASSUME merged_pipeline_cache = f \/ m_producer_finished[f]
      PROVE  cache'[f] = "finished" \/ \A g \in Factories : factory[g] = "deleted" => g \in Passed(f)'
  <2>1. factory[f] = "deleted" /\ cache[f] \notin {"none", "initialize", "load_from_disk", "remove"}
    BY <1>5 DEF IInv, DataTypes, Untouched, Lifecycle
  <2>2. cache[f] = "finished" \/ \A g \in Factories : factory[g] = "deleted" => g \in Passed(f)
    BY <1>5 DEF SInv, Collected
  <2>3. CASE factory_merge(f)
    <3>1. /\ m_pipeline_cache'[f] = m_pipeline_cache[f] \cup Content(m_new_data[f])
          /\ cache[f] # "finished"
      BY <2>3 DEF factory_merge, IInv, DataTypes
    <3> QED
      BY <2>2, <3>1 DEF Passed
  <2>4. CASE factory_finished(f) \/ saved(f)
    <3>1. cache'[f] = "finished" \/ UNCHANGED <<m_pipeline_cache, m_new_data>>
      BY <2>4 DEF factory_finished, saved, Set, IInv, DataTypes
    <3>2. cache[f] # "finished"
      BY <2>4 DEF factory_finished, saved
    <3> QED
      BY <2>2, <3>1, <3>2 DEF Passed
  <2>5. CASE producer_not_finished(f) \/ need_action(f) \/ save_to_disk(f)
    <3>1. UNCHANGED <<m_pipeline_cache, m_new_data>> /\ cache[f] # "finished"
      BY <2>5 DEF producer_not_finished, need_action, save_to_disk
    <3> QED
      BY <2>2, <3>1 DEF Passed
  <2> QED
    BY <2>1, <2>3, <2>4, <2>5 DEF PipelineFactory, start, create_pipeline, finish, PipelineCache, initialize_empty,
      initialize, load_from_disk, load_failed, remove
<1> QED
  BY <1>1, <1>2, <1>3, <1>4, <1>5 DEF SInv, Collected, Passed

(* A factory that is done leaves the list. *)
LEMMA SavingDone ==
  ASSUME NEW w \in Windows, Windows = {w}, IInv, SInv, first_factory_done(w) \/ other_factory_done(w)
  PROVE  SInv'
<1> USE DEF first_factory_done, other_factory_done, Goto, delete_factory, cache_vars, file_vars
<1>1. mover[w] \in Undone /\ at[w] = "factory_done"
  BY DEF IInv, DataTypes, Movers, Undone
<1>2. Undone' = Undone \ {mover[w]}
  BY <1>1 DEF Undone, IInv, DataTypes, Movers
<1>3. Cardinality(Undone') = Cardinality(Undone) - 1 /\ Cardinality(Undone) \in Nat /\ IsFiniteSet(Undone')
  BY <1>1, <1>2, FiniteUndone, FS_RemoveElement
<1>4. Cardinality(Undone') \in Nat
  BY <1>3, FS_CardinalityType
<1>5. window_list \in Seq(Windows) /\ Len(window_list) \in Nat /\ Cardinality(Undone) <= Len(window_list)
  BY LenProperties DEF SInv, Listed
<1>6. Len(window_list) > 0
  BY <1>3, <1>4, <1>5
<1>7. window_list' \in Seq(Windows) /\ Len(window_list') = Len(window_list) - 1
  BY <1>5, <1>6, WithoutOne
<1>8. Listed'
  <2>1. window[w] # "new" /\ window' = window
    BY <1>1 DEF IInv, Movers
  <2> QED
    BY <1>3, <1>5, <1>7, <2>1 DEF Listed
<1>9. window_list' = <<>> => Undone' = {}
  <2>1. window_list' = <<>> => Cardinality(Undone') = 0
    <3>1. Len(<<>>) = 0
      BY EmptySeq
    <3>2. ASSUME window_list' = <<>> PROVE Len(window_list) = 1
      <4>1. Len(window_list') = 0
        BY <3>1, <3>2
      <4> QED
        BY <1>5, <1>7, <4>1
    <3>3. PICK c \in Nat, d \in Nat : c = Cardinality(Undone) /\ d = Cardinality(Undone')
      BY <1>3, <1>4
    <3>4. d = c - 1 /\ c <= Len(window_list)
      BY <1>3, <1>5, <3>3
    <3>5. ASSUME Len(window_list) = 1 PROVE d = 0
      BY <3>4, <3>5
    <3> QED
      BY <3>2, <3>3, <3>5
  <2> QED
    BY <1>3, <2>1, FS_EmptySet
<1>10. LastOne'
  BY <1>9 DEF LastOne, IInv, DataTypes
<1>11. \A f \in Factories : ~m_producer_finished[f]
  BY <1>1 DEF SInv, Finished
<1>12. \A f \in Factories : ~m_producer_finished'[f]
  BY <1>11 DEF have_new_datum
<1>13. Finished' /\ Writing'
  BY <1>11, <1>12 DEF Finished, SInv, Writing
<1>14. Collected'
  BY CollectedFirst, CollectedOther
<1> QED
  BY <1>8, <1>10, <1>13, <1>14 DEF SInv

(* All other steps leave the list and Undone alone. *)
LEMMA SameList ==
  ASSUME IInv, NEW w \in Windows,
         MainLoop(w) \/ close(w), ~first_factory_done(w), ~other_factory_done(w)
  PROVE  UNCHANGED <<window_list, factory, writers, cache>> /\ \A v \in Windows : window'[v] = "new" => window[v] = "new"
BY DEF IInv, DataTypes, MainLoop, close, finish_impl, run_mover, flush_pipelines, wait_for_pipelines, all_pipelines,
  set_is_merger, signal_factory_finished, not_last_window, merged_all, thread, mover_vars, cache_vars, merger_vars,
  file_vars

LEMMA ListedKept ==
  ASSUME SInv, UNCHANGED window_list, Undone' = Undone,
         \A v \in Windows : window'[v] = "new" => window[v] = "new"
  PROVE  Listed'
BY DEF SInv, Listed

(* The other steps of the window. *)
LEMMA SavingWindow ==
  ASSUME NEW w \in Windows, Windows = {w}, IInv, SInv, MainLoop(w) \/ close(w),
         ~first_factory_done(w), ~other_factory_done(w)
  PROVE  SInv'
<1>1. UNCHANGED <<window_list, factory, writers, cache>> /\ \A v \in Windows : window'[v] = "new" => window[v] = "new"
  BY SameList
<1>2. Undone' = Undone
  BY <1>1 DEF Undone
<1>3. Listed'
  BY <1>1, <1>2, ListedKept
<1>4. LastOne'
  BY <1>1, <1>2 DEF SInv, LastOne, IInv, DataTypes, MainLoop, close, finish_impl, run_mover, flush_pipelines,
    wait_for_pipelines, all_pipelines, set_is_merger, signal_factory_finished, not_last_window, merged_all, Goto,
    Return, thread, merger_vars
<1>5. Finished'
  <2>1. CASE merged_all(w)
    <3>1. at[w] = "last" /\ at' = [at EXCEPT ![w] = "mainloop"] /\ window[w] # "new" /\ window' = window /\ Undone = {}
      BY <2>1 DEF merged_all, Return, Goto, IInv, Movers, SInv, LastOne
    <3>2. \A f \in Factories : ~m_producer_finished[f]
      BY <3>1 DEF SInv, Finished
    <3>3. m_producer_finished' = [m_producer_finished EXCEPT ![merged_pipeline_cache] = TRUE]
      BY <2>1 DEF merged_all, set_producer_finished
    <3>4. at'[w] = "mainloop"
      BY <3>1 DEF IInv, DataTypes
    <3> QED
      BY <1>2, <3>1, <3>2, <3>3, <3>4 DEF Finished, IInv, DataTypes
  <2>2. CASE run_mover(w)
    <3>1. \A f \in Factories : ~m_producer_finished[f]
      BY <2>2, Owner DEF run_mover, IInv, Lifecycle, SInv, Finished, Undone
    <3> QED
      BY <2>2, <3>1 DEF run_mover, cache_vars, Finished
  <2>3. CASE close(w) \/ finish_impl(w)
    BY <1>2, <2>3 DEF close, finish_impl, thread, cache_vars, SInv, Finished, IInv, DataTypes
  <2>4. CASE ~merged_all(w) /\ at[w] # "mainloop"
    <3>1. \A f \in Factories : ~m_producer_finished[f]
      BY <2>4 DEF SInv, Finished
    <3>2. m_producer_finished' = m_producer_finished
      BY <2>4 DEF MainLoop, close, finish_impl, run_mover, flush_pipelines, wait_for_pipelines, all_pipelines,
        set_is_merger, signal_factory_finished, not_last_window, cache_vars
    <3> QED
      BY <3>1, <3>2 DEF Finished
  <2> QED
    BY <2>1, <2>2, <2>3, <2>4 DEF MainLoop, flush_pipelines, wait_for_pipelines, all_pipelines, set_is_merger,
      signal_factory_finished, not_last_window
<1>6. Writing'
  <2>1. \A f \in Factories : m_producer_finished[f] => m_producer_finished'[f]
    BY DEF IInv, DataTypes, MainLoop, close, finish_impl, run_mover, flush_pipelines, wait_for_pipelines,
      all_pipelines, set_is_merger, signal_factory_finished, not_last_window, merged_all, set_producer_finished, cache_vars
  <2> QED
    BY <1>1, <2>1 DEF SInv, Writing
<1>7. Collected'
  BY CollectedWindow
<1> QED
  BY <1>3, <1>4, <1>5, <1>6, <1>7 DEF SInv

(* The steps of factories and caches: only these write the file. *)
LEMMA SavingPipeline ==
  ASSUME IInv, SInv, NEW f \in Factories, PipelineFactory(f) \/ PipelineCache(f)
  PROVE  SInv'
<1>1. UNCHANGED <<window, at, last_window, mover, window_list, merged_pipeline_cache, m_producer_finished>>
  BY DEF PipelineFactory, start, create_pipeline, finish, PipelineCache, initialize_empty, initialize, load_from_disk,
    load_failed, remove, factory_finished, factory_merge, producer_not_finished, need_action, save_to_disk, saved,
    thread, merger_vars, cache_vars
<1>2. Undone' = Undone
  <2>1. \A g \in Factories : factory'[g] \in {"none", "deleted"} <=> factory[g] \in {"none", "deleted"}
    BY DEF IInv, DataTypes, Lifecycle, PipelineFactory, start, create_pipeline, finish, PipelineCache,
      initialize_empty, initialize, load_from_disk, load_failed, remove, factory_finished, factory_merge,
      producer_not_finished, need_action, save_to_disk, saved, ready, cache_vars
  <2> QED
    BY <2>1 DEF Undone
<1>3. Listed'
  BY <1>1, <1>2, ListedKept
<1>4. LastOne' /\ Finished'
  BY <1>1, <1>2 DEF SInv, LastOne, Finished
<1>5. Writing'
  <2>1. CASE remove(f)
    <3>1. f \in Undone
      BY <2>1 DEF remove, IInv, Lifecycle, Undone
    <3>2. writers = {} /\ writers' = {}
      BY <2>1, <3>1 DEF remove, SInv, Finished, Writing
    <3> QED
      BY <1>1, <2>1, <3>2 DEF remove, Set, SInv, Writing, IInv, DataTypes
  <2>2. CASE save_to_disk(f)
    BY <1>1, <2>2 DEF save_to_disk, Set, SInv, Writing, IInv, DataTypes
  <2>3. CASE saved(f)
    BY <1>1, <2>3 DEF saved, Set, SInv, Writing, IInv, DataTypes
  <2>4. CASE ~remove(f) /\ ~save_to_disk(f) /\ ~saved(f)
    <3>1. writers' = writers /\ \A g \in Factories : cache'[g] = "save_to_disk" => cache[g] = "save_to_disk"
      BY <2>4 DEF IInv, DataTypes, PipelineFactory, start, create_pipeline, finish, PipelineCache, initialize_empty,
        initialize, load_from_disk, load_failed, factory_finished, factory_merge, producer_not_finished,
        need_action, Set, ready, cache_vars, file_vars
    <3> QED
      BY <1>1, <3>1 DEF SInv, Writing
  <2> QED
    BY <2>1, <2>2, <2>3, <2>4
<1>6. Collected'
  BY CollectedPipeline
<1> QED
  BY <1>3, <1>4, <1>5, <1>6 DEF SInv

LEMMA NextSaving ==
  ASSUME NEW w, Windows = {w}, IInv, SInv, [Next]_vars
  PROVE  SInv'
<1>1. CASE Window(w)
  BY <1>1, SavingCreate, SavingDone, SavingWindow DEF Window
<1>2. ASSUME NEW f \in Factories, PipelineFactory(f) \/ PipelineCache(f) PROVE SInv'
  BY <1>2, SavingPipeline
<1>3. CASE UNCHANGED vars
  BY <1>3 DEF vars, SInv, Listed, LastOne, Finished, Writing, Undone, Collected, Passed
<1> QED
  BY <1>1, <1>2, <1>3 DEF Next

(* With a single window that uses it, whatever the number of factories: the pipeline
   cache file is written by one task only, after every factory of the window is done;
   and no cache got lost: of each factory the pipelines are in the merger, or they
   came after its last flush and are in its deque (these are not written). *)
THEOREM SavedOnce ==
  ASSUME NEW w, Windows = {w}
  PROVE  Spec => []SavedLast
<1>1. SInv => SavedLast
  <2> SUFFICES ASSUME SInv, NEW f \in Factories, cache[f] = "save_to_disk"
               PROVE  /\ writers = {f}
                      /\ \A g \in Factories : \/ factory[g] = "none"
                                              \/ factory[g] = "deleted" /\ g \in Passed(f)
    BY DEF SavedLast, Passed
  <2>1. f \in writers /\ m_producer_finished[f]
    BY DEF SInv, Writing
  <2>2. writers = {f} /\ \A g \in Factories : factory[g] \in {"none", "deleted"}
    BY <2>1 DEF SInv, Writing, Finished, Undone
  <2>3. \A g \in Factories : factory[g] = "deleted" => g \in Passed(f)
    BY <2>1 DEF SInv, Collected
  <2> QED
    BY <2>2, <2>3
<1>2. Init => SInv
  BY InitSaving
<1>3. IInv /\ SInv /\ [Next]_vars => SInv'
  BY NextSaving
<1> QED
  BY <1>1, <1>2, <1>3, Invariant, PTL DEF Spec
=========================================================================
