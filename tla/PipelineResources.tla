----------------------- MODULE PipelineResources -----------------------
(* What the pipeline factories share: the shaders, that only one of them compiles;
   the shader resources, that only one of them creates; and the descriptor sets,
   that are reused by every pipeline that binds the same resources. Each of the
   three is protected by a task mutex (AIStatefulTaskMutex): a task that does not get
   it returns to the thread pool, and is signalled when it was handed the mutex. *)
EXTENDS Integers, Sequences, FiniteSets

CONSTANTS Factories,
          ShaderIndexes,
          m_added_shaders,   \* the shaders of each factory, in the order they were added
          Resources,         \* numbered by their address
          Sets,              \* for each factory and set index: the resources, by binding
          AlreadyCreated     \* the resources that an earlier pipeline used

\* The resources of a descriptor set, and all those of a pipeline.
Bound(set) == {set[b] : b \in DOMAIN set}
Required(f) == UNION {Bound(Sets[f][i]) : i \in DOMAIN Sets[f]}

ASSUME PipelineResourcesAssumption ==
  /\ IsFiniteSet(Factories)
  /\ IsFiniteSet(Resources) /\ Resources = 1..Cardinality(Resources)
  /\ AlreadyCreated \subseteq Resources
  /\ \A f \in Factories :
       /\ m_added_shaders[f] \in Seq(ShaderIndexes)
       /\ Sets[f] \in Seq(Seq(Resources))
       /\ \A i \in DOMAIN Sets[f] :
            /\ Sets[f][i] # <<>>
            /\ \A b, c \in DOMAIN Sets[f][i] : b # c => Sets[f][i][b] # Sets[f][i][c]
       /\ \A i, j \in DOMAIN Sets[f] : i # j => Bound(Sets[f][i]) \cap Bound(Sets[f][j]) = {}

\* A SetLayoutBinding: the layout (what tells layouts apart is their length) and the binding.
SetLayoutBinding(set, r) == <<Len(set), CHOOSE b \in DOMAIN set : set[b] = r>>
SetLayoutBindings ==
  UNION {UNION {{SetLayoutBinding(Sets[f][i], r) : r \in Bound(Sets[f][i])} : i \in DOMAIN Sets[f]} : f \in Factories}

VARIABLES
  pc,              \* where each factory, or its characteristic task, is
  woken,           \* those that were handed the mutex they wait for
  m_task_mutex, m_create_access_mutex, m_mutex,     \* the owner of each, followed by those that wait
  m_added_shaders_index,
  m_shader_module, \* the factories that compiled each shader
  todo,            \* the resources that the current loop did not reach yet
  acquired,        \* m_acquired_required_shader_resources_list
  instantiated,    \* the factories that instantiated each resource
  m_created,
  m_set_index, set_index,
  m_have_lock,     \* also when the lock was obtained at once
  matches,         \* the existing descriptor sets that are bound to all resources so far
  missing,         \* the set indexes that need a new descriptor set
  descriptor_sets, \* all descriptor sets: the resource at each binding, 0 before it is updated
  handles,         \* m_descriptor_sets of every resource and SetLayoutBinding
  m_descriptor_set_per_set_index

shader_vars == <<m_task_mutex, m_added_shaders_index, m_shader_module>>
create_vars == <<m_create_access_mutex, acquired, instantiated, m_created>>
set_vars == <<m_mutex, m_set_index, set_index, m_have_lock, matches, missing, descriptor_sets, handles,
              m_descriptor_set_per_set_index>>
vars == <<pc, woken, todo, shader_vars, create_vars, set_vars>>

Init ==
  /\ pc = [f \in Factories |-> "shaders"] /\ woken = {}
  /\ m_task_mutex = [s \in ShaderIndexes |-> <<>>]
  /\ m_create_access_mutex = [r \in Resources |-> <<>>]
  /\ m_mutex = [r \in Resources |-> [k \in SetLayoutBindings |-> <<>>]]
  /\ m_added_shaders_index = [f \in Factories |-> 1]
  /\ m_shader_module = [s \in ShaderIndexes |-> {}]
  /\ todo = [f \in Factories |-> {}] /\ acquired = [f \in Factories |-> {}]
  /\ instantiated = [r \in Resources |-> {}] /\ m_created = AlreadyCreated
  /\ m_set_index = [f \in Factories |-> 1] /\ set_index = [f \in Factories |-> 1]
  /\ m_have_lock = [f \in Factories |-> FALSE]
  /\ matches = [f \in Factories |-> {}] /\ missing = [f \in Factories |-> {}]
  /\ descriptor_sets = <<>>
  /\ handles = [r \in Resources |-> [k \in SetLayoutBindings |-> {}]]
  /\ m_descriptor_set_per_set_index = [f \in Factories |-> [i \in DOMAIN Sets[f] |-> 0]]

First(s) == CHOOSE r \in s : \A q \in s : r <= q
Last(s) == CHOOSE r \in s : \A q \in s : r >= q
Goto(f, l) == pc' = [pc EXCEPT ![f] = l]

(* Mutant: nobody is told. *)
next_owner_asleep(mutex) == {}

\* AIStatefulTaskMutex::unlock signals the task that has the mutex now.
next_owner(mutex) == IF Len(mutex) > 1 THEN {mutex[2]} ELSE {}

\* A task that waits continues when it was signalled.
Obtained(f, l) == pc[f] = l /\ f \in woken /\ woken' = woken \ {f}

---------------------------------------------------------------------------
(* AddShaderStage::realize_shaders, by the characteristic task. *)

CurrentShader(f) == m_added_shaders[f][m_added_shaders_index[f]]

(* Mutant: ignores the result of lock. *)
lock_shader_anyway(f) ==
  /\ pc[f] = "shaders" /\ m_added_shaders_index[f] <= Len(m_added_shaders[f])
  /\ m_task_mutex' = [m_task_mutex EXCEPT ![CurrentShader(f)] = Append(@, f)]
  /\ Goto(f, "realize_shader")
  /\ UNCHANGED <<woken, todo, m_added_shaders_index, m_shader_module, create_vars, set_vars>>

lock_shader(f) ==
  /\ pc[f] = "shaders" /\ m_added_shaders_index[f] <= Len(m_added_shaders[f])
  /\ m_task_mutex' = [m_task_mutex EXCEPT ![CurrentShader(f)] = Append(@, f)]
  /\ Goto(f, IF m_task_mutex[CurrentShader(f)] = <<>> THEN "realize_shader" ELSE "wait_shader")
  /\ UNCHANGED <<woken, todo, m_added_shaders_index, m_shader_module, create_vars, set_vars>>

obtained_shader_lock(f) ==
  /\ Obtained(f, "wait_shader")
  /\ Goto(f, "realize_shader")
  /\ UNCHANGED <<todo, shader_vars, create_vars, set_vars>>

\* The end of realize_shader: AdoptLock unlocks the mutex.
unlock_shader(f) ==
  /\ woken' = woken \cup next_owner(m_task_mutex[CurrentShader(f)])
  /\ m_task_mutex' = [m_task_mutex EXCEPT ![CurrentShader(f)] = Tail(@)]
  /\ m_added_shaders_index' = [m_added_shaders_index EXCEPT ![f] = @ + 1]
  /\ Goto(f, "shaders")

realize_shader(f) ==
  /\ pc[f] = "realize_shader"
  /\ IF m_shader_module[CurrentShader(f)] = {}
       THEN Goto(f, "compile") /\ UNCHANGED <<woken, m_task_mutex, m_added_shaders_index>>
       ELSE unlock_shader(f)
  /\ UNCHANGED <<todo, m_shader_module, create_vars, set_vars>>

compile(f) ==
  /\ pc[f] = "compile"
  /\ m_shader_module' = [m_shader_module EXCEPT ![CurrentShader(f)] = @ \cup {f}]
  /\ unlock_shader(f)
  /\ UNCHANGED <<todo, create_vars, set_vars>>

\* characteristics_compiled, sort_required_shader_resources_list.
characteristics_compiled(f) ==
  /\ pc[f] = "shaders" /\ m_added_shaders_index[f] > Len(m_added_shaders[f])
  /\ Goto(f, "create")
  /\ todo' = [todo EXCEPT ![f] = Required(f)]
  /\ UNCHANGED <<woken, shader_vars, create_vars, set_vars>>

---------------------------------------------------------------------------
(* PipelineFactory::handle_shader_resource_creation_requests: every factory takes
   the locks of the resources it has to create in the same order. *)

acquire_create_lock(f) ==
  /\ pc[f] = "create" /\ todo[f] # {}
  /\ LET r == First(todo[f]) IN
     IF r \in m_created
       THEN todo' = [todo EXCEPT ![f] = @ \ {r}] /\ UNCHANGED <<pc, m_create_access_mutex, acquired>>
       ELSE /\ m_create_access_mutex' = [m_create_access_mutex EXCEPT ![r] = Append(@, f)]
            /\ IF m_create_access_mutex[r] = <<>>
                 THEN /\ acquired' = [acquired EXCEPT ![f] = @ \cup {r}]
                      /\ todo' = [todo EXCEPT ![f] = @ \ {r}]
                      /\ UNCHANGED pc
                 ELSE Goto(f, "wait_create") /\ UNCHANGED <<todo, acquired>>
  /\ UNCHANGED <<woken, shader_vars, instantiated, m_created, set_vars>>

\* Starts over; a resource that was created meanwhile is skipped, with its lock.
obtained_create_lock(f) ==
  /\ Obtained(f, "wait_create")
  /\ Goto(f, "create")
  /\ todo' = [todo EXCEPT ![f] = Required(f)]
  /\ UNCHANGED <<shader_vars, create_vars, set_vars>>

AllAcquired(f) == pc[f] = "create" /\ todo[f] = {}

instantiate(f) ==
  /\ AllAcquired(f) /\ ~(acquired[f] \subseteq m_created)
  /\ instantiated' = [instantiated EXCEPT ![First(acquired[f] \ m_created)] = @ \cup {f}]
  /\ Goto(f, "set_created")
  /\ UNCHANGED <<woken, todo, shader_vars, m_create_access_mutex, acquired, m_created, set_vars>>

set_created(f) ==
  /\ pc[f] = "set_created"
  /\ m_created' = m_created \cup {First(acquired[f] \ m_created)}
  /\ Goto(f, "create")
  /\ UNCHANGED <<woken, todo, shader_vars, m_create_access_mutex, acquired, instantiated, set_vars>>

release_create_lock(f) ==
  /\ AllAcquired(f) /\ acquired[f] # {} /\ acquired[f] \subseteq m_created
  /\ LET r == Last(acquired[f]) IN
     /\ woken' = woken \cup next_owner(m_create_access_mutex[r])
     /\ m_create_access_mutex' = [m_create_access_mutex EXCEPT ![r] = Tail(@)]
     /\ acquired' = [acquired EXCEPT ![f] = @ \ {r}]
  /\ UNCHANGED <<pc, todo, shader_vars, instantiated, m_created, set_vars>>

---------------------------------------------------------------------------
(* PipelineFactory::update_missing_descriptor_sets. *)

Current(f) == Sets[f][set_index[f]]
UsesSet(f, i) == IF i \in DOMAIN Sets[f] THEN Bound(Sets[f][i]) ELSE {}

\* The next set index: the lock that we were woken up with was for the previous one.
SearchNext(f) ==
  /\ set_index' = [set_index EXCEPT ![f] = @ + 1]
  /\ todo' = [todo EXCEPT ![f] = UsesSet(f, set_index[f] + 1)]
  /\ m_have_lock' = [m_have_lock EXCEPT ![f] = FALSE]
  /\ matches' = [matches EXCEPT ![f] = {}]

initialize_shader_resources_per_set_index(f) ==
  /\ AllAcquired(f) /\ acquired[f] = {}
  /\ Goto(f, "search")
  /\ todo' = [todo EXCEPT ![f] = UsesSet(f, 1)]
  /\ UNCHANGED <<woken, shader_vars, create_vars, set_vars>>

Searching(f) == pc[f] = "search" /\ set_index[f] <= Len(Sets[f])
FirstOfSet(f) == todo[f] = Bound(Current(f))

NeedsLock(f) == FirstOfSet(f) /\ ~m_have_lock[f]

(* Mutant: waits at once, with the locks of the previous set indexes. *)
return_false_at_once(f) ==
  /\ Goto(f, "wait_set")
  /\ m_set_index' = [m_set_index EXCEPT ![f] = set_index[f]]
  /\ missing' = [missing EXCEPT ![f] = {}]
  /\ UNCHANGED <<set_index, descriptor_sets, m_descriptor_set_per_set_index>>

\* The lock is taken: first finish the set indexes that were processed already.
return_false(f) ==
  /\ Goto(f, IF missing[f] = {} THEN "wait_set" ELSE "allocate")
  /\ m_set_index' = [m_set_index EXCEPT ![f] = IF missing[f] = {} THEN set_index[f] ELSE @]
  /\ UNCHANGED <<set_index, missing, descriptor_sets, m_descriptor_set_per_set_index>>

lock_set_layout_binding(f) ==
  /\ Searching(f) /\ NeedsLock(f)
  /\ LET r == First(todo[f])
         k == SetLayoutBinding(Current(f), r)
     IN /\ m_mutex' = [m_mutex EXCEPT ![r][k] = Append(@, f)]
        /\ IF m_mutex[r][k] = <<>>
             THEN /\ m_have_lock' = [m_have_lock EXCEPT ![f] = TRUE]
                  /\ UNCHANGED <<pc, m_set_index, set_index, missing, descriptor_sets, m_descriptor_set_per_set_index>>
             ELSE return_false(f) /\ UNCHANGED m_have_lock
  /\ UNCHANGED <<woken, todo, shader_vars, create_vars, matches, handles>>

obtained_set_layout_binding_lock(f) ==
  /\ Obtained(f, "wait_set")
  /\ Goto(f, "search")
  /\ m_have_lock' = [m_have_lock EXCEPT ![f] = TRUE]
  /\ UNCHANGED <<todo, shader_vars, create_vars, m_mutex, m_set_index, set_index, matches, missing, descriptor_sets,
                 handles, m_descriptor_set_per_set_index>>

\* The descriptor sets that this resource, and all before it, are bound to.
BoundToAll(f, r) ==
  LET found == handles[r][SetLayoutBinding(Current(f), r)]
  IN IF FirstOfSet(f) THEN found ELSE matches[f] \cap found

\* No descriptor set is bound to all resources so far: keep the lock and go on.
set_is_missing(f) ==
  /\ Searching(f) /\ ~NeedsLock(f)
  /\ BoundToAll(f, First(todo[f])) = {}
  /\ missing' = [missing EXCEPT ![f] = @ \cup {set_index[f]}]
  /\ SearchNext(f)
  /\ UNCHANGED <<pc, woken, shader_vars, create_vars, m_mutex, m_set_index, descriptor_sets, handles,
                 m_descriptor_set_per_set_index>>

still_have_match(f) ==
  /\ Searching(f) /\ ~NeedsLock(f)
  /\ LET r == First(todo[f]) IN
     /\ todo[f] # {r}
     /\ BoundToAll(f, r) # {}
     /\ matches' = [matches EXCEPT ![f] = BoundToAll(f, r)]
     /\ todo' = [todo EXCEPT ![f] = @ \ {r}]
  /\ UNCHANGED <<pc, woken, shader_vars, create_vars, m_mutex, m_set_index, set_index, m_have_lock, missing,
                 descriptor_sets, handles, m_descriptor_set_per_set_index>>

unlock_set_layout_binding(f, r, k) ==
  /\ m_mutex' = [m_mutex EXCEPT ![r][k] = Tail(@)]
  /\ woken' = woken \cup next_owner(m_mutex[r][k])

have_match(f) ==
  /\ Searching(f) /\ ~NeedsLock(f)
  /\ LET r == First(todo[f])
         first == First(Bound(Current(f)))
     IN /\ todo[f] = {r}
        /\ \E d \in BoundToAll(f, r) :
             m_descriptor_set_per_set_index' = [m_descriptor_set_per_set_index EXCEPT ![f][set_index[f]] = d]
        /\ unlock_set_layout_binding(f, first, SetLayoutBinding(Current(f), first))
  /\ SearchNext(f)
  /\ UNCHANGED <<pc, shader_vars, create_vars, m_set_index, missing, descriptor_sets, handles>>

searched(f) ==
  /\ pc[f] = "search" /\ set_index[f] > Len(Sets[f])
  /\ Goto(f, IF missing[f] = {} THEN "done" ELSE "allocate")
  /\ UNCHANGED <<woken, todo, shader_vars, create_vars, set_vars>>

---------------------------------------------------------------------------
(* PipelineFactory::allocate_update_add_handles_and_unlocking. *)

allocate_descriptor_sets(f) ==
  /\ pc[f] = "allocate"
  /\ LET new(i) == Len(descriptor_sets) + Cardinality({j \in missing[f] : j <= i})
         owner(d) == CHOOSE i \in missing[f] : new(i) = d
     IN /\ descriptor_sets' = descriptor_sets \o
             [n \in 1..Cardinality(missing[f]) |->
               [b \in DOMAIN Sets[f][owner(Len(descriptor_sets) + n)] |-> 0]]
        /\ m_descriptor_set_per_set_index' = [m_descriptor_set_per_set_index EXCEPT ![f] =
             [i \in DOMAIN @ |-> IF i \in missing[f] THEN new(i) ELSE @[i]]]
  /\ todo' = [todo EXCEPT ![f] = Bound(Sets[f][First(missing[f])])]
  /\ Goto(f, "update")
  /\ UNCHANGED <<woken, shader_vars, create_vars, m_mutex, m_set_index, set_index, m_have_lock, matches, missing, handles>>

Updated(f) == First(missing[f])

(* Mutant: in the order in which they are searched. *)
NextUpdated_first(f) == First(todo[f])

\* The resources are added in reverse, so that the one that is locked is the last.
NextUpdated(f) == Last(todo[f])

update_descriptor_set(f) ==
  /\ pc[f] = "update"
  /\ LET r == NextUpdated(f)
         k == SetLayoutBinding(Sets[f][Updated(f)], r)
     IN descriptor_sets' = [descriptor_sets EXCEPT ![m_descriptor_set_per_set_index[f][Updated(f)]][k[2]] = r]
  /\ Goto(f, "add")
  /\ UNCHANGED <<woken, todo, shader_vars, create_vars, m_mutex, m_set_index, set_index, m_have_lock, matches, missing,
                 handles, m_descriptor_set_per_set_index>>

\* The last set index was added: return to where the search was.
AddedAll(f) ==
  IF set_index[f] <= Len(Sets[f])
    THEN /\ Goto(f, "wait_set")
         /\ m_set_index' = [m_set_index EXCEPT ![f] = set_index[f]]
         /\ todo' = [todo EXCEPT ![f] = Bound(Current(f))]
    ELSE Goto(f, "done") /\ todo' = [todo EXCEPT ![f] = {}] /\ UNCHANGED m_set_index

add_set_layout_binding(f) ==
  /\ pc[f] = "add"
  /\ LET i == Updated(f)
         r == NextUpdated(f)
         k == SetLayoutBinding(Sets[f][i], r)
     IN /\ handles' = [handles EXCEPT ![r][k] = @ \cup {m_descriptor_set_per_set_index[f][i]}]
        /\ IF r = First(Bound(Sets[f][i])) THEN unlock_set_layout_binding(f, r, k) ELSE UNCHANGED <<woken, m_mutex>>
        /\ IF todo[f] # {r}
             THEN todo' = [todo EXCEPT ![f] = @ \ {r}] /\ Goto(f, "update") /\ UNCHANGED <<m_set_index, missing>>
             ELSE /\ missing' = [missing EXCEPT ![f] = @ \ {i}]
                  /\ IF missing[f] = {i}
                       THEN AddedAll(f)
                       ELSE /\ todo' = [todo EXCEPT ![f] = Bound(Sets[f][First(missing[f] \ {i})])]
                            /\ Goto(f, "update") /\ UNCHANGED m_set_index
  /\ UNCHANGED <<shader_vars, create_vars, set_index, m_have_lock, matches, descriptor_sets,
                 m_descriptor_set_per_set_index>>

---------------------------------------------------------------------------
Factory(f) ==
  \/ lock_shader(f) \/ obtained_shader_lock(f) \/ realize_shader(f) \/ compile(f) \/ characteristics_compiled(f)
  \/ acquire_create_lock(f) \/ obtained_create_lock(f) \/ instantiate(f) \/ set_created(f) \/ release_create_lock(f)
  \/ initialize_shader_resources_per_set_index(f) \/ lock_set_layout_binding(f)
  \/ obtained_set_layout_binding_lock(f) \/ set_is_missing(f) \/ still_have_match(f) \/ have_match(f)
  \/ searched(f) \/ allocate_descriptor_sets(f) \/ update_descriptor_set(f) \/ add_set_layout_binding(f)

Next == \E f \in Factories : Factory(f)

Spec == Init /\ [][Next]_vars

\* The thread pool runs every task that does not wait.
FairSpec == Spec /\ \A f \in Factories : WF_vars(Factory(f))

---------------------------------------------------------------------------
(* Properties. *)

\* No shader is compiled by two tasks, neither at the same time nor one after the other.
ShadersCompiledOnce ==
  \A s \in ShaderIndexes :
    /\ Cardinality(m_shader_module[s]) <= 1
    /\ \A f \in Factories : pc[f] = "compile" /\ CurrentShader(f) = s =>
         /\ m_shader_module[s] = {}
         /\ \A g \in Factories \ {f} : pc[g] = "compile" => CurrentShader(g) # s

\* Only one factory instantiates a resource, and nobody uses it before that is done.
ResourcesCreatedOnce ==
  /\ \A r \in Resources : Cardinality(instantiated[r]) <= 1
  /\ \A f \in Factories :
       pc[f] \in {"search", "wait_set", "allocate", "update", "add", "done"} => Required(f) \subseteq m_created

\* There are never two descriptor sets with the same layout that bind the same resources.
DescriptorSetsUnique ==
  \A d, e \in 1..Len(descriptor_sets) :
    d # e /\ (\A b \in DOMAIN descriptor_sets[d] : descriptor_sets[d][b] # 0) => descriptor_sets[d] # descriptor_sets[e]

\* A pipeline gets descriptor sets that are bound to exactly its own resources, and
\* every handle that others may find was updated before it was added.
DescriptorSetsRight ==
  /\ \A f \in Factories : pc[f] = "done" =>
       \A i \in DOMAIN Sets[f] : descriptor_sets[m_descriptor_set_per_set_index[f][i]] = Sets[f][i]
  /\ \A r \in Resources, k \in SetLayoutBindings : \A d \in handles[r][k] :
       Len(descriptor_sets[d]) = k[1] /\ descriptor_sets[d][k[2]] = r

\* A factory that waits for the mutex of a descriptor set owns none itself.
NoHoldAndWait ==
  \A f \in Factories : pc[f] = "wait_set" /\ f \notin woken =>
    \A r \in Resources, k \in SetLayoutBindings : m_mutex[r][k] # <<>> => Head(m_mutex[r][k]) # f

\* Every factory gets everything that its pipeline needs.
EveryFactoryContinues == \A f \in Factories : <>(pc[f] = "done")
=========================================================================
