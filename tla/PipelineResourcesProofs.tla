----------------------- MODULE PipelineResourcesProofs -----------------------
(* Proofs about PipelineResources, for any number of factories, shaders and resources. *)
EXTENDS PipelineResources, FiniteSetTheorems, SequenceTheorems, WellFoundedInduction, TLAPS

ShaderPhase == {"shaders", "wait_shader", "realize_shader", "compile"}
CreatePhase == {"create", "wait_create", "set_created"}
SetPhase == {"search", "wait_set", "allocate", "update", "add", "done"}

Types ==
  /\ pc \in [Factories -> ShaderPhase \cup CreatePhase \cup SetPhase]
  /\ m_added_shaders_index \in [Factories -> Nat \ {0}]
  /\ m_task_mutex \in [ShaderIndexes -> Seq(Factories)]
  /\ m_shader_module \in [ShaderIndexes -> SUBSET Factories]
  /\ m_create_access_mutex \in [Resources -> Seq(Factories)]
  /\ m_mutex \in [Resources -> [SetLayoutBindings -> Seq(Factories)]]
  /\ todo \in [Factories -> SUBSET Resources] /\ acquired \in [Factories -> SUBSET Resources]
  /\ set_index \in [Factories -> Nat \ {0}] /\ missing \in [Factories -> SUBSET Nat]
  /\ m_have_lock \in [Factories -> BOOLEAN]

(* Who was handed a mutex waits for it, or will. *)
Woken ==
  /\ woken \subseteq Factories
  /\ \A f \in woken : pc[f] \in {"wait_shader", "wait_create", "wait_set", "allocate", "update", "add"}

(* The mutex of a shader: those behind the owner wait, the owner is using the shader or
   was told that it may; who compiles it found that nobody did before. *)
ShaderQueues ==
  /\ \A f \in Factories : pc[f] \in {"wait_shader", "realize_shader", "compile"} =>
       m_added_shaders_index[f] \in 1..Len(m_added_shaders[f])
  /\ \A s \in ShaderIndexes : \A f, g \in m_shader_module[s] : f = g
  /\ \A s \in ShaderIndexes, f \in Factories :
       /\ \A i \in 2..Len(m_task_mutex[s]) : m_task_mutex[s][i] = f =>
            /\ pc[f] = "wait_shader" /\ CurrentShader(f) = s /\ f \notin woken
            /\ \A j \in 2..Len(m_task_mutex[s]) : m_task_mutex[s][j] = f => i = j
       /\ m_task_mutex[s] # <<>> /\ m_task_mutex[s][1] = f =>
            /\ CurrentShader(f) = s
            /\ pc[f] \in {"realize_shader", "compile"} \/ (pc[f] = "wait_shader" /\ f \in woken)
  /\ \A f \in Factories : pc[f] \in {"realize_shader", "compile"} \/ (pc[f] = "wait_shader" /\ f \in woken) =>
       /\ m_task_mutex[CurrentShader(f)] # <<>>
       /\ m_task_mutex[CurrentShader(f)][1] = f
  /\ \A f \in Factories : pc[f] = "compile" => m_shader_module[CurrentShader(f)] = {}

(* The mutex of a resource that must be created: those behind the owner wait. *)
CreateQueues ==
  \A r \in Resources, f \in Factories :
    /\ \A i \in 2..Len(m_create_access_mutex[r]) : m_create_access_mutex[r][i] = f =>
         /\ pc[f] = "wait_create" /\ First(todo[f]) = r /\ f \notin woken
         /\ \A j \in 2..Len(m_create_access_mutex[r]) : m_create_access_mutex[r][j] = f => i = j
    /\ r \in acquired[f] => m_create_access_mutex[r] # <<>> /\ m_create_access_mutex[r][1] = f

(* The set indexes of a factory. *)
IndexesOf(f) ==
  /\ set_index[f] <= Len(Sets[f]) + 1
  /\ \A i \in missing[f] : i \in 1..(set_index[f] - 1)
  /\ pc[f] \notin SetPhase => set_index[f] = 1
  /\ pc[f] \notin {"search", "allocate", "update", "add"} => missing[f] = {}
  /\ pc[f] \in {"allocate", "update", "add"} => missing[f] # {}
  /\ pc[f] = "wait_set" => set_index[f] <= Len(Sets[f])
  /\ m_have_lock[f] => pc[f] = "search" /\ set_index[f] <= Len(Sets[f])
  /\ pc[f] = "search" /\ set_index[f] <= Len(Sets[f]) /\ todo[f] # Bound(Current(f)) => m_have_lock[f]
  /\ pc[f] \in {"update", "add"} => First(Bound(Sets[f][Updated(f)])) \in todo[f]
                                    /\ todo[f] \subseteq Bound(Sets[f][Updated(f)])

SetIndexes == \A f \in Factories : IndexesOf(f)

(* The mutex of a set index is that of its first resource. *)
LockOf(f, i) == LET r == First(Bound(Sets[f][i])) IN <<r, SetLayoutBinding(Sets[f][i], r)>>
Queue(lock) == m_mutex[lock[1]][lock[2]]
Locks == Resources \X SetLayoutBindings
Locked(f) == missing[f] \cup (IF m_have_lock[f] THEN {set_index[f]} ELSE {})
Waits(f) == pc[f] = "wait_set" \/ (pc[f] \in {"allocate", "update", "add"} /\ set_index[f] <= Len(Sets[f]))

Owns(f) == {LockOf(f, i) : i \in Locked(f)}
           \cup (IF Waits(f) /\ f \in woken THEN {LockOf(f, set_index[f])} ELSE {})

SetQueues ==
  /\ \A lock \in Locks, f \in Factories :
       /\ \A i \in 2..Len(Queue(lock)) : Queue(lock)[i] = f =>
            /\ Waits(f) /\ LockOf(f, set_index[f]) = lock /\ f \notin woken
            /\ \A j \in 2..Len(Queue(lock)) : Queue(lock)[j] = f => i = j
       /\ lock \in Owns(f) <=> Queue(lock) # <<>> /\ Queue(lock)[1] = f
  /\ \A f \in woken : pc[f] \in SetPhase => Waits(f)

IInv == Types /\ Woken /\ ShaderQueues /\ CreateQueues /\ SetIndexes /\ SetQueues

USE PipelineResourcesAssumption

--------------------------------------------------------------------------------

(* The first and the last of some resources are among them. *)
LEMMA FirstIn ==
  ASSUME NEW S \in SUBSET Nat, S # {}
  PROVE  First(S) \in S /\ \A q \in S : First(S) <= q
<1> DEFINE Less == {ss \in Nat \X Nat : ss[1] < ss[2]}
<1>1. IsWellFoundedOn(Less, Nat)
  BY NatLessThanWellFounded DEF OpToRel
<1>2. PICK c \in S : \A d \in S : <<d, c>> \notin Less
  <2> HIDE DEF Less
  <2>1. S \subseteq Nat
    OBVIOUS
  <2> QED
    BY <1>1, <2>1, WFMin
<1>3. \A d \in S : c <= d
  <2> SUFFICES ASSUME NEW d \in S, ~(c <= d) PROVE FALSE
    OBVIOUS
  <2>1. <<d, c>> \in Nat \X Nat /\ d < c
    OBVIOUS
  <2> QED
    BY <1>2, <2>1
<1> QED
  BY <1>3 DEF First

LEMMA LastIn ==
  ASSUME NEW S \in SUBSET Resources, S # {}
  PROVE  Last(S) \in S /\ \A q \in S : Last(S) >= q
<1>1. PICK n \in Nat : Resources = 1..n
  BY FS_CardinalityType
<1> DEFINE T == {n - r : r \in S}
<1>2. T \in SUBSET Nat /\ T # {}
  <2>1. \A q \in S : n - q \in Nat
    BY <1>1
  <2> QED
    BY <2>1
<1>3. PICK m \in T : \A q \in T : m <= q
  <2> HIDE DEF T
  <2> QED
    BY <1>2, FirstIn
<1>4. PICK r \in S : m = n - r
  OBVIOUS
<1>5. \A q \in S : r >= q
  <2> SUFFICES ASSUME NEW q \in S PROVE r >= q
    OBVIOUS
  <2>1. n - q \in T /\ q \in Nat /\ r \in Nat
    BY <1>1
  <2>2. n - r <= n - q
    BY <1>3, <1>4, <2>1
  <2> QED
    BY <2>1, <2>2
<1> QED
  BY <1>5 DEF Last

(* Adding to the end of a queue, and removing the first. *)
LEMMA AppendTo ==
  ASSUME NEW q \in Seq(Factories), NEW f \in Factories
  PROVE  /\ Append(q, f) \in Seq(Factories) /\ Append(q, f) # <<>>
         /\ Len(Append(q, f)) = Len(q) + 1 /\ Len(q) \in Nat
         /\ \A i \in 1..Len(q) : Append(q, f)[i] = q[i] /\ q[i] \in Factories
         /\ Append(q, f)[Len(q) + 1] = f
         /\ (Len(q) = 0 <=> q = <<>>)
<1>1. Len(q) \in Nat /\ (Len(q) = 0 <=> q = <<>>)
  BY EmptySeq
<1>2. /\ Append(q, f) \in Seq(Factories) /\ Len(Append(q, f)) = Len(q) + 1
      /\ Append(q, f)[Len(q) + 1] = f
  OBVIOUS
<1>3. \A i \in 1..Len(q) : Append(q, f)[i] = q[i] /\ q[i] \in Factories
  OBVIOUS
<1>4. Append(q, f) # <<>>
  BY <1>1, <1>2, EmptySeq
<1> QED
  BY <1>1, <1>2, <1>3, <1>4

LEMMA TailOf ==
  ASSUME NEW q \in Seq(Factories), q # <<>>
  PROVE  /\ Tail(q) \in Seq(Factories) /\ Len(Tail(q)) = Len(q) - 1 /\ Len(q) \in Nat \ {0}
         /\ \A i \in 1..Len(Tail(q)) : Tail(q)[i] = q[i + 1]
         /\ \A i \in 1..Len(q) : q[i] \in Factories
         /\ (Tail(q) # <<>> <=> Len(q) > 1)
         /\ next_owner(q) = IF Tail(q) # <<>> THEN {Tail(q)[1]} ELSE {}
         /\ next_owner(q) \subseteq Factories
<1>1. Tail(q) \in Seq(Factories) /\ Len(Tail(q)) = Len(q) - 1 /\ \A i \in 1..Len(Tail(q)) : Tail(q)[i] = q[i + 1]
  BY HeadTailProperties
<1>2. Len(q) \in Nat \ {0} /\ \A i \in 1..Len(q) : q[i] \in Factories
  BY EmptySeq
<1>3. Tail(q) # <<>> => Len(Tail(q)) \in Nat \ {0}
  BY <1>1, EmptySeq
<1>4. Tail(q) = <<>> => Len(Tail(q)) = 0
  BY EmptySeq
<1>5. Tail(q) # <<>> <=> Len(q) > 1
  <2>1. Tail(q) # <<>> => Len(q) - 1 \in Nat \ {0}
    BY <1>1, <1>3
  <2>2. Tail(q) = <<>> => Len(q) - 1 = 0
    BY <1>1, <1>4
  <2> QED
    BY <1>2, <2>1, <2>2
<1>6. CASE Tail(q) # <<>>
  <2>1. Tail(q)[1] = q[2] /\ q[2] \in Factories /\ Len(q) > 1
    BY <1>1, <1>2, <1>5, <1>6
  <2> QED
    BY <1>1, <1>2, <1>5, <1>6, <2>1 DEF next_owner
<1>7. CASE Tail(q) = <<>>
  BY <1>1, <1>2, <1>5, <1>7 DEF next_owner
<1> QED
  BY <1>6, <1>7

(* Who is behind the owner after a factory was added to a queue, and after its owner left. *)
LEMMA AppendBehind ==
  ASSUME NEW q \in Seq(Factories), NEW f \in Factories, \A j \in 2..Len(q) : q[j] # f,
         NEW i \in 2..Len(Append(q, f)), NEW g, Append(q, f)[i] = g
  PROVE  /\ g = f => q # <<>> /\ \A j \in 2..Len(Append(q, f)) : Append(q, f)[j] = g => i = j
         /\ g # f => /\ i \in 2..Len(q) /\ q[i] = g
                     /\ \A j \in 2..Len(Append(q, f)) : Append(q, f)[j] = g => j \in 2..Len(q) /\ q[j] = g
<1>1. /\ Len(Append(q, f)) = Len(q) + 1 /\ Len(q) \in Nat
      /\ \A j \in 1..Len(q) : Append(q, f)[j] = q[j]
      /\ Append(q, f)[Len(q) + 1] = f
      /\ (Len(q) = 0 <=> q = <<>>)
  BY AppendTo
<1>2. \A j \in 2..Len(Append(q, f)) : (j \in 2..Len(q) /\ Append(q, f)[j] = q[j]) \/ j = Len(q) + 1
  BY <1>1
<1>3. CASE g = f
  <2>1. \A j \in 2..Len(Append(q, f)) : Append(q, f)[j] = f => j = Len(q) + 1
    BY <1>2
  <2>2. i = Len(q) + 1 /\ i >= 2
    BY <1>3, <2>1
  <2> QED
    BY <1>1, <1>3, <2>1, <2>2
<1>4. CASE g # f
  <2>1. \A j \in 2..Len(Append(q, f)) : Append(q, f)[j] = g => j \in 2..Len(q) /\ q[j] = g
    BY <1>1, <1>2, <1>4
  <2> QED
    BY <1>4, <2>1
<1> QED
  BY <1>3, <1>4

LEMMA TailBehind ==
  ASSUME NEW q \in Seq(Factories), q # <<>>, NEW i \in 2..Len(Tail(q)), NEW g, Tail(q)[i] = g,
         \A j \in 2..Len(q) : q[j] = g => \A k \in 2..Len(q) : q[k] = g => j = k
  PROVE  /\ i + 1 \in 2..Len(q) /\ q[i + 1] = g /\ g \notin next_owner(q)
         /\ \A j \in 2..Len(Tail(q)) : Tail(q)[j] = g => i = j
<1>1. /\ Len(Tail(q)) = Len(q) - 1 /\ Len(q) \in Nat \ {0}
      /\ \A j \in 1..Len(Tail(q)) : Tail(q)[j] = q[j + 1]
      /\ (Tail(q) # <<>> <=> Len(q) > 1)
      /\ next_owner(q) = IF Tail(q) # <<>> THEN {Tail(q)[1]} ELSE {}
  BY TailOf
<1>2. \A j \in 2..Len(Tail(q)) : Tail(q)[j] = q[j + 1] /\ j + 1 \in 2..Len(q)
  BY <1>1
<1>3. i + 1 \in 2..Len(q) /\ q[i + 1] = g
  BY <1>2
<1>4. g \notin next_owner(q)
  <2> SUFFICES ASSUME g \in next_owner(q) PROVE FALSE
    OBVIOUS
  <2>1. 2 \in 2..Len(q) /\ q[2] = g
    BY <1>1
  <2>2. i + 1 = 2
    BY <1>3, <2>1
  <2> QED
    BY <2>2
<1>5. \A j \in 2..Len(Tail(q)) : Tail(q)[j] = g => i + 1 = j + 1
  BY <1>2, <1>3
<1> QED
  BY <1>3, <1>4, <1>5

LEMMA ResourcesAreNumbers == Resources \subseteq Nat
BY FS_CardinalityType

(* Every set index has a mutex, and no two of a factory have the same. *)
LEMMA LockType ==
  ASSUME NEW f \in Factories, NEW i \in 1..Len(Sets[f])
  PROVE  /\ Bound(Sets[f][i]) \in SUBSET Resources /\ Bound(Sets[f][i]) # {}
         /\ First(Bound(Sets[f][i])) \in Bound(Sets[f][i])
         /\ \A q \in Bound(Sets[f][i]) : First(Bound(Sets[f][i])) <= q
         /\ LockOf(f, i) \in Locks
<1>1. /\ Sets[f][i] \in Seq(Resources) /\ Sets[f][i] # <<>>
  OBVIOUS
<1>2. Bound(Sets[f][i]) \in SUBSET Resources /\ Bound(Sets[f][i]) # {}
  <2>1. DOMAIN Sets[f][i] = 1..Len(Sets[f][i]) /\ Len(Sets[f][i]) \in Nat \ {0}
    BY <1>1, EmptySeq
  <2>2. \A b \in DOMAIN Sets[f][i] : Sets[f][i][b] \in Resources
    BY <1>1
  <2>3. 1 \in DOMAIN Sets[f][i]
    BY <2>1
  <2> QED
    BY <2>2, <2>3 DEF Bound
<1>3. /\ First(Bound(Sets[f][i])) \in Bound(Sets[f][i])
      /\ \A q \in Bound(Sets[f][i]) : First(Bound(Sets[f][i])) <= q
  BY <1>2, FirstIn, ResourcesAreNumbers
<1>4. i \in DOMAIN Sets[f]
  OBVIOUS
<1>5. \A r \in Bound(Sets[f][i]) : SetLayoutBinding(Sets[f][i], r) \in SetLayoutBindings
  <2> SUFFICES ASSUME NEW r \in Bound(Sets[f][i]) PROVE SetLayoutBinding(Sets[f][i], r) \in SetLayoutBindings
    OBVIOUS
  <2> DEFINE OfSet(g, j) == {SetLayoutBinding(Sets[g][j], q) : q \in Bound(Sets[g][j])}
             OfFactory(g) == UNION {OfSet(g, j) : j \in DOMAIN Sets[g]}
  <2>1. SetLayoutBinding(Sets[f][i], r) \in OfSet(f, i)
    OBVIOUS
  <2>2. SetLayoutBindings = UNION {OfFactory(g) : g \in Factories}
    BY DEF SetLayoutBindings
  <2> HIDE DEF OfSet
  <2>3. SetLayoutBinding(Sets[f][i], r) \in OfFactory(f)
    BY <1>4, <2>1
  <2> HIDE DEF OfFactory
  <2> QED
    BY <2>2, <2>3
<1> QED
  BY <1>2, <1>3, <1>5 DEF LockOf, Locks

LEMMA LocksDiffer ==
  ASSUME NEW f \in Factories, NEW i \in 1..Len(Sets[f]), NEW j \in 1..Len(Sets[f]), i # j
  PROVE  LockOf(f, i) # LockOf(f, j)
<1>1. First(Bound(Sets[f][i])) \in Bound(Sets[f][i]) /\ First(Bound(Sets[f][j])) \in Bound(Sets[f][j])
  BY LockType
<1>2. Bound(Sets[f][i]) \cap Bound(Sets[f][j]) = {}
  <2>1. i \in DOMAIN Sets[f] /\ j \in DOMAIN Sets[f]
    OBVIOUS
  <2> QED
    BY <2>1
<1> QED
  BY <1>1, <1>2 DEF LockOf

--------------------------------------------------------------------------------

LEMMA InitIInv == Init => IInv
<1> SUFFICES ASSUME Init PROVE IInv
  OBVIOUS
<1> USE DEF Init
<1>1. /\ \A f \in Factories : pc[f] = "shaders" /\ todo[f] = {} /\ acquired[f] = {} /\ set_index[f] = 1
                              /\ m_have_lock[f] = FALSE /\ missing[f] = {} /\ m_added_shaders_index[f] = 1
      /\ \A s \in ShaderIndexes : m_task_mutex[s] = <<>> /\ m_shader_module[s] = {}
      /\ \A r \in Resources : m_create_access_mutex[r] = <<>>
      /\ \A lock \in Locks : Queue(lock) = <<>>
      /\ woken = {}
  BY DEF Locks, Queue
<1>2. Types
  <2>1. <<>> \in Seq(Factories) /\ 1 \in Nat \ {0}
    OBVIOUS
  <2>2. m_mutex \in [Resources -> [SetLayoutBindings -> Seq(Factories)]]
    BY <2>1
  <2>3. m_create_access_mutex \in [Resources -> Seq(Factories)] /\ m_task_mutex \in [ShaderIndexes -> Seq(Factories)]
    BY <2>1
  <2>4. set_index \in [Factories -> Nat \ {0}] /\ m_added_shaders_index \in [Factories -> Nat \ {0}]
    BY <2>1
  <2>5. /\ m_shader_module \in [ShaderIndexes -> SUBSET Factories] /\ m_have_lock \in [Factories -> BOOLEAN]
        /\ todo \in [Factories -> SUBSET Resources] /\ acquired \in [Factories -> SUBSET Resources]
        /\ missing \in [Factories -> SUBSET Nat]
    OBVIOUS
  <2>6. pc \in [Factories -> ShaderPhase \cup CreatePhase \cup SetPhase]
    BY DEF ShaderPhase
  <2> HIDE DEF Init
  <2> QED
    BY <2>2, <2>3, <2>4, <2>5, <2>6 DEF Types
<1> HIDE DEF Init
<1>3. Woken /\ CreateQueues
  BY <1>1 DEF Woken, CreateQueues
<1>4. ShaderQueues
  BY <1>1 DEF ShaderQueues
<1>5. SetIndexes
  <2>1. \A f \in Factories : Len(Sets[f]) \in Nat
    OBVIOUS
  <2> QED
    BY <1>1, <2>1 DEF SetIndexes, IndexesOf, SetPhase
<1>6. SetQueues
  <2>1. \A f \in Factories : Owns(f) = {}
    BY <1>1 DEF Owns, Locked
  <2>2. \A lock \in Locks : Queue(lock) = <<>> /\ Len(Queue(lock)) = 0
    BY <1>1
  <2> QED
    BY <1>1, <2>1, <2>2 DEF SetQueues
<1> QED
  BY <1>2, <1>3, <1>4, <1>5, <1>6 DEF IInv

--------------------------------------------------------------------------------

(* What the steps of one phase leave alone in the others. *)
LEMMA ShaderFrame ==
  ASSUME IInv, UNCHANGED shader_vars,
         \A g \in Factories : pc[g] \in ShaderPhase \/ pc'[g] \in ShaderPhase =>
                                pc'[g] = pc[g] /\ (g \in woken' <=> g \in woken)
  PROVE  ShaderQueues'
<1> USE DEF IInv, shader_vars, ShaderPhase
<1>1. UNCHANGED <<m_task_mutex, m_added_shaders_index, m_shader_module>>
  OBVIOUS
<1>3. \A f \in Factories : CurrentShader(f)' = CurrentShader(f)
  BY <1>1 DEF CurrentShader
<1>4. \A f \in Factories : pc'[f] \in {"wait_shader", "realize_shader", "compile"} => pc'[f] = pc[f] /\ (f \in woken' <=> f \in woken)
  OBVIOUS
<1>5. \A f \in Factories : pc[f] \in {"wait_shader", "realize_shader", "compile"} => pc'[f] = pc[f] /\ (f \in woken' <=> f \in woken)
  OBVIOUS
<1> QED
  BY <1>1, <1>3, <1>4, <1>5 DEF ShaderQueues

LEMMA CreateFrame ==
  ASSUME IInv, UNCHANGED <<m_create_access_mutex, acquired>>,
         \A g \in Factories : pc[g] = "wait_create" => pc'[g] = "wait_create" /\ todo'[g] = todo[g]
                                                       /\ (g \in woken' => g \in woken)
  PROVE  CreateQueues'
BY DEF CreateQueues, IInv

LEMMA SetFrame ==
  ASSUME IInv, UNCHANGED <<m_mutex, set_index, m_have_lock, missing>>, woken' \subseteq Factories,
         \A g \in Factories :
           /\ pc[g] \in SetPhase => pc'[g] = pc[g] /\ todo'[g] = todo[g] /\ (g \in woken' <=> g \in woken)
           /\ pc[g] \notin SetPhase => \/ pc'[g] \notin SetPhase
                                       \/ pc'[g] = "search" /\ todo'[g] = UsesSet(g, 1) /\ g \notin woken'
  PROVE  SetQueues' /\ SetIndexes'
<1> USE DEF IInv, SetPhase
<1>2. \A g \in Factories : Waits(g)' = Waits(g) /\ Locked(g)' = Locked(g)
  BY DEF Waits, Locked
<1>3. SetQueues'
  <2>1. \A lock : Queue(lock)' = Queue(lock)
    BY DEF Queue
  <2>2. \A f \in Factories : \A i : LockOf(f, i)' = LockOf(f, i)
    BY DEF LockOf
  <2>3. \A f \in Factories : Waits(f) => pc[f] \in SetPhase /\ (f \in woken' <=> f \in woken)
    BY DEF Waits
  <2>4. \A f \in Factories : Owns(f)' = Owns(f)
    BY <1>2, <2>2, <2>3 DEF Owns
  <2>5. \A lock \in Locks, f \in Factories :
          /\ \A i \in 2..Len(Queue(lock)) : Queue(lock)[i] = f =>
               /\ Waits(f)' /\ LockOf(f, set_index[f]) = lock /\ f \notin woken'
               /\ \A j \in 2..Len(Queue(lock)) : Queue(lock)[j] = f => i = j
          /\ lock \in Owns(f)' <=> Queue(lock) # <<>> /\ Queue(lock)[1] = f
    BY <1>2, <2>3, <2>4 DEF SetQueues
  <2>6. \A f \in woken' : f \in Factories /\ pc'[f] \in SetPhase => Waits(f)'
    BY <1>2, <2>3 DEF SetQueues
  <2>7. woken' \subseteq Factories
    OBVIOUS
  <2> QED
    BY <2>1, <2>2, <2>5, <2>6, <2>7 DEF SetQueues
<1>4. SetIndexes'
  <2> SUFFICES ASSUME NEW f \in Factories PROVE IndexesOf(f)'
    BY DEF SetIndexes
  <2>1. CASE pc[f] \in SetPhase
    BY <2>1 DEF SetIndexes, IndexesOf, Current, Updated
  <2>2. CASE pc[f] \notin SetPhase /\ pc'[f] \notin SetPhase
    BY <2>2 DEF SetIndexes, IndexesOf
  <2>3. CASE pc[f] \notin SetPhase /\ pc'[f] = "search"
    <3>1. set_index[f] = 1 /\ missing[f] = {} /\ ~m_have_lock[f] /\ todo'[f] = UsesSet(f, 1)
      BY <2>3 DEF SetIndexes, IndexesOf
    <3>2. set_index[f] <= Len(Sets[f]) => todo'[f] = Bound(Sets[f][1])
      BY <3>1 DEF UsesSet
    <3> QED
      BY <2>3, <3>1, <3>2 DEF SetIndexes, IndexesOf, Current
  <2> QED
    BY <2>1, <2>2, <2>3
<1> QED
  BY <1>3, <1>4

--------------------------------------------------------------------------------

(* The current shader of a factory that locks or uses it. *)
LEMMA ShaderType ==
  ASSUME IInv, NEW f \in Factories, m_added_shaders_index[f] \in 1..Len(m_added_shaders[f])
  PROVE  CurrentShader(f) \in ShaderIndexes /\ m_task_mutex[CurrentShader(f)] \in Seq(Factories)
<1>1. m_added_shaders[f] \in Seq(ShaderIndexes)
  OBVIOUS
<1>2. CurrentShader(f) \in ShaderIndexes
  BY <1>1, ElementOfSeq DEF CurrentShader
<1> QED
  BY <1>2 DEF IInv, Types

(* Who owns the mutex of a shader hands it to the next one. *)
LEMMA UnlockShader ==
  ASSUME IInv, NEW f \in Factories, pc[f] \in {"realize_shader", "compile"}, unlock_shader(f),
         m_shader_module' = m_shader_module
           \/ (pc[f] = "compile" /\ m_shader_module' = [m_shader_module EXCEPT ![CurrentShader(f)] = @ \cup {f}])
  PROVE  /\ ShaderQueues' /\ m_task_mutex' \in [ShaderIndexes -> Seq(Factories)]
         /\ m_added_shaders_index' \in [Factories -> Nat \ {0}]
         /\ m_shader_module' \in [ShaderIndexes -> SUBSET Factories]
         /\ woken' \subseteq Factories
         /\ \A g \in Factories : g \in woken' \ woken => pc[g] = "wait_shader" /\ pc'[g] = "wait_shader"
         /\ woken \subseteq woken'
<1> USE DEF IInv
<1> DEFINE s == CurrentShader(f)
           q == m_task_mutex[s]
<1>1. /\ m_added_shaders_index[f] \in 1..Len(m_added_shaders[f])
      /\ s \in ShaderIndexes /\ q \in Seq(Factories)
      /\ q # <<>> /\ q[1] = f
  BY ShaderType DEF ShaderQueues
<1>2. /\ woken' = woken \cup next_owner(q)
      /\ m_task_mutex' = [m_task_mutex EXCEPT ![s] = Tail(q)]
      /\ m_added_shaders_index' = [m_added_shaders_index EXCEPT ![f] = m_added_shaders_index[f] + 1]
      /\ pc' = [pc EXCEPT ![f] = "shaders"]
  BY DEF unlock_shader, Goto
<1>3. \A g \in Factories : g # f => CurrentShader(g)' = CurrentShader(g) /\ pc'[g] = pc[g]
                                    /\ m_added_shaders_index'[g] = m_added_shaders_index[g]
  BY <1>2 DEF CurrentShader, Types
<1>4. pc'[f] = "shaders"
  BY <1>2 DEF Types
<1>5. /\ Tail(q) \in Seq(Factories) /\ Len(Tail(q)) = Len(q) - 1 /\ Len(q) \in Nat \ {0}
      /\ \A i \in 1..Len(Tail(q)) : Tail(q)[i] = q[i + 1]
      /\ (Tail(q) # <<>> <=> Len(q) > 1)
      /\ next_owner(q) = IF Tail(q) # <<>> THEN {Tail(q)[1]} ELSE {}
      /\ next_owner(q) \subseteq Factories
  BY <1>1, TailOf
<1>6. \A t \in ShaderIndexes : m_task_mutex'[t] = IF t = s THEN Tail(q) ELSE m_task_mutex[t]
  BY <1>2 DEF Types
<1>7. \A g \in next_owner(q) : /\ g # f /\ pc[g] = "wait_shader" /\ CurrentShader(g) = s /\ g \notin woken
                               /\ g \in Factories /\ q[2] = g /\ 2 \in 2..Len(q) /\ Tail(q) # <<>> /\ Tail(q)[1] = g
  <2> SUFFICES ASSUME NEW g \in next_owner(q)
               PROVE  /\ g # f /\ pc[g] = "wait_shader" /\ CurrentShader(g) = s /\ g \notin woken
                      /\ g \in Factories /\ q[2] = g /\ 2 \in 2..Len(q) /\ Tail(q) # <<>> /\ Tail(q)[1] = g
    OBVIOUS
  <2> HIDE DEF q
  <2>1. Tail(q) # <<>> /\ g = Tail(q)[1] /\ g \in Factories
    BY <1>5
  <2>2. 2 \in 2..Len(q) /\ q[2] = g
    BY <1>5, <2>1
  <2>3. pc[g] = "wait_shader" /\ CurrentShader(g) = s /\ g \notin woken
    BY <1>1, <2>1, <2>2 DEF ShaderQueues, q
  <2> QED
    BY <2>1, <2>2, <2>3
<1>8. m_task_mutex' \in [ShaderIndexes -> Seq(Factories)]
  BY <1>1, <1>2, <1>5 DEF Types
<1>9. m_added_shaders_index' \in [Factories -> Nat \ {0}]
  BY <1>2 DEF Types
<1>10. /\ m_shader_module' \in [ShaderIndexes -> SUBSET Factories]
       /\ \A t \in ShaderIndexes : t # s => m_shader_module'[t] = m_shader_module[t]
       /\ \A g, h \in m_shader_module'[s] : g = h
  <2>1. CASE m_shader_module' = m_shader_module
    BY <1>1, <2>1 DEF Types, ShaderQueues
  <2>2. CASE pc[f] = "compile" /\ m_shader_module' = [m_shader_module EXCEPT ![s] = m_shader_module[s] \cup {f}]
    <3>1. m_shader_module[s] = {}
      BY <2>2 DEF ShaderQueues
    <3>2. m_shader_module' = [m_shader_module EXCEPT ![s] = {f}]
      BY <2>2, <3>1
    <3> QED
      BY <1>1, <3>2 DEF Types
  <2> QED
    BY <2>1, <2>2
<1> HIDE DEF s, q
<1>11. \A g \in Factories : g # f /\ (pc[g] \in {"realize_shader", "compile"} \/ (pc[g] = "wait_shader" /\ g \in woken)) =>
                              CurrentShader(g) # s /\ CurrentShader(g) \in ShaderIndexes
  <2> SUFFICES ASSUME NEW g \in Factories, g # f,
                      pc[g] \in {"realize_shader", "compile"} \/ (pc[g] = "wait_shader" /\ g \in woken)
               PROVE  CurrentShader(g) # s /\ CurrentShader(g) \in ShaderIndexes
    OBVIOUS
  <2>1. CurrentShader(g) \in ShaderIndexes
    BY ShaderType DEF ShaderQueues
  <2>2. m_task_mutex[CurrentShader(g)][1] = g
    BY DEF ShaderQueues
  <2> QED
    BY <1>1, <2>1, <2>2 DEF q
<1>12. ASSUME NEW t \in ShaderIndexes, NEW g \in Factories
       PROVE  /\ \A i \in 2..Len(m_task_mutex'[t]) : m_task_mutex'[t][i] = g =>
                   /\ pc'[g] = "wait_shader" /\ CurrentShader(g)' = t /\ g \notin woken'
                   /\ \A j \in 2..Len(m_task_mutex'[t]) : m_task_mutex'[t][j] = g => i = j
              /\ m_task_mutex'[t] # <<>> /\ m_task_mutex'[t][1] = g =>
                   /\ CurrentShader(g)' = t
                   /\ pc'[g] \in {"realize_shader", "compile"} \/ (pc'[g] = "wait_shader" /\ g \in woken')
  <2>1. CASE t = s
    <3>1. \A i \in 2..Len(Tail(q)) : Tail(q)[i] = q[i + 1] /\ i + 1 \in 2..Len(q)
      BY <1>5
    <3>2. \A i \in 2..Len(q) : q[i] = g => /\ pc[g] = "wait_shader" /\ CurrentShader(g) = s /\ g \notin woken
                                          /\ \A j \in 2..Len(q) : q[j] = g => i = j
      BY <1>1 DEF ShaderQueues, q
    <3>3. \A i \in 2..Len(Tail(q)) : Tail(q)[i] = g =>
            /\ pc'[g] = "wait_shader" /\ CurrentShader(g)' = s /\ g \notin woken'
            /\ \A j \in 2..Len(Tail(q)) : Tail(q)[j] = g => i = j
      <4> SUFFICES ASSUME NEW i \in 2..Len(Tail(q)), Tail(q)[i] = g
                   PROVE  /\ pc'[g] = "wait_shader" /\ CurrentShader(g)' = s /\ g \notin woken'
                          /\ \A j \in 2..Len(Tail(q)) : Tail(q)[j] = g => i = j
        OBVIOUS
      <4>1. g # f /\ pc[g] = "wait_shader" /\ CurrentShader(g) = s /\ g \notin woken
        BY <3>1, <3>2
      <4>2. g \notin next_owner(q)
        <5> SUFFICES ASSUME g \in next_owner(q) PROVE FALSE
          OBVIOUS
        <5>1. q[2] = g /\ 2 \in 2..Len(q) /\ q[i + 1] = g /\ i + 1 \in 2..Len(q)
          BY <1>7, <3>1
        <5>2. i + 1 = 2
          BY <3>2, <5>1
        <5> QED
          BY <5>2
      <4>3. \A j \in 2..Len(Tail(q)) : Tail(q)[j] = g => i + 1 = j + 1
        BY <3>1, <3>2
      <4> QED
        BY <1>2, <1>3, <4>1, <4>2, <4>3
    <3>4. Tail(q) # <<>> /\ Tail(q)[1] = g => CurrentShader(g)' = s /\ pc'[g] = "wait_shader" /\ g \in woken'
      BY <1>2, <1>3, <1>5, <1>7
    <3> QED
      BY <1>6, <2>1, <3>3, <3>4
  <2>2. CASE t # s
    <3>1. m_task_mutex'[t] = m_task_mutex[t]
      BY <1>6, <2>2
    <3>2. \A i \in 2..Len(m_task_mutex[t]) : m_task_mutex[t][i] = g =>
            g # f /\ g \notin next_owner(q)
      BY <1>7, <2>2 DEF ShaderQueues
    <3>3. m_task_mutex[t] # <<>> /\ m_task_mutex[t][1] = g => g # f
      BY <2>2 DEF ShaderQueues, s
    <3>4. /\ \A i \in 2..Len(m_task_mutex[t]) : m_task_mutex[t][i] = g =>
                 /\ pc[g] = "wait_shader" /\ CurrentShader(g) = t /\ g \notin woken
                 /\ \A j \in 2..Len(m_task_mutex[t]) : m_task_mutex[t][j] = g => i = j
          /\ m_task_mutex[t] # <<>> /\ m_task_mutex[t][1] = g =>
                 /\ CurrentShader(g) = t
                 /\ pc[g] \in {"realize_shader", "compile"} \/ (pc[g] = "wait_shader" /\ g \in woken)
      BY DEF ShaderQueues
    <3>5. g # f => CurrentShader(g)' = CurrentShader(g) /\ pc'[g] = pc[g]
      BY <1>3
    <3>6. (g \notin next_owner(q) => (g \in woken' <=> g \in woken)) /\ (g \in woken => g \in woken')
      BY <1>2
    <3> HIDE DEF q
    <3> QED
      BY <3>1, <3>2, <3>3, <3>4, <3>5, <3>6
  <2> QED
    BY <2>1, <2>2
<1>13. ASSUME NEW g \in Factories,
              pc'[g] \in {"realize_shader", "compile"} \/ (pc'[g] = "wait_shader" /\ g \in woken')
       PROVE  m_task_mutex'[CurrentShader(g)'] # <<>> /\ m_task_mutex'[CurrentShader(g)'][1] = g
  <2>1. g # f /\ CurrentShader(g)' = CurrentShader(g) /\ pc'[g] = pc[g]
    BY <1>3, <1>4, <1>13
  <2>2. CASE g \in next_owner(q)
    BY <1>1, <1>6, <1>7, <2>1, <2>2
  <2>3. CASE g \notin next_owner(q)
    <3>1. pc[g] \in {"realize_shader", "compile"} \/ (pc[g] = "wait_shader" /\ g \in woken)
      BY <1>2, <1>13, <2>1, <2>3
    <3>2. CurrentShader(g) # s /\ CurrentShader(g) \in ShaderIndexes
      BY <1>11, <2>1, <3>1
    <3>3. m_task_mutex[CurrentShader(g)] # <<>> /\ m_task_mutex[CurrentShader(g)][1] = g
      BY <3>1 DEF ShaderQueues
    <3> QED
      BY <1>6, <2>1, <3>2, <3>3
  <2> QED
    BY <2>2, <2>3
<1>14. \A g \in Factories : pc'[g] = "compile" => m_shader_module'[CurrentShader(g)'] = {}
  <2> SUFFICES ASSUME NEW g \in Factories, pc'[g] = "compile" PROVE m_shader_module'[CurrentShader(g)'] = {}
    OBVIOUS
  <2>1. g # f /\ CurrentShader(g)' = CurrentShader(g) /\ pc[g] = "compile"
    BY <1>3, <1>4
  <2>2. CurrentShader(g) # s /\ CurrentShader(g) \in ShaderIndexes
    BY <1>11, <2>1
  <2> QED
    BY <1>10, <2>1, <2>2 DEF ShaderQueues
<1>15. \A g \in Factories : pc'[g] \in {"wait_shader", "realize_shader", "compile"} =>
         m_added_shaders_index'[g] \in 1..Len(m_added_shaders[g])
  BY <1>3, <1>4 DEF ShaderQueues
<1>16. \A t \in ShaderIndexes : \A g, h \in m_shader_module'[t] : g = h
  BY <1>10 DEF ShaderQueues
<1>17. ShaderQueues'
  BY <1>12, <1>13, <1>14, <1>15, <1>16 DEF ShaderQueues
<1> QED
  BY <1>2, <1>3, <1>5, <1>7, <1>8, <1>9, <1>10, <1>17 DEF Woken

LEMMA LockShader ==
  ASSUME IInv, NEW f \in Factories, lock_shader(f)
  PROVE  /\ ShaderQueues' /\ m_task_mutex' \in [ShaderIndexes -> Seq(Factories)]
<1> USE DEF IInv
<1> DEFINE s == CurrentShader(f)
           q == m_task_mutex[s]
<1>1. /\ m_added_shaders_index[f] \in 1..Len(m_added_shaders[f])
      /\ s \in ShaderIndexes /\ q \in Seq(Factories) /\ pc[f] = "shaders"
  <2>1. m_added_shaders_index[f] \in 1..Len(m_added_shaders[f]) /\ pc[f] = "shaders"
    BY DEF lock_shader, Types
  <2> QED
    BY <2>1, ShaderType
<1>2. /\ m_task_mutex' = [m_task_mutex EXCEPT ![s] = Append(q, f)]
      /\ pc' = [pc EXCEPT ![f] = IF q = <<>> THEN "realize_shader" ELSE "wait_shader"]
      /\ UNCHANGED <<woken, m_added_shaders_index, m_shader_module>>
  BY DEF lock_shader, Goto
<1>3. \A g \in Factories : CurrentShader(g)' = CurrentShader(g) /\ (g # f => pc'[g] = pc[g])
  BY <1>2 DEF CurrentShader, Types
<1>4. pc'[f] = IF q = <<>> THEN "realize_shader" ELSE "wait_shader"
  BY <1>2 DEF Types
<1>5. /\ Append(q, f) \in Seq(Factories) /\ Append(q, f) # <<>>
      /\ Len(Append(q, f)) = Len(q) + 1 /\ Len(q) \in Nat
      /\ \A i \in 1..Len(q) : Append(q, f)[i] = q[i] /\ q[i] \in Factories
      /\ Append(q, f)[Len(q) + 1] = f
      /\ (Len(q) = 0 <=> q = <<>>)
  BY <1>1, AppendTo
<1>6. \A t \in ShaderIndexes : m_task_mutex'[t] = IF t = s THEN Append(q, f) ELSE m_task_mutex[t]
  BY <1>2 DEF Types
<1>7. f \notin woken
  BY <1>1 DEF Woken
<1>8. m_task_mutex' \in [ShaderIndexes -> Seq(Factories)]
  BY <1>1, <1>2, <1>5 DEF Types
<1>9. \A t \in ShaderIndexes, g \in Factories :
        /\ \A i \in 2..Len(m_task_mutex[t]) : m_task_mutex[t][i] = g =>
             /\ pc[g] = "wait_shader" /\ CurrentShader(g) = t /\ g \notin woken
             /\ \A j \in 2..Len(m_task_mutex[t]) : m_task_mutex[t][j] = g => i = j
        /\ m_task_mutex[t] # <<>> /\ m_task_mutex[t][1] = g =>
             /\ CurrentShader(g) = t
             /\ pc[g] \in {"realize_shader", "compile"} \/ (pc[g] = "wait_shader" /\ g \in woken)
  BY DEF ShaderQueues
<1>10. q # <<>> => q[1] \in Factories /\ Append(q, f)[1] = q[1]
  BY <1>5
<1> HIDE DEF s, q
<1>11. ASSUME NEW t \in ShaderIndexes, NEW g \in Factories
       PROVE  /\ \A i \in 2..Len(m_task_mutex'[t]) : m_task_mutex'[t][i] = g =>
                   /\ pc'[g] = "wait_shader" /\ CurrentShader(g)' = t /\ g \notin woken'
                   /\ \A j \in 2..Len(m_task_mutex'[t]) : m_task_mutex'[t][j] = g => i = j
              /\ m_task_mutex'[t] # <<>> /\ m_task_mutex'[t][1] = g =>
                   /\ CurrentShader(g)' = t
                   /\ pc'[g] \in {"realize_shader", "compile"} \/ (pc'[g] = "wait_shader" /\ g \in woken')
  <2>1. CASE t = s
    <3>1. m_task_mutex'[t] = Append(q, f) /\ m_task_mutex[t] = q
      BY <1>6, <2>1 DEF q
    <3>2. CASE g = f
      <4>1. \A i \in 1..Len(q) : q[i] # f
        <5> SUFFICES ASSUME NEW i \in 1..Len(q), q[i] = f PROVE FALSE
          OBVIOUS
        <5>1. i = 1 \/ i \in 2..Len(q)
          BY <1>5
        <5>2. q # <<>>
          BY <1>5
        <5> QED
          BY <1>1, <1>9, <3>1, <5>1, <5>2
      <4>2. \A i \in 1..(Len(q) + 1) : Append(q, f)[i] = f => i = Len(q) + 1
        BY <1>5, <4>1
      <4>3. \A i \in 2..(Len(q) + 1) : Append(q, f)[i] = f => i = Len(q) + 1 /\ q # <<>>
        BY <1>5, <4>2
      <4>4. Append(q, f)[1] = f => q = <<>>
        BY <1>5, <1>10, <4>1
      <4>5. CurrentShader(f) = s
        BY DEF s
      <4> QED
        BY <1>2, <1>3, <1>4, <1>5, <1>7, <2>1, <3>1, <3>2, <4>3, <4>4, <4>5
    <3>3. CASE g # f
      <4>1. \A i \in 2..(Len(q) + 1) : Append(q, f)[i] = g => i \in 2..Len(q) /\ q[i] = g
        BY <1>5, <3>3
      <4>2. Append(q, f)[1] = g => q # <<>> /\ q[1] = g
        BY <1>5, <1>10, <3>3
      <4> QED
        BY <1>2, <1>3, <1>5, <1>9, <2>1, <3>1, <3>3, <4>1, <4>2
    <3> QED
      BY <3>2, <3>3
  <2>2. CASE t # s
    <3>1. m_task_mutex'[t] = m_task_mutex[t]
      BY <1>6, <2>2
    <3>2. /\ \A i \in 2..Len(m_task_mutex[t]) : m_task_mutex[t][i] = g =>
               /\ pc[g] = "wait_shader" /\ CurrentShader(g) = t /\ g \notin woken
               /\ \A j \in 2..Len(m_task_mutex[t]) : m_task_mutex[t][j] = g => i = j
          /\ m_task_mutex[t] # <<>> /\ m_task_mutex[t][1] = g =>
               /\ CurrentShader(g) = t
               /\ pc[g] \in {"realize_shader", "compile"} \/ (pc[g] = "wait_shader" /\ g \in woken)
      BY <1>9
    <3>3. pc[g] # "shaders" => pc'[g] = pc[g]
      BY <1>1, <1>3
    <3>4. CurrentShader(g)' = CurrentShader(g) /\ woken' = woken
      BY <1>2, <1>3
    <3> QED
      BY <3>1, <3>2, <3>3, <3>4
  <2> QED
    BY <2>1, <2>2
<1>12. ASSUME NEW g \in Factories,
              pc'[g] \in {"realize_shader", "compile"} \/ (pc'[g] = "wait_shader" /\ g \in woken')
       PROVE  m_task_mutex'[CurrentShader(g)'] # <<>> /\ m_task_mutex'[CurrentShader(g)'][1] = g
  <2>1. CASE g = f
    <3>1. q = <<>>
      BY <1>2, <1>4, <1>7, <1>12, <2>1
    <3>2. CurrentShader(g)' = s /\ m_task_mutex'[s] = Append(q, f)
      BY <1>1, <1>3, <1>6, <2>1 DEF s
    <3>3. Append(q, f)[1] = f
      BY <1>5, <3>1
    <3> QED
      BY <1>5, <2>1, <3>2, <3>3
  <2>2. CASE g # f
    <3>1. /\ m_task_mutex[CurrentShader(g)] # <<>> /\ m_task_mutex[CurrentShader(g)][1] = g
          /\ m_added_shaders_index[g] \in 1..Len(m_added_shaders[g])
      BY <1>2, <1>3, <1>12, <2>2 DEF ShaderQueues
    <3>2. CurrentShader(g) \in ShaderIndexes
      BY <3>1, ShaderType
    <3>3. m_task_mutex'[CurrentShader(g)] # <<>> /\ m_task_mutex'[CurrentShader(g)][1] = g
      BY <1>5, <1>6, <1>10, <3>1, <3>2 DEF q
    <3> QED
      BY <1>3, <3>3
  <2> QED
    BY <2>1, <2>2
<1>13. /\ \A g \in Factories : pc'[g] \in {"wait_shader", "realize_shader", "compile"} =>
            m_added_shaders_index'[g] \in 1..Len(m_added_shaders[g])
       /\ \A g \in Factories : pc'[g] = "compile" => m_shader_module'[CurrentShader(g)'] = {}
       /\ \A t \in ShaderIndexes : \A g, h \in m_shader_module'[t] : g = h
  BY <1>1, <1>2, <1>3, <1>4 DEF ShaderQueues
<1> QED
  BY <1>8, <1>11, <1>12, <1>13 DEF ShaderQueues

(* A step of a characteristic task. *)
LEMMA ShaderStep ==
  ASSUME IInv, NEW f \in Factories,
         \/ lock_shader(f) \/ obtained_shader_lock(f) \/ realize_shader(f) \/ compile(f) \/ characteristics_compiled(f)
  PROVE  IInv'
<1> USE DEF IInv
<1>1. /\ pc[f] \in ShaderPhase
      /\ \E l \in ShaderPhase \cup {"create"} : pc' = [pc EXCEPT ![f] = l]
      /\ UNCHANGED <<m_create_access_mutex, acquired, m_mutex, set_index, m_have_lock, missing>>
      /\ todo' = todo \/ todo' = [todo EXCEPT ![f] = Required(f)]
  BY DEF lock_shader, obtained_shader_lock, realize_shader, compile, characteristics_compiled, unlock_shader, Goto,
         Obtained, create_vars, set_vars, ShaderPhase
<1>2. \A g \in Factories : g # f => pc'[g] = pc[g] /\ todo'[g] = todo[g]
  BY <1>1 DEF Types
<1>3. /\ ShaderQueues' /\ m_task_mutex' \in [ShaderIndexes -> Seq(Factories)]
      /\ m_added_shaders_index' \in [Factories -> Nat \ {0}]
      /\ m_shader_module' \in [ShaderIndexes -> SUBSET Factories]
      /\ woken' \subseteq Factories
      /\ \A g \in Factories : g \in woken' \ woken => pc[g] = "wait_shader" /\ pc'[g] = "wait_shader"
      /\ \A g \in woken : g # f => g \in woken'
      /\ f \in woken' => pc'[f] \in {"wait_shader", "wait_create", "wait_set", "allocate", "update", "add"}
  <2>1. CASE lock_shader(f)
    <3>1. UNCHANGED <<woken, m_added_shaders_index, m_shader_module>> /\ pc[f] = "shaders"
      BY <2>1 DEF lock_shader
    <3> QED
      BY <2>1, <3>1, LockShader DEF Types, Woken
  <2>2. CASE obtained_shader_lock(f)
    <3>1. /\ UNCHANGED <<m_task_mutex, m_added_shaders_index, m_shader_module>> /\ pc[f] = "wait_shader"
          /\ pc' = [pc EXCEPT ![f] = "realize_shader"] /\ f \in woken /\ woken' = woken \ {f}
      BY <2>2 DEF obtained_shader_lock, Obtained, shader_vars, Goto
    <3>2. \A g \in Factories : CurrentShader(g)' = CurrentShader(g)
      BY <3>1 DEF CurrentShader
    <3>3. pc'[f] = "realize_shader"
      BY <3>1 DEF Types
    <3>4. ShaderQueues'
      BY <1>2, <3>1, <3>2, <3>3 DEF ShaderQueues
    <3> QED
      BY <3>1, <3>4 DEF Types, Woken
  <2>3. CASE realize_shader(f) /\ m_shader_module[CurrentShader(f)] = {}
    <3>1. /\ UNCHANGED <<m_task_mutex, m_added_shaders_index, m_shader_module, woken>> /\ pc[f] = "realize_shader"
          /\ pc' = [pc EXCEPT ![f] = "compile"]
      BY <2>3 DEF realize_shader, Goto
    <3>2. \A g \in Factories : CurrentShader(g)' = CurrentShader(g)
      BY <3>1 DEF CurrentShader
    <3>3. pc'[f] = "compile"
      BY <3>1 DEF Types
    <3>4. ShaderQueues'
      BY <1>2, <2>3, <3>1, <3>2, <3>3 DEF ShaderQueues
    <3> QED
      BY <3>1, <3>4 DEF Types, Woken
  <2>4. CASE (realize_shader(f) /\ m_shader_module[CurrentShader(f)] # {}) \/ compile(f)
    <3>1. /\ pc[f] \in {"realize_shader", "compile"} /\ unlock_shader(f)
          /\ \/ m_shader_module' = m_shader_module
             \/ pc[f] = "compile" /\ m_shader_module' = [m_shader_module EXCEPT ![CurrentShader(f)] = @ \cup {f}]
      BY <2>4 DEF realize_shader, compile
    <3>2. f \notin woken
      BY <3>1 DEF Woken
    <3> QED
      BY <3>1, <3>2, UnlockShader
  <2>5. CASE characteristics_compiled(f)
    <3>1. /\ UNCHANGED <<m_task_mutex, m_added_shaders_index, m_shader_module, woken>> /\ pc[f] = "shaders"
          /\ pc' = [pc EXCEPT ![f] = "create"]
      BY <2>5 DEF characteristics_compiled, Goto, shader_vars
    <3>2. \A g \in Factories : CurrentShader(g)' = CurrentShader(g)
      BY <3>1 DEF CurrentShader
    <3>3. pc'[f] = "create"
      BY <3>1 DEF Types
    <3>4. ShaderQueues'
      BY <1>2, <3>1, <3>2, <3>3 DEF ShaderQueues
    <3> QED
      BY <3>1, <3>4 DEF Types, Woken
  <2> QED
    BY <2>1, <2>2, <2>3, <2>4, <2>5
<1>4. Types'
  <2>1. Required(f) \in SUBSET Resources
    <3> SUFFICES ASSUME NEW i \in DOMAIN Sets[f] PROVE Bound(Sets[f][i]) \subseteq Resources
      BY DEF Required
    <3>1. i \in 1..Len(Sets[f])
      OBVIOUS
    <3> QED
      BY <3>1, LockType
  <2>2. todo' \in [Factories -> SUBSET Resources]
    BY ZenonT(30), <1>1, <2>1 DEF Types
  <2>3. pc' \in [Factories -> ShaderPhase \cup CreatePhase \cup SetPhase]
    BY <1>1 DEF Types, CreatePhase
  <2> QED
    BY <1>1, <1>3, <2>2, <2>3 DEF Types
<1>5. Woken'
  BY <1>2, <1>3 DEF Woken
<1>6. CreateQueues'
  BY <1>1, <1>2, <1>3, CreateFrame DEF ShaderPhase
<1>7. SetQueues' /\ SetIndexes'
  <2>1. pc[f] \notin SetPhase /\ pc'[f] \notin SetPhase
    BY <1>1 DEF Types, ShaderPhase, SetPhase
  <2>2. \A g \in Factories : pc[g] \in SetPhase => g # f /\ pc[g] # "wait_shader"
    BY <2>1 DEF SetPhase
  <2>3. \A g \in Factories :
          /\ pc[g] \in SetPhase => pc'[g] = pc[g] /\ todo'[g] = todo[g] /\ (g \in woken' <=> g \in woken)
          /\ pc[g] \notin SetPhase => pc'[g] \notin SetPhase
    BY <1>2, <1>3, <2>1, <2>2
  <2> QED
    BY <1>1, <1>3, <2>3, SetFrame
<1> QED
  BY <1>3, <1>4, <1>5, <1>6, <1>7

--------------------------------------------------------------------------------

LEMMA LockResource ==
  ASSUME IInv, NEW f \in Factories, acquire_create_lock(f)
  PROVE  CreateQueues' /\ m_create_access_mutex' \in [Resources -> Seq(Factories)]
         /\ todo' \in [Factories -> SUBSET Resources] /\ acquired' \in [Factories -> SUBSET Resources]
<1> USE DEF IInv
<1> DEFINE r == First(todo[f])
           q == m_create_access_mutex[r]
<1>1. r \in Resources /\ q \in Seq(Factories) /\ pc[f] = "create" /\ r \in todo[f]
  <2>1. todo[f] \in SUBSET Resources /\ todo[f] # {} /\ pc[f] = "create"
    BY DEF acquire_create_lock, Types
  <2>2. r \in todo[f]
    BY <2>1, FirstIn, ResourcesAreNumbers
  <2> QED
    BY <2>1, <2>2 DEF Types
<1>2. woken' = woken
  BY DEF acquire_create_lock
<1>3. f \notin woken
  BY <1>1 DEF Woken
<1>4. CASE r \in m_created
  <2>1. todo' = [todo EXCEPT ![f] = @ \ {r}] /\ UNCHANGED <<pc, m_create_access_mutex, acquired>>
    BY <1>4 DEF acquire_create_lock
  <2>2. CreateQueues'
    BY <1>1, <1>2, <2>1 DEF CreateQueues, Types
  <2> QED
    BY <2>1, <2>2 DEF Types
<1>5. CASE r \notin m_created
  <2>1. /\ m_create_access_mutex' = [m_create_access_mutex EXCEPT ![r] = Append(q, f)]
        /\ q = <<>> => /\ acquired' = [acquired EXCEPT ![f] = acquired[f] \cup {r}] /\ pc' = pc
                       /\ todo' = [todo EXCEPT ![f] = @ \ {r}]
        /\ q # <<>> => acquired' = acquired /\ todo' = todo /\ pc' = [pc EXCEPT ![f] = "wait_create"]
    BY <1>5 DEF acquire_create_lock, Goto
  <2>2. /\ Append(q, f) \in Seq(Factories) /\ Append(q, f) # <<>>
        /\ Len(Append(q, f)) = Len(q) + 1 /\ Len(q) \in Nat
        /\ \A i \in 1..Len(q) : Append(q, f)[i] = q[i] /\ q[i] \in Factories
        /\ Append(q, f)[Len(q) + 1] = f
        /\ (Len(q) = 0 <=> q = <<>>)
    BY <1>1, AppendTo
  <2>3. \A p \in Resources : m_create_access_mutex'[p] = IF p = r THEN Append(q, f) ELSE m_create_access_mutex[p]
    BY <2>1 DEF Types
  <2>4. /\ \A g \in Factories : g # f => pc'[g] = pc[g] /\ todo'[g] = todo[g] /\ acquired'[g] = acquired[g]
        /\ q # <<>> => pc'[f] = "wait_create" /\ todo'[f] = todo[f] /\ acquired'[f] = acquired[f]
        /\ q = <<>> => acquired'[f] = acquired[f] \cup {r}
    BY <2>1 DEF Types
  <2>5. \A p \in Resources, g \in Factories :
          /\ \A i \in 2..Len(m_create_access_mutex[p]) : m_create_access_mutex[p][i] = g =>
               /\ pc[g] = "wait_create" /\ First(todo[g]) = p /\ g \notin woken
               /\ \A j \in 2..Len(m_create_access_mutex[p]) : m_create_access_mutex[p][j] = g => i = j
          /\ p \in acquired[g] => m_create_access_mutex[p] # <<>> /\ m_create_access_mutex[p][1] = g
    BY DEF CreateQueues
  <2>6. q # <<>> => Append(q, f)[1] = q[1]
    BY <2>2
  <2>7. First(todo[f]) = r
    OBVIOUS
  <2>8. m_create_access_mutex[r] = q
    OBVIOUS
  <2> HIDE DEF r, q
  <2>9. ASSUME NEW p \in Resources, NEW g \in Factories, NEW i \in 2..Len(m_create_access_mutex'[p]),
               m_create_access_mutex'[p][i] = g
        PROVE  /\ pc'[g] = "wait_create" /\ First(todo'[g]) = p /\ g \notin woken'
               /\ \A j \in 2..Len(m_create_access_mutex'[p]) : m_create_access_mutex'[p][j] = g => i = j
    <3>1. CASE p = r
      <4>1. \A j \in 2..Len(q) : q[j] # f
        BY <1>1, <2>5, <2>8
      <4>2. i \in 2..Len(Append(q, f)) /\ Append(q, f)[i] = g /\ m_create_access_mutex'[p] = Append(q, f)
        BY <2>3, <2>9, <3>1
      <4>3. /\ g = f => q # <<>> /\ \A j \in 2..Len(Append(q, f)) : Append(q, f)[j] = g => i = j
            /\ g # f => /\ i \in 2..Len(q) /\ q[i] = g
                        /\ \A j \in 2..Len(Append(q, f)) : Append(q, f)[j] = g => j \in 2..Len(q) /\ q[j] = g
        BY <1>1, <4>1, <4>2, AppendBehind
      <4>4. CASE g = f
        BY <1>2, <1>3, <2>4, <2>7, <3>1, <4>2, <4>3, <4>4
      <4>5. CASE g # f
        <5>1. m_create_access_mutex[p] = q /\ i \in 2..Len(q) /\ q[i] = g
          BY <2>8, <3>1, <4>3, <4>5
        <5>2. /\ pc[g] = "wait_create" /\ First(todo[g]) = p /\ g \notin woken
              /\ \A j \in 2..Len(m_create_access_mutex[p]) : m_create_access_mutex[p][j] = g => i = j
          BY <2>5, <5>1
        <5> QED
          BY <1>2, <2>4, <4>2, <4>3, <4>5, <5>1, <5>2
      <4> QED
        BY <4>4, <4>5
    <3>2. CASE p # r
      <4>1. m_create_access_mutex'[p] = m_create_access_mutex[p]
        BY <2>3, <3>2
      <4>2. pc[g] = "wait_create" /\ First(todo[g]) = p /\ g \notin woken
        BY <2>5, <2>9, <4>1
      <4>3. g # f
        BY <1>1, <4>2
      <4> QED
        BY <1>2, <2>4, <2>5, <2>9, <4>1, <4>2, <4>3
    <3> QED
      BY <3>1, <3>2
  <2>10. ASSUME NEW p \in Resources, NEW g \in Factories, p \in acquired'[g]
         PROVE  m_create_access_mutex'[p] # <<>> /\ m_create_access_mutex'[p][1] = g
    <3>1. CASE p \in acquired[g]
      <4>1. m_create_access_mutex[p] # <<>> /\ m_create_access_mutex[p][1] = g
        BY <2>5, <3>1
      <4> QED
        BY <2>2, <2>3, <2>6, <2>8, <4>1
    <3>2. CASE p \notin acquired[g]
      <4>1. g = f /\ p = r /\ q = <<>>
        BY <2>4, <2>10, <3>2
      <4> QED
        BY <2>2, <2>3, <4>1
    <3> QED
      BY <3>1, <3>2
  <2>11. CreateQueues'
    BY <2>9, <2>10 DEF CreateQueues
  <2>12. m_create_access_mutex' \in [Resources -> Seq(Factories)]
    BY <2>1, <2>2 DEF Types
  <2>13. todo' \in [Factories -> SUBSET Resources] /\ acquired' \in [Factories -> SUBSET Resources]
    <3>1. /\ todo' = todo \/ todo' = [todo EXCEPT ![f] = todo[f] \ {r}]
          /\ acquired' = acquired \/ acquired' = [acquired EXCEPT ![f] = acquired[f] \cup {r}]
      BY <2>1
    <3>2. /\ todo[f] \ {r} \in SUBSET Resources /\ acquired[f] \cup {r} \in SUBSET Resources
          /\ todo \in [Factories -> SUBSET Resources] /\ acquired \in [Factories -> SUBSET Resources]
      BY <1>1 DEF Types
    <3> QED
      BY <3>1, <3>2
  <2> QED
    BY <2>11, <2>12, <2>13
<1> QED
  BY <1>4, <1>5

(* Who owns the mutex of a resource hands it to the next one. *)
LEMMA ReleaseResource ==
  ASSUME IInv, NEW f \in Factories, release_create_lock(f)
  PROVE  /\ CreateQueues' /\ m_create_access_mutex' \in [Resources -> Seq(Factories)]
         /\ acquired' \in [Factories -> SUBSET Resources]
         /\ woken' \subseteq Factories /\ woken \subseteq woken'
         /\ \A g \in woken' \ woken : pc[g] = "wait_create"
<1> USE DEF IInv
<1> DEFINE r == Last(acquired[f])
           q == m_create_access_mutex[r]
<1>1. r \in Resources /\ r \in acquired[f] /\ q \in Seq(Factories) /\ q # <<>> /\ q[1] = f
  <2>1. acquired[f] \in SUBSET Resources /\ acquired[f] # {}
    BY DEF release_create_lock, Types
  <2>2. r \in acquired[f]
    BY <2>1, LastIn
  <2> QED
    BY <2>1, <2>2 DEF Types, CreateQueues
<1>2. /\ woken' = woken \cup next_owner(q) /\ UNCHANGED <<pc, todo>>
      /\ m_create_access_mutex' = [m_create_access_mutex EXCEPT ![r] = Tail(q)]
      /\ acquired' = [acquired EXCEPT ![f] = acquired[f] \ {r}]
  BY DEF release_create_lock
<1>3. /\ Tail(q) \in Seq(Factories) /\ Len(Tail(q)) = Len(q) - 1 /\ Len(q) \in Nat \ {0}
      /\ \A i \in 1..Len(Tail(q)) : Tail(q)[i] = q[i + 1]
      /\ (Tail(q) # <<>> <=> Len(q) > 1)
      /\ next_owner(q) = IF Tail(q) # <<>> THEN {Tail(q)[1]} ELSE {}
      /\ next_owner(q) \subseteq Factories
  BY <1>1, TailOf
<1>4. \A p \in Resources : m_create_access_mutex'[p] = IF p = r THEN Tail(q) ELSE m_create_access_mutex[p]
  BY <1>2 DEF Types
<1>5. \A p \in Resources, g \in Factories :
        /\ \A i \in 2..Len(m_create_access_mutex[p]) : m_create_access_mutex[p][i] = g =>
             /\ pc[g] = "wait_create" /\ First(todo[g]) = p /\ g \notin woken
             /\ \A j \in 2..Len(m_create_access_mutex[p]) : m_create_access_mutex[p][j] = g => i = j
        /\ p \in acquired[g] => m_create_access_mutex[p] # <<>> /\ m_create_access_mutex[p][1] = g
  BY DEF CreateQueues
<1>6. m_create_access_mutex[r] = q
  OBVIOUS
<1>7. acquired' \in [Factories -> SUBSET Resources] /\ m_create_access_mutex' \in [Resources -> Seq(Factories)]
  BY <1>1, <1>2, <1>3 DEF Types
<1>8. \A g \in Factories : /\ acquired'[g] = IF g = f THEN acquired[f] \ {r} ELSE acquired[g]
                           /\ g # f => r \notin acquired[g]
  BY <1>1, <1>2, <1>5, <1>6 DEF Types
<1> HIDE DEF r, q
<1>9. \A g \in next_owner(q) : /\ q[2] = g /\ 2 \in 2..Len(q) /\ g \in Factories /\ First(todo[g]) = r
                               /\ pc[g] = "wait_create" /\ g \notin woken
  <2> SUFFICES ASSUME NEW g \in next_owner(q)
               PROVE  /\ q[2] = g /\ 2 \in 2..Len(q) /\ g \in Factories /\ First(todo[g]) = r
                      /\ pc[g] = "wait_create" /\ g \notin woken
    OBVIOUS
  <2>1. Tail(q) # <<>> /\ g = Tail(q)[1] /\ g \in Factories
    BY <1>3
  <2>2. 2 \in 2..Len(q) /\ q[2] = g
    BY <1>3, <2>1
  <2> QED
    BY <1>1, <1>5, <1>6, <2>1, <2>2
<1>10. ASSUME NEW p \in Resources, NEW g \in Factories, NEW i \in 2..Len(m_create_access_mutex'[p]),
              m_create_access_mutex'[p][i] = g
       PROVE  /\ pc'[g] = "wait_create" /\ First(todo'[g]) = p /\ g \notin woken'
              /\ \A j \in 2..Len(m_create_access_mutex'[p]) : m_create_access_mutex'[p][j] = g => i = j
  <2>1. CASE p = r
    <3>1. m_create_access_mutex'[p] = Tail(q) /\ m_create_access_mutex[p] = q
      BY <1>4, <1>6, <2>1
    <3>2. \A j \in 2..Len(q) : q[j] = g => \A k \in 2..Len(q) : q[k] = g => j = k
      BY <1>5, <3>1
    <3>3. /\ i + 1 \in 2..Len(q) /\ q[i + 1] = g /\ g \notin next_owner(q)
          /\ \A j \in 2..Len(Tail(q)) : Tail(q)[j] = g => i = j
      BY SMTT(30), <1>1, <1>10, <3>1, <3>2, TailBehind
    <3>4. pc[g] = "wait_create" /\ First(todo[g]) = p /\ g \notin woken
      BY <1>5, <3>1, <3>3
    <3> QED
      BY <1>2, <3>1, <3>3, <3>4
  <2>2. CASE p # r
    <3>1. m_create_access_mutex'[p] = m_create_access_mutex[p]
      BY <1>4, <2>2
    <3>2. /\ pc[g] = "wait_create" /\ First(todo[g]) = p /\ g \notin woken
          /\ \A j \in 2..Len(m_create_access_mutex[p]) : m_create_access_mutex[p][j] = g => i = j
      BY <1>5, <1>10, <3>1
    <3>3. g \notin next_owner(q)
      BY <1>9, <2>2, <3>2
    <3> QED
      BY <1>2, <3>1, <3>2, <3>3
  <2> QED
    BY <2>1, <2>2
<1>11. \A p \in Resources, g \in Factories :
         p \in acquired'[g] => m_create_access_mutex'[p] # <<>> /\ m_create_access_mutex'[p][1] = g
  BY <1>4, <1>5, <1>8
<1>12. CreateQueues'
  BY <1>10, <1>11 DEF CreateQueues
<1> QED
  BY <1>2, <1>3, <1>7, <1>9, <1>12 DEF Woken

(* A step of a factory that creates its shader resources. *)
LEMMA CreateStep ==
  ASSUME IInv, NEW f \in Factories,
         \/ acquire_create_lock(f) \/ obtained_create_lock(f) \/ instantiate(f) \/ set_created(f)
         \/ release_create_lock(f) \/ initialize_shader_resources_per_set_index(f)
  PROVE  IInv'
<1> USE DEF IInv
<1>1. /\ pc[f] \in CreatePhase
      /\ pc' = pc \/ \E l \in CreatePhase \cup {"search"} : pc' = [pc EXCEPT ![f] = l]
      /\ UNCHANGED <<shader_vars, m_mutex, set_index, m_have_lock, missing>>
  BY DEF acquire_create_lock, obtained_create_lock, instantiate, set_created, release_create_lock,
         initialize_shader_resources_per_set_index, AllAcquired, Goto, Obtained, set_vars, CreatePhase
<1>2. \A g \in Factories : g # f => pc'[g] = pc[g]
  BY <1>1 DEF Types
<1>3. /\ CreateQueues' /\ m_create_access_mutex' \in [Resources -> Seq(Factories)]
      /\ todo' \in [Factories -> SUBSET Resources] /\ acquired' \in [Factories -> SUBSET Resources]
      /\ woken' \subseteq Factories
      /\ \A g \in woken' \ woken : pc[g] = "wait_create" /\ pc'[g] = "wait_create"
      /\ \A g \in woken : g # f => g \in woken'
      /\ f \in woken' => pc'[f] = "wait_create"
      /\ \A g \in Factories : g # f => todo'[g] = todo[g]
      /\ pc'[f] = "search" => todo'[f] = UsesSet(f, 1)
  <2>1. CASE acquire_create_lock(f)
    <3>1. woken' = woken /\ pc[f] = "create" /\ \A g \in Factories : g # f => todo'[g] = todo[g]
      BY <2>1 DEF acquire_create_lock, Types
    <3>2. f \notin woken /\ pc'[f] # "search"
      BY <2>1, <3>1 DEF Woken, acquire_create_lock, Goto, Types
    <3> QED
      BY <2>1, <3>1, <3>2, LockResource DEF Woken
  <2>2. CASE obtained_create_lock(f)
    <3>1. /\ woken' = woken \ {f} /\ f \in woken /\ pc' = [pc EXCEPT ![f] = "create"]
          /\ todo' = [todo EXCEPT ![f] = Required(f)]
          /\ UNCHANGED <<m_create_access_mutex, acquired>>
      BY <2>2 DEF obtained_create_lock, Obtained, Goto, create_vars
    <3>2. Required(f) \in SUBSET Resources
      <4> SUFFICES ASSUME NEW i \in DOMAIN Sets[f] PROVE Bound(Sets[f][i]) \subseteq Resources
        BY DEF Required
      <4>1. i \in 1..Len(Sets[f])
        OBVIOUS
      <4> QED
        BY <4>1, LockType
    <3>3. todo' \in [Factories -> SUBSET Resources] /\ \A g \in Factories : g # f => todo'[g] = todo[g]
      BY <3>1, <3>2 DEF Types
    <3>4. pc'[f] = "create"
      BY <3>1 DEF Types
    <3>5. CreateQueues'
      BY <1>2, <3>1, <3>3 DEF CreateQueues
    <3> QED
      BY <3>1, <3>3, <3>4, <3>5 DEF Types, Woken
  <2>3. CASE instantiate(f) \/ set_created(f) \/ initialize_shader_resources_per_set_index(f)
    <3>1. /\ UNCHANGED <<woken, m_create_access_mutex, acquired>> /\ pc[f] \in {"create", "set_created"}
          /\ \/ pc' = [pc EXCEPT ![f] = "set_created"] /\ todo' = todo
             \/ pc' = [pc EXCEPT ![f] = "create"] /\ todo' = todo
             \/ pc' = [pc EXCEPT ![f] = "search"] /\ todo' = [todo EXCEPT ![f] = UsesSet(f, 1)]
      BY <2>3 DEF instantiate, set_created, initialize_shader_resources_per_set_index, AllAcquired, Goto, create_vars
    <3>2. UsesSet(f, 1) \in SUBSET Resources
      <4>1. CASE 1 \in DOMAIN Sets[f]
        <5>1. 1 \in 1..Len(Sets[f])
          BY <4>1
        <5> QED
          BY <4>1, <5>1, LockType DEF UsesSet
      <4>2. CASE 1 \notin DOMAIN Sets[f]
        BY <4>2 DEF UsesSet
      <4> QED
        BY <4>1, <4>2
    <3>3. todo' \in [Factories -> SUBSET Resources] /\ \A g \in Factories : g # f => todo'[g] = todo[g]
      <4>1. todo' = todo \/ todo' = [todo EXCEPT ![f] = UsesSet(f, 1)]
        BY <3>1
      <4>2. todo \in [Factories -> SUBSET Resources]
        BY DEF Types
      <4> QED
        BY <3>2, <4>1, <4>2
    <3>6. pc'[f] = "search" => todo'[f] = UsesSet(f, 1)
      BY <3>1 DEF Types
    <3>4. f \notin woken
      BY <3>1 DEF Woken
    <3>5. CreateQueues'
      BY <1>2, <3>1, <3>3 DEF CreateQueues
    <3> QED
      BY <3>1, <3>3, <3>4, <3>5, <3>6 DEF Types, Woken
  <2>4. CASE release_create_lock(f)
    <3>1. UNCHANGED <<pc, todo>> /\ pc[f] = "create"
      BY <2>4 DEF release_create_lock, AllAcquired
    <3>2. f \notin woken
      BY <3>1 DEF Woken
    <3> QED
      BY <2>4, <3>1, <3>2, ReleaseResource DEF Types
  <2> QED
    BY <2>1, <2>2, <2>3, <2>4
<1>4. Types'
  <2>1. pc' \in [Factories -> ShaderPhase \cup CreatePhase \cup SetPhase]
    BY <1>1 DEF Types, SetPhase
  <2> QED
    BY <1>1, <1>3, <2>1 DEF Types, shader_vars
<1>5. Woken'
  BY <1>2, <1>3 DEF Woken
<1>6. pc'[f] \in CreatePhase \cup {"search"} /\ pc[f] \notin ShaderPhase \cup SetPhase /\ pc'[f] \notin ShaderPhase
  BY <1>1 DEF Types, CreatePhase, ShaderPhase, SetPhase
<1>7. ShaderQueues'
  <2>1. \A g \in Factories : pc[g] \in ShaderPhase \/ pc'[g] \in ShaderPhase =>
                                pc'[g] = pc[g] /\ (g \in woken' <=> g \in woken)
    BY <1>2, <1>3, <1>6 DEF ShaderPhase
  <2> QED
    BY <1>1, <2>1, ShaderFrame
<1>8. SetQueues' /\ SetIndexes'
  <2>1. \A g \in Factories :
           /\ pc[g] \in SetPhase => pc'[g] = pc[g] /\ todo'[g] = todo[g] /\ (g \in woken' <=> g \in woken)
           /\ pc[g] \notin SetPhase => \/ pc'[g] \notin SetPhase
                                       \/ pc'[g] = "search" /\ todo'[g] = UsesSet(g, 1) /\ g \notin woken'
    BY <1>2, <1>3, <1>6 DEF SetPhase, CreatePhase
  <2> QED
    BY <1>1, <1>3, <2>1, SetFrame
<1> QED
  BY <1>3, <1>4, <1>5, <1>7, <1>8

--------------------------------------------------------------------------------

(* What a factory owns are mutexes of its own set indexes. *)
LEMMA OwnsType ==
  ASSUME IInv, NEW f \in Factories
  PROVE  /\ Owns(f) \subseteq Locks
         /\ \A i \in Locked(f) : i \in 1..Len(Sets[f])
         /\ Waits(f) => set_index[f] \in 1..Len(Sets[f])
<1>1. /\ set_index[f] \in Nat \ {0} /\ set_index[f] <= Len(Sets[f]) + 1 /\ Len(Sets[f]) \in Nat
      /\ \A i \in missing[f] : i \in 1..(set_index[f] - 1)
      /\ pc[f] = "wait_set" => set_index[f] <= Len(Sets[f])
      /\ m_have_lock[f] => set_index[f] <= Len(Sets[f])
  BY DEF IInv, Types, SetIndexes, IndexesOf
<1>2. \A i \in Locked(f) : i \in 1..Len(Sets[f])
  BY <1>1 DEF Locked
<1>3. Waits(f) => set_index[f] \in 1..Len(Sets[f])
  BY <1>1 DEF Waits
<1> QED
  BY <1>2, <1>3, LockType DEF Owns

(* Only this factory changes what it waits for and owns. *)
Others(f) ==
  \A g \in Factories \ {f} : pc'[g] = pc[g] /\ set_index'[g] = set_index[g] /\ m_have_lock'[g] = m_have_lock[g]
                             /\ missing'[g] = missing[g]

LEMMA OthersOwn ==
  ASSUME IInv, NEW f \in Factories, Others(f), NEW g \in Factories \ {f}, g \in woken' <=> g \in woken
  PROVE  (Waits(g)' <=> Waits(g)) /\ Owns(g)' = Owns(g)
<1>1. (Waits(g)' <=> Waits(g)) /\ Locked(g)' = Locked(g)
  BY DEF Others, Waits, Locked
<1>2. \A i : LockOf(g, i)' = LockOf(g, i)
  BY DEF LockOf
<1> QED
  BY <1>1, <1>2 DEF Owns, Others

(* The factory continues with the mutexes that it has. *)
LEMMA KeepQueues ==
  ASSUME IInv, NEW f \in Factories, Others(f), UNCHANGED m_mutex, woken' \subseteq woken,
         \A g \in Factories \ {f} : g \in woken' <=> g \in woken,
         f \in woken' => Waits(f)', Owns(f)' = Owns(f),
         Waits(f) /\ f \notin woken => Waits(f)' /\ set_index'[f] = set_index[f]
  PROVE  SetQueues'
<1> USE DEF IInv
<1>1. \A lock : Queue(lock)' = Queue(lock)
  BY DEF Queue
<1>2. \A g \in Factories : Owns(g)' = Owns(g)
  BY OthersOwn
<1>3. \A g \in Factories \ {f} : (Waits(g)' <=> Waits(g)) /\ set_index'[g] = set_index[g] /\ pc'[g] = pc[g]
  BY OthersOwn DEF Others
<1>4. \A g \in Factories : \A i : LockOf(g, i)' = LockOf(g, i)
  BY DEF LockOf
<1>5. \A g \in Factories : Waits(g) /\ g \notin woken => Waits(g)' /\ set_index'[g] = set_index[g] /\ g \notin woken'
  BY <1>3
<1>6. \A lock \in Locks, g \in Factories :
        /\ \A i \in 2..Len(Queue(lock)) : Queue(lock)[i] = g =>
             /\ Waits(g)' /\ LockOf(g, set_index'[g]) = lock /\ g \notin woken'
             /\ \A j \in 2..Len(Queue(lock)) : Queue(lock)[j] = g => i = j
        /\ lock \in Owns(g)' <=> Queue(lock) # <<>> /\ Queue(lock)[1] = g
  BY <1>2, <1>5 DEF SetQueues
<1>7. \A g \in woken' : pc'[g] \in SetPhase => Waits(g)'
  BY <1>3 DEF SetQueues, Woken
<1> QED
  BY <1>1, <1>4, <1>6, <1>7 DEF SetQueues

(* The queues of the other mutexes are not changed. *)
LEMMA OneQueue ==
  ASSUME IInv, NEW k \in Locks, NEW q \in Seq(Factories), m_mutex' = [m_mutex EXCEPT ![k[1]][k[2]] = q]
  PROVE  /\ m_mutex' \in [Resources -> [SetLayoutBindings -> Seq(Factories)]]
         /\ \A lock \in Locks : Queue(lock)' = IF lock = k THEN q ELSE Queue(lock)
<1>1. k[1] \in Resources /\ k[2] \in SetLayoutBindings /\ k = <<k[1], k[2]>>
  BY DEF Locks
<1>2. m_mutex \in [Resources -> [SetLayoutBindings -> Seq(Factories)]]
  BY DEF IInv, Types
<1>3. m_mutex' \in [Resources -> [SetLayoutBindings -> Seq(Factories)]]
  BY <1>1, <1>2
<1>4. \A r \in Resources, b \in SetLayoutBindings : m_mutex'[r][b] = IF r = k[1] /\ b = k[2] THEN q ELSE m_mutex[r][b]
  BY <1>1, <1>2
<1>5. ASSUME NEW lock \in Locks PROVE Queue(lock)' = IF lock = k THEN q ELSE Queue(lock)
  <2>1. lock[1] \in Resources /\ lock[2] \in SetLayoutBindings /\ lock = <<lock[1], lock[2]>>
    BY DEF Locks
  <2>2. lock = k <=> lock[1] = k[1] /\ lock[2] = k[2]
    BY <1>1, <2>1
  <2> QED
    BY <1>4, <2>1, <2>2 DEF Queue
<1> QED
  BY <1>3, <1>5

(* The factory takes the mutex of its current set index, or waits for it. *)
LEMMA LockSet ==
  ASSUME IInv, NEW f \in Factories, Others(f), woken' = woken, f \notin woken, ~Waits(f),
         set_index'[f] = set_index[f], NEW k \in Locks, k = LockOf(f, set_index[f]), k \notin Owns(f),
         m_mutex' = [m_mutex EXCEPT ![k[1]][k[2]] = Append(Queue(k), f)],
         Queue(k) = <<>> => Owns(f)' = Owns(f) \cup {k},
         Queue(k) # <<>> => Owns(f)' = Owns(f) /\ Waits(f)'
  PROVE  SetQueues' /\ m_mutex' \in [Resources -> [SetLayoutBindings -> Seq(Factories)]]
<1> USE DEF IInv
<1> DEFINE q == Queue(k)
<1>1. q \in Seq(Factories)
  BY DEF Types, Queue, Locks
<1>2. /\ Append(q, f) \in Seq(Factories) /\ Append(q, f) # <<>>
      /\ q = <<>> => Append(q, f)[1] = f
      /\ q # <<>> => Append(q, f)[1] = q[1]
  <2>1. /\ Append(q, f) \in Seq(Factories) /\ Append(q, f) # <<>>
        /\ Len(q) \in Nat /\ (Len(q) = 0 <=> q = <<>>)
        /\ \A i \in 1..Len(q) : Append(q, f)[i] = q[i]
        /\ Append(q, f)[Len(q) + 1] = f
    BY <1>1, AppendTo
  <2>2. q # <<>> => 1 \in 1..Len(q)
    BY <2>1
  <2>3. q = <<>> => Len(q) + 1 = 1
    BY <2>1
  <2> QED
    BY <2>1, <2>2, <2>3
<1>3. /\ m_mutex' \in [Resources -> [SetLayoutBindings -> Seq(Factories)]]
      /\ \A lock \in Locks : Queue(lock)' = IF lock = k THEN Append(q, f) ELSE Queue(lock)
  BY <1>2, OneQueue
<1>4. \A g \in Factories \ {f} : (Waits(g)' <=> Waits(g)) /\ Owns(g)' = Owns(g) /\ set_index'[g] = set_index[g]
  BY OthersOwn DEF Others
<1>5. \A g \in Factories : \A i : LockOf(g, i)' = LockOf(g, i)
  BY DEF LockOf
<1>6. \A lock \in Locks, g \in Factories :
        /\ \A i \in 2..Len(Queue(lock)) : Queue(lock)[i] = g =>
             /\ Waits(g) /\ LockOf(g, set_index[g]) = lock /\ g \notin woken
             /\ \A j \in 2..Len(Queue(lock)) : Queue(lock)[j] = g => i = j
        /\ lock \in Owns(g) <=> Queue(lock) # <<>> /\ Queue(lock)[1] = g
  BY DEF SetQueues
<1>7. \A lock \in Locks : \A i \in 2..Len(Queue(lock)) : Queue(lock)[i] # f
  BY <1>6
<1>8. Queue(k) = q
  OBVIOUS
<1>9. /\ q = <<>> => Owns(f)' = Owns(f) \cup {k}
      /\ q # <<>> => Owns(f)' = Owns(f) /\ Waits(f)'
  OBVIOUS
<1> HIDE DEF q
<1>10. ASSUME NEW lock \in Locks, NEW g \in Factories, NEW i \in 2..Len(Queue(lock)'), Queue(lock)'[i] = g
       PROVE  /\ Waits(g)' /\ LockOf(g, set_index'[g]) = lock /\ g \notin woken'
              /\ \A j \in 2..Len(Queue(lock)') : Queue(lock)'[j] = g => i = j
  <2>1. CASE lock = k
    <3>1. Queue(lock)' = Append(q, f) /\ \A j \in 2..Len(q) : q[j] # f
      BY <1>3, <1>7, <1>8, <2>1
    <3>2. i \in 2..Len(Append(q, f)) /\ Append(q, f)[i] = g
      BY <1>10, <3>1
    <3>3. /\ g = f => q # <<>> /\ \A j \in 2..Len(Append(q, f)) : Append(q, f)[j] = g => i = j
          /\ g # f => /\ i \in 2..Len(q) /\ q[i] = g
                      /\ \A j \in 2..Len(Append(q, f)) : Append(q, f)[j] = g => j \in 2..Len(q) /\ q[j] = g
      BY <1>1, <3>1, <3>2, AppendBehind
    <3>4. CASE g = f
      BY <1>9, <2>1, <3>1, <3>3, <3>4
    <3>5. CASE g # f
      <4>1. /\ Waits(g) /\ LockOf(g, set_index[g]) = lock /\ g \notin woken
            /\ \A j \in 2..Len(q) : q[j] = g => i = j
        BY <1>6, <1>8, <2>1, <3>3, <3>5
      <4> QED
        BY <1>4, <3>1, <3>3, <3>5, <4>1
    <3> QED
      BY <3>4, <3>5
  <2>2. CASE lock # k
    <3>1. Queue(lock)' = Queue(lock)
      BY <1>3, <2>2
    <3>2. g # f
      BY <1>7, <1>10, <3>1
    <3> QED
      BY <1>4, <1>6, <1>10, <3>1, <3>2
  <2> QED
    BY <2>1, <2>2
<1>11. ASSUME NEW lock \in Locks, NEW g \in Factories
       PROVE  lock \in Owns(g)' <=> Queue(lock)' # <<>> /\ Queue(lock)'[1] = g
  <2>1. CASE lock = k
    <3>1. Queue(lock)' = Append(q, f)
      BY <1>3, <2>1
    <3>2. lock \in Owns(g) <=> q # <<>> /\ q[1] = g
      BY <1>6, <1>8, <2>1
    <3>3. CASE g = f
      BY <1>2, <1>9, <2>1, <3>1, <3>2, <3>3
    <3>4. CASE g # f
      BY <1>2, <1>4, <3>1, <3>2, <3>4
    <3> QED
      BY <3>3, <3>4
  <2>2. CASE lock # k
    <3>1. Queue(lock)' = Queue(lock) /\ (lock \in Owns(g)' <=> lock \in Owns(g))
      BY <1>3, <1>4, <1>9, <2>2
    <3> QED
      BY <1>6, <3>1
  <2> QED
    BY <2>1, <2>2
<1>12. \A g \in woken' : pc'[g] \in SetPhase => Waits(g)'
  BY <1>4 DEF SetQueues, Others, Woken
<1>13. SetQueues'
  BY <1>5, <1>10, <1>11, <1>12 DEF SetQueues
<1> QED
  BY <1>3, <1>13

(* The factory hands over the mutex of one of its set indexes. *)
LocksWithout(f, k) == \A i : i \in Locked(f)' <=> i \in Locked(f) /\ LockOf(f, i) # k

LEMMA UnlockSet ==
  ASSUME IInv, NEW f \in Factories, Others(f), NEW k \in Owns(f),
         Waits(f) => LockOf(f, set_index[f]) # k,
         m_mutex' = [m_mutex EXCEPT ![k[1]][k[2]] = Tail(Queue(k))],
         woken' = woken \cup next_owner(Queue(k)),
         f \in woken \/ Waits(f) => Waits(f)' /\ set_index'[f] = set_index[f],
         LocksWithout(f, k),
         Waits(f)' => Waits(f)
  PROVE  /\ SetQueues' /\ m_mutex' \in [Resources -> [SetLayoutBindings -> Seq(Factories)]]
         /\ woken' \subseteq Factories /\ \A g \in woken' \ woken : Waits(g) /\ g # f
<1> USE DEF IInv
<1> DEFINE q == Queue(k)
<1>1. k \in Locks /\ q \in Seq(Factories) /\ q # <<>> /\ q[1] = f
  <2>1. k \in Locks
    BY OwnsType
  <2> QED
    BY <2>1 DEF Types, Queue, Locks, SetQueues
<1>2. /\ Tail(q) \in Seq(Factories) /\ Len(Tail(q)) = Len(q) - 1 /\ Len(q) \in Nat \ {0}
      /\ \A i \in 1..Len(Tail(q)) : Tail(q)[i] = q[i + 1]
      /\ (Tail(q) # <<>> <=> Len(q) > 1)
      /\ next_owner(q) = IF Tail(q) # <<>> THEN {Tail(q)[1]} ELSE {}
      /\ next_owner(q) \subseteq Factories
  BY <1>1, TailOf
<1>3. /\ m_mutex' \in [Resources -> [SetLayoutBindings -> Seq(Factories)]]
      /\ \A lock \in Locks : Queue(lock)' = IF lock = k THEN Tail(q) ELSE Queue(lock)
  BY <1>1, <1>2, OneQueue
<1>4. \A lock \in Locks, g \in Factories :
        /\ \A i \in 2..Len(Queue(lock)) : Queue(lock)[i] = g =>
             /\ Waits(g) /\ LockOf(g, set_index[g]) = lock /\ g \notin woken
             /\ \A j \in 2..Len(Queue(lock)) : Queue(lock)[j] = g => i = j
        /\ lock \in Owns(g) <=> Queue(lock) # <<>> /\ Queue(lock)[1] = g
  BY DEF SetQueues
<1>5. Queue(k) = q /\ woken' = woken \cup next_owner(q)
  OBVIOUS
<1>6. \A g \in Factories : \A i : LockOf(g, i)' = LockOf(g, i)
  BY DEF LockOf
<1> HIDE DEF q
<1>7. \A g \in next_owner(q) : /\ g \in Factories \ {f} /\ Waits(g) /\ LockOf(g, set_index[g]) = k /\ g \notin woken
                               /\ Tail(q) # <<>> /\ Tail(q)[1] = g
  <2> SUFFICES ASSUME NEW g \in next_owner(q)
               PROVE  /\ g \in Factories \ {f} /\ Waits(g) /\ LockOf(g, set_index[g]) = k /\ g \notin woken
                      /\ Tail(q) # <<>> /\ Tail(q)[1] = g
    OBVIOUS
  <2>1. Tail(q) # <<>> /\ g = Tail(q)[1] /\ g \in Factories
    BY <1>2
  <2>2. 2 \in 2..Len(q) /\ q[2] = g
    BY <1>2, <2>1
  <2>3. Waits(g) /\ LockOf(g, set_index[g]) = k /\ g \notin woken
    BY <1>1, <1>4, <1>5, <2>1, <2>2
  <2> QED
    BY <2>1, <2>3
<1>8. \A g \in Factories \ {f} : /\ (Waits(g)' <=> Waits(g)) /\ Locked(g)' = Locked(g)
                                 /\ set_index'[g] = set_index[g] /\ pc'[g] = pc[g]
  BY DEF Others, Waits, Locked
<1>9. (f \in woken' <=> f \in woken) /\ \A g \in woken' \ woken : Waits(g) /\ g # f
  BY <1>5, <1>7
<1>10. \A lock : lock \in Owns(f)' <=> lock \in Owns(f) /\ lock # k
  <2>1. (Waits(f)' /\ f \in woken' <=> Waits(f) /\ f \in woken) /\ (f \in woken => set_index'[f] = set_index[f])
    BY <1>9
  <2>2. \A lock : (\E i \in Locked(f)' : LockOf(f, i) = lock) <=> lock # k /\ \E i \in Locked(f) : LockOf(f, i) = lock
    BY DEF LocksWithout
  <2>3. \A lock : lock \in Owns(f) <=> \/ \E i \in Locked(f) : LockOf(f, i) = lock
                                       \/ Waits(f) /\ f \in woken /\ LockOf(f, set_index[f]) = lock
    BY DEF Owns
  <2>4. \A lock : lock \in Owns(f)' <=> \/ \E i \in Locked(f)' : LockOf(f, i) = lock
                                        \/ Waits(f)' /\ f \in woken' /\ LockOf(f, set_index'[f]) = lock
    BY <1>6 DEF Owns
  <2> QED
    BY <2>1, <2>2, <2>3, <2>4
<1>11. \A g \in Factories \ {f} : \A lock : lock \in Owns(g)' <=> lock \in Owns(g) \/ (lock = k /\ g \in next_owner(q))
  <2> SUFFICES ASSUME NEW g \in Factories \ {f}, NEW lock
               PROVE  lock \in Owns(g)' <=> lock \in Owns(g) \/ (lock = k /\ g \in next_owner(q))
    OBVIOUS
  <2>1. CASE g \in next_owner(q)
    <3>1. Waits(g)' /\ g \in woken' /\ LockOf(g, set_index'[g]) = k /\ Locked(g)' = Locked(g) /\ g \notin woken
      BY <1>5, <1>7, <1>8, <2>1
    <3> QED
      BY <1>6, <2>1, <3>1 DEF Owns
  <2>2. CASE g \notin next_owner(q)
    <3>1. (g \in woken' <=> g \in woken)
      BY <1>5, <2>2
    <3> QED
      BY <2>2, <3>1, OthersOwn
  <2> QED
    BY <2>1, <2>2
<1>12. ASSUME NEW lock \in Locks, NEW g \in Factories, NEW i \in 2..Len(Queue(lock)'), Queue(lock)'[i] = g
       PROVE  /\ Waits(g)' /\ LockOf(g, set_index'[g]) = lock /\ g \notin woken'
              /\ \A j \in 2..Len(Queue(lock)') : Queue(lock)'[j] = g => i = j
  <2>1. CASE lock = k
    <3>1. Queue(lock)' = Tail(q)
      BY <1>3, <2>1
    <3>5. \A j \in 2..Len(q) : q[j] = g => \A n \in 2..Len(q) : q[n] = g => j = n
      BY <1>1, <1>4, <1>5
    <3>2. /\ i + 1 \in 2..Len(q) /\ q[i + 1] = g /\ g \notin next_owner(q)
          /\ \A j \in 2..Len(Tail(q)) : Tail(q)[j] = g => i = j
      <4>1. i \in 2..Len(Tail(q)) /\ Tail(q)[i] = g
        BY <1>12, <3>1
      <4>2. \A j \in 2..Len(Tail(q)) : Tail(q)[j] = q[j + 1] /\ j + 1 \in 2..Len(q)
        BY <1>2
      <4>3. i + 1 \in 2..Len(q) /\ q[i + 1] = g
        BY <4>1, <4>2
      <4>4. \A j \in 2..Len(q) : q[j] = g => j = i + 1
        BY <3>5, <4>3
      <4>5. g \notin next_owner(q)
        <5> SUFFICES ASSUME g \in next_owner(q) PROVE FALSE
          OBVIOUS
        <5>1. Len(q) > 1 /\ Tail(q)[1] = g
          BY <1>2, <1>7
        <5>2. q[2] = g /\ 2 \in 2..Len(q)
          BY <1>2, <5>1
        <5>3. i + 1 = 2
          BY <4>4, <5>2
        <5> QED
          BY <4>1, <5>3
      <4>6. \A j \in 2..Len(Tail(q)) : Tail(q)[j] = g => j + 1 = i + 1
        BY <4>2, <4>4
      <4>7. \A j \in 2..Len(Tail(q)) : j + 1 = i + 1 => i = j
        BY <4>1
      <4> QED
        BY <4>3, <4>5, <4>6, <4>7
    <3>3. Waits(g) /\ LockOf(g, set_index[g]) = lock /\ g \notin woken
      BY <1>1, <1>4, <1>5, <2>1, <3>2
    <3>4. g # f
      BY <2>1, <3>3
    <3> QED
      BY <1>5, <1>8, <3>1, <3>2, <3>3, <3>4
  <2>2. CASE lock # k
    <3>1. Queue(lock)' = Queue(lock)
      BY <1>3, <2>2
    <3>2. /\ Waits(g) /\ LockOf(g, set_index[g]) = lock /\ g \notin woken
          /\ \A j \in 2..Len(Queue(lock)) : Queue(lock)[j] = g => i = j
      BY <1>4, <1>12, <3>1
    <3>3. g \notin next_owner(q)
      BY <1>7, <2>2, <3>2
    <3>4. Waits(g)' /\ set_index'[g] = set_index[g]
      BY <1>8, <3>2
    <3> QED
      BY <1>5, <3>1, <3>2, <3>3, <3>4
  <2> QED
    BY <2>1, <2>2
<1>13. ASSUME NEW lock \in Locks, NEW g \in Factories
       PROVE  lock \in Owns(g)' <=> Queue(lock)' # <<>> /\ Queue(lock)'[1] = g
  <2>1. CASE lock = k
    <3>1. Queue(lock)' = Tail(q) /\ (lock \in Owns(g) <=> q # <<>> /\ q[1] = g)
      BY <1>3, <1>4, <1>5, <2>1
    <3>2. g \in next_owner(q) <=> Tail(q) # <<>> /\ Tail(q)[1] = g
      BY <1>2
    <3>3. CASE g = f
      BY <1>7, <1>10, <2>1, <3>1, <3>2, <3>3
    <3>4. CASE g # f
      BY <1>1, <1>11, <2>1, <3>1, <3>2, <3>4
    <3> QED
      BY <3>3, <3>4
  <2>2. CASE lock # k
    <3>1. Queue(lock)' = Queue(lock) /\ (lock \in Owns(g)' <=> lock \in Owns(g))
      BY <1>3, <1>10, <1>11, <2>2
    <3> QED
      BY <1>4, <3>1
  <2> QED
    BY <2>1, <2>2
<1>14. woken' \subseteq Factories /\ \A g \in woken' : pc'[g] \in SetPhase => Waits(g)'
  <2>1. woken' \subseteq Factories
    BY <1>2, <1>5 DEF Woken
  <2>2. \A g \in woken' \ {f} : pc[g] \in SetPhase => Waits(g)
    BY <1>5, <1>7 DEF SetQueues
  <2> QED
    BY <1>8, <1>9, <2>1, <2>2
<1>15. SetQueues'
  BY <1>6, <1>12, <1>13, <1>14 DEF SetQueues
<1> QED
  BY <1>3, <1>9, <1>14, <1>15

--------------------------------------------------------------------------------

(* What a step of a factory that looks for its descriptor sets does. *)
SetStepped(f) ==
  /\ UNCHANGED <<shader_vars, create_vars>>
  /\ pc[f] \in SetPhase /\ pc'[f] \in SetPhase
  /\ pc' \in [Factories -> ShaderPhase \cup CreatePhase \cup SetPhase]
  /\ m_mutex' \in [Resources -> [SetLayoutBindings -> Seq(Factories)]]
  /\ todo' \in [Factories -> SUBSET Resources]
  /\ set_index' \in [Factories -> Nat \ {0}] /\ missing' \in [Factories -> SUBSET Nat]
  /\ m_have_lock' \in [Factories -> BOOLEAN]
  /\ Others(f) /\ \A g \in Factories \ {f} : todo'[g] = todo[g]
  /\ woken' \subseteq Factories /\ woken \ woken' \subseteq {f} /\ \A g \in woken' \ woken : Waits(g)
  /\ IndexesOf(f)' /\ SetQueues'

LEMMA SetStep ==
  ASSUME IInv, NEW f \in Factories, SetStepped(f)
  PROVE  IInv'
<1> USE DEF IInv, SetStepped
<1>1. Types'
  BY DEF Types, shader_vars, create_vars
<1>2. \A g \in Factories : Waits(g) => pc[g] \in SetPhase
  BY DEF Waits, SetPhase
<1>3. \A g \in Factories \ {f} : pc'[g] = pc[g]
  BY DEF Others
<1>4. \A g \in Factories : pc[g] \notin SetPhase => (g \in woken' <=> g \in woken)
  BY <1>2
<1>5. pc[f] \notin ShaderPhase /\ pc'[f] \notin ShaderPhase /\ pc[f] # "wait_create"
  BY DEF ShaderPhase, SetPhase
<1>6. Woken'
  <2> SUFFICES ASSUME NEW g \in woken'
               PROVE  pc'[g] \in {"wait_shader", "wait_create", "wait_set", "allocate", "update", "add"}
    BY DEF Woken
  <2>1. CASE pc'[g] \in SetPhase
    <3>1. Waits(g)'
      BY <2>1 DEF SetQueues
    <3> QED
      BY <3>1 DEF Waits
  <2>2. CASE pc'[g] \notin SetPhase
    <3>1. g # f /\ pc[g] = pc'[g] /\ g \in woken
      BY <1>3, <1>4, <2>2
    <3> QED
      BY <3>1 DEF Woken
  <2> QED
    BY <2>1, <2>2
<1>7. ShaderQueues'
  <2>1. \A g \in Factories : pc[g] \in ShaderPhase \/ pc'[g] \in ShaderPhase =>
                               pc'[g] = pc[g] /\ (g \in woken' <=> g \in woken)
    BY <1>3, <1>4, <1>5 DEF ShaderPhase, SetPhase
  <2> QED
    BY <2>1, ShaderFrame
<1>8. CreateQueues'
  <2>1. \A g \in Factories : pc[g] = "wait_create" => pc'[g] = "wait_create" /\ todo'[g] = todo[g]
                                                      /\ (g \in woken' => g \in woken)
    BY <1>3, <1>4, <1>5 DEF SetPhase
  <2>2. UNCHANGED <<m_create_access_mutex, acquired>>
    BY DEF create_vars
  <2> QED
    BY <2>1, <2>2, CreateFrame
<1>9. SetIndexes'
  <2> SUFFICES ASSUME NEW g \in Factories \ {f} PROVE IndexesOf(g)'
    BY DEF SetIndexes
  <2>1. /\ pc'[g] = pc[g] /\ set_index'[g] = set_index[g] /\ (m_have_lock'[g] = m_have_lock[g])
        /\ missing'[g] = missing[g] /\ todo'[g] = todo[g]
    BY DEF Others
  <2>2. Current(g)' = Current(g) /\ Updated(g)' = Updated(g)
    BY <2>1 DEF Current, Updated
  <2>3. IndexesOf(g)
    BY DEF SetIndexes
  <2> HIDE DEF SetStepped, IInv
  <2> QED
    BY <2>1, <2>2, <2>3 DEF IndexesOf
<1> QED
  BY <1>1, <1>6, <1>7, <1>8, <1>9

(* What changes of a factory, and that nothing changes of the others. *)
LEMMA Changed ==
  ASSUME IInv, NEW f \in Factories, NEW l \in SetPhase, NEW t \in SUBSET Resources, NEW n \in Nat \ {0},
         NEW s \in SUBSET Nat, NEW h \in BOOLEAN,
         pc' = [pc EXCEPT ![f] = l], todo' = [todo EXCEPT ![f] = t], set_index' = [set_index EXCEPT ![f] = n],
         missing' = [missing EXCEPT ![f] = s], m_have_lock' = [m_have_lock EXCEPT ![f] = h]
  PROVE  /\ pc'[f] = l /\ todo'[f] = t /\ set_index'[f] = n /\ missing'[f] = s /\ m_have_lock'[f] = h
         /\ Others(f) /\ \A g \in Factories \ {f} : todo'[g] = todo[g]
         /\ pc' \in [Factories -> ShaderPhase \cup CreatePhase \cup SetPhase]
         /\ todo' \in [Factories -> SUBSET Resources]
         /\ set_index' \in [Factories -> Nat \ {0}] /\ missing' \in [Factories -> SUBSET Nat]
         /\ m_have_lock' \in [Factories -> BOOLEAN]
<1> USE DEF IInv, Types
<1>1. pc'[f] = l /\ todo'[f] = t /\ set_index'[f] = n /\ missing'[f] = s /\ m_have_lock'[f] = h
  OBVIOUS
<1>2. Others(f) /\ \A g \in Factories \ {f} : todo'[g] = todo[g]
  BY DEF Others
<1>3. pc' \in [Factories -> ShaderPhase \cup CreatePhase \cup SetPhase]
  OBVIOUS
<1>4. todo' \in [Factories -> SUBSET Resources] /\ missing' \in [Factories -> SUBSET Nat]
  OBVIOUS
<1>5. set_index' \in [Factories -> Nat \ {0}] /\ m_have_lock' \in [Factories -> BOOLEAN]
  OBVIOUS
<1> QED
  BY <1>1, <1>2, <1>3, <1>4, <1>5

(* The same variables as functions of which one value is replaced. *)
LEMMA Replaced ==
  ASSUME IInv, NEW f \in Factories
  PROVE  /\ pc = [pc EXCEPT ![f] = pc[f]] /\ todo = [todo EXCEPT ![f] = todo[f]]
         /\ set_index = [set_index EXCEPT ![f] = set_index[f]] /\ missing = [missing EXCEPT ![f] = missing[f]]
         /\ m_have_lock = [m_have_lock EXCEPT ![f] = m_have_lock[f]]
         /\ pc[f] \in ShaderPhase \cup CreatePhase \cup SetPhase /\ todo[f] \in SUBSET Resources
         /\ set_index[f] \in Nat \ {0} /\ missing[f] \in SUBSET Nat /\ m_have_lock[f] \in BOOLEAN
BY DEF IInv, Types

(* The resources of a set index. *)
LEMMA UsesSetType ==
  ASSUME NEW f \in Factories, NEW i \in Nat \ {0}
  PROVE  /\ UsesSet(f, i) \in SUBSET Resources
         /\ i <= Len(Sets[f]) => UsesSet(f, i) = Bound(Sets[f][i])
<1>1. Len(Sets[f]) \in Nat /\ DOMAIN Sets[f] = 1..Len(Sets[f])
  OBVIOUS
<1>2. CASE i <= Len(Sets[f])
  <2>1. i \in 1..Len(Sets[f])
    BY <1>1, <1>2
  <2> QED
    BY <1>1, <2>1, LockType DEF UsesSet
<1>3. CASE ~(i <= Len(Sets[f]))
  BY <1>1, <1>3 DEF UsesSet
<1> QED
  BY <1>2, <1>3

--------------------------------------------------------------------------------

(* A factory that searches does not wait, and owns the mutexes of the set indexes that it
   will make descriptor sets for, and that of the current one once it has it. *)
LEMMA SearchingOwns ==
  ASSUME IInv, NEW f \in Factories, pc[f] = "search"
  PROVE  /\ ~Waits(f) /\ f \notin woken
         /\ Owns(f) = {LockOf(f, i) : i \in Locked(f)}
         /\ \A i \in missing[f] : i \in 1..Len(Sets[f]) /\ i < set_index[f]
         /\ set_index[f] <= Len(Sets[f]) =>
              /\ set_index[f] \in 1..Len(Sets[f]) /\ LockOf(f, set_index[f]) \in Locks
              /\ \A i \in missing[f] : LockOf(f, i) # LockOf(f, set_index[f])
         /\ todo[f] # Bound(Current(f)) /\ set_index[f] <= Len(Sets[f]) => m_have_lock[f]
<1> USE DEF IInv
<1>1. ~Waits(f) /\ f \notin woken
  BY DEF Waits, Woken
<1>2. /\ set_index[f] \in Nat \ {0} /\ set_index[f] <= Len(Sets[f]) + 1 /\ Len(Sets[f]) \in Nat
      /\ \A i \in missing[f] : i \in 1..(set_index[f] - 1)
      /\ todo[f] # Bound(Current(f)) /\ set_index[f] <= Len(Sets[f]) => m_have_lock[f]
  BY DEF Types, SetIndexes, IndexesOf
<1>3. \A i \in missing[f] : i \in 1..Len(Sets[f]) /\ i < set_index[f]
  BY <1>2
<1>4. ASSUME set_index[f] <= Len(Sets[f])
      PROVE  /\ set_index[f] \in 1..Len(Sets[f]) /\ LockOf(f, set_index[f]) \in Locks
             /\ \A i \in missing[f] : LockOf(f, i) # LockOf(f, set_index[f])
  <2>1. set_index[f] \in 1..Len(Sets[f])
    BY <1>2, <1>4
  <2>2. \A i \in missing[f] : i \in 1..Len(Sets[f]) /\ i # set_index[f]
    BY <1>2, <1>3
  <2> QED
    BY <2>1, <2>2, LockType, LocksDiffer
<1> QED
  BY <1>1, <1>2, <1>3, <1>4 DEF Owns

LEMMA LockStep ==
  ASSUME IInv, NEW f \in Factories, lock_set_layout_binding(f)
  PROVE  SetStepped(f)
<1> USE DEF IInv
<1> DEFINE i == set_index[f]
           k == LockOf(f, i)
<1>1. /\ pc[f] = "search" /\ i <= Len(Sets[f]) /\ todo[f] = Bound(Sets[f][i]) /\ ~m_have_lock[f]
      /\ UNCHANGED <<woken, todo, shader_vars, create_vars, set_index, missing>>
      /\ m_mutex' = [m_mutex EXCEPT ![k[1]][k[2]] = Append(Queue(k), f)]
      /\ Queue(k) = <<>> => m_have_lock' = [m_have_lock EXCEPT ![f] = TRUE] /\ pc' = pc
      /\ Queue(k) # <<>> => m_have_lock' = m_have_lock
                            /\ pc' = [pc EXCEPT ![f] = IF missing[f] = {} THEN "wait_set" ELSE "allocate"]
  BY DEF lock_set_layout_binding, Searching, NeedsLock, FirstOfSet, Current, return_false, Goto, LockOf, Queue
<1>2. /\ ~Waits(f) /\ f \notin woken /\ k \in Locks /\ \A j \in missing[f] : LockOf(f, j) # k
      /\ Owns(f) = {LockOf(f, j) : j \in Locked(f)} /\ i \in 1..Len(Sets[f])
  BY <1>1, SearchingOwns
<1>3. m_have_lock[f] = FALSE
  BY <1>1, Replaced
<1>4. Locked(f) = missing[f] /\ k \notin Owns(f)
  BY <1>2, <1>3 DEF Locked
<1>5. PICK l \in SetPhase, h \in BOOLEAN :
        /\ pc' = [pc EXCEPT ![f] = l] /\ m_have_lock' = [m_have_lock EXCEPT ![f] = h]
        /\ Queue(k) = <<>> => l = "search" /\ h
        /\ Queue(k) # <<>> => h = FALSE /\ l = IF missing[f] = {} THEN "wait_set" ELSE "allocate"
  <2>1. CASE Queue(k) = <<>>
    BY <1>1, <2>1, Replaced DEF SetPhase
  <2>2. CASE Queue(k) # <<>>
    <3>1. m_have_lock' = [m_have_lock EXCEPT ![f] = FALSE]
      BY <1>1, <1>3, <2>2, Replaced
    <3>2. (IF missing[f] = {} THEN "wait_set" ELSE "allocate") \in SetPhase
      BY DEF SetPhase
    <3> QED
      BY <1>1, <2>2, <3>1, <3>2
  <2> QED
    BY <2>1, <2>2
<1>6. /\ pc'[f] = l /\ todo'[f] = todo[f] /\ set_index'[f] = i /\ missing'[f] = missing[f] /\ m_have_lock'[f] = h
      /\ Others(f) /\ \A g \in Factories \ {f} : todo'[g] = todo[g]
      /\ pc' \in [Factories -> ShaderPhase \cup CreatePhase \cup SetPhase]
      /\ todo' \in [Factories -> SUBSET Resources]
      /\ set_index' \in [Factories -> Nat \ {0}] /\ missing' \in [Factories -> SUBSET Nat]
      /\ m_have_lock' \in [Factories -> BOOLEAN]
  <2>1. /\ todo' = [todo EXCEPT ![f] = todo[f]] /\ set_index' = [set_index EXCEPT ![f] = i]
        /\ missing' = [missing EXCEPT ![f] = missing[f]]
    BY <1>1, Replaced
  <2>2. todo[f] \in SUBSET Resources /\ i \in Nat \ {0} /\ missing[f] \in SUBSET Nat
    BY Replaced
  <2> QED
    BY <1>5, <2>1, <2>2, Changed
<1>7. \A j : LockOf(f, j)' = LockOf(f, j)
  BY DEF LockOf
<1>8. Queue(k) = <<>> => Owns(f)' = Owns(f) \cup {k}
  <2> SUFFICES ASSUME Queue(k) = <<>> PROVE Owns(f)' = Owns(f) \cup {k}
    OBVIOUS
  <2>1. Locked(f)' = missing[f] \cup {i} /\ f \notin woken'
    BY <1>1, <1>2, <1>5, <1>6 DEF Locked
  <2>2. Owns(f)' = {LockOf(f, j) : j \in missing[f] \cup {i}}
    BY <1>7, <2>1 DEF Owns
  <2> QED
    BY <1>2, <1>4, <2>2
<1>9. Queue(k) # <<>> => Owns(f)' = Owns(f) /\ Waits(f)'
  <2> SUFFICES ASSUME Queue(k) # <<>> PROVE Owns(f)' = Owns(f) /\ Waits(f)'
    OBVIOUS
  <2>1. Locked(f)' = missing[f] /\ f \notin woken'
    BY <1>1, <1>2, <1>5, <1>6 DEF Locked
  <2>2. Owns(f)' = {LockOf(f, j) : j \in missing[f]}
    BY <1>7, <2>1 DEF Owns
  <2>3. Waits(f)'
    BY <1>1, <1>5, <1>6 DEF Waits
  <2> QED
    BY <1>2, <1>4, <2>2, <2>3
<1>10. SetQueues' /\ m_mutex' \in [Resources -> [SetLayoutBindings -> Seq(Factories)]]
  <2> HIDE DEF k, i
  <2>1. set_index'[f] = set_index[f] /\ woken' = woken /\ k = LockOf(f, set_index[f])
    BY <1>1 DEF i, k
  <2> QED
    BY <1>1, <1>2, <1>4, <1>6, <1>8, <1>9, <2>1, LockSet
<1>11. IndexesOf(f)'
  <2>1. IndexesOf(f)
    BY DEF SetIndexes
  <2>2. /\ l = "search" => h = TRUE
        /\ l = "wait_set" => missing[f] = {} /\ h = FALSE
        /\ l = "allocate" => missing[f] # {} /\ h = FALSE
        /\ l \in {"search", "wait_set", "allocate"}
    BY <1>5
  <2>3. pc[f] \in SetPhase /\ l \in SetPhase
    BY <1>1, <1>5 DEF SetPhase
  <2> HIDE DEF IInv
  <2> QED
    BY <1>1, <1>6, <2>1, <2>2, <2>3 DEF IndexesOf
<1> QED
  BY <1>1, <1>5, <1>6, <1>10, <1>11 DEF SetStepped, SetPhase, Woken

(* A step that leaves the mutexes alone. *)
LEMMA KeepStep ==
  ASSUME IInv, NEW f \in Factories, NEW l \in SetPhase, NEW t \in SUBSET Resources, NEW n \in Nat \ {0},
         NEW s \in SUBSET Nat, NEW h \in BOOLEAN, pc[f] \in SetPhase,
         pc' = [pc EXCEPT ![f] = l], todo' = [todo EXCEPT ![f] = t], set_index' = [set_index EXCEPT ![f] = n],
         missing' = [missing EXCEPT ![f] = s], m_have_lock' = [m_have_lock EXCEPT ![f] = h],
         UNCHANGED <<shader_vars, create_vars, m_mutex>>,
         woken' = woken \/ woken' = woken \ {f},
         f \in woken' => Waits(f)', Owns(f)' = Owns(f),
         Waits(f) /\ f \notin woken => Waits(f)' /\ n = set_index[f],
         IndexesOf(f)'
  PROVE  SetStepped(f)
<1>1. /\ pc'[f] = l /\ todo'[f] = t /\ set_index'[f] = n /\ missing'[f] = s /\ m_have_lock'[f] = h
      /\ Others(f) /\ \A g \in Factories \ {f} : todo'[g] = todo[g]
      /\ pc' \in [Factories -> ShaderPhase \cup CreatePhase \cup SetPhase]
      /\ todo' \in [Factories -> SUBSET Resources]
      /\ set_index' \in [Factories -> Nat \ {0}] /\ missing' \in [Factories -> SUBSET Nat]
      /\ m_have_lock' \in [Factories -> BOOLEAN]
  BY Changed
<1>2. /\ woken' \subseteq woken /\ woken \ woken' \subseteq {f} /\ woken' \subseteq Factories
      /\ \A g \in Factories \ {f} : g \in woken' <=> g \in woken
  BY DEF IInv, Woken
<1>3. SetQueues'
  BY <1>1, <1>2, KeepQueues
<1>4. m_mutex' \in [Resources -> [SetLayoutBindings -> Seq(Factories)]]
  BY DEF IInv, Types
<1> QED
  BY <1>1, <1>2, <1>3, <1>4 DEF SetStepped

LEMMA ObtainedStep ==
  ASSUME IInv, NEW f \in Factories, obtained_set_layout_binding_lock(f)
  PROVE  SetStepped(f)
<1>1. /\ pc[f] = "wait_set" /\ f \in woken /\ woken' = woken \ {f} /\ pc' = [pc EXCEPT ![f] = "search"]
      /\ m_have_lock' = [m_have_lock EXCEPT ![f] = TRUE]
      /\ UNCHANGED <<todo, set_index, missing, m_mutex, shader_vars, create_vars>>
  BY DEF obtained_set_layout_binding_lock, Obtained, Goto
<1>2. /\ "search" \in SetPhase /\ pc[f] \in SetPhase
      /\ todo' = [todo EXCEPT ![f] = todo[f]] /\ set_index' = [set_index EXCEPT ![f] = set_index[f]]
      /\ missing' = [missing EXCEPT ![f] = missing[f]]
      /\ todo[f] \in SUBSET Resources /\ set_index[f] \in Nat \ {0} /\ missing[f] \in SUBSET Nat
  BY <1>1, Replaced DEF SetPhase
<1>3. /\ pc'[f] = "search" /\ todo'[f] = todo[f] /\ set_index'[f] = set_index[f] /\ missing'[f] = missing[f]
      /\ m_have_lock'[f] = TRUE
  BY ZenonT(30), <1>1, <1>2, Changed
<1>4. IndexesOf(f) /\ missing[f] = {} /\ m_have_lock[f] = FALSE /\ set_index[f] <= Len(Sets[f])
  <2>1. IndexesOf(f) /\ m_have_lock[f] \in BOOLEAN
    BY DEF IInv, SetIndexes, Types
  <2>2. missing[f] = {} /\ ~m_have_lock[f] /\ set_index[f] <= Len(Sets[f])
    BY <1>1, <2>1 DEF IndexesOf
  <2> QED
    BY <2>1, <2>2
<1>5. Owns(f)' = Owns(f)
  <2>1. Locked(f) = {} /\ Locked(f)' = {set_index[f]} /\ f \notin woken'
    BY <1>1, <1>3, <1>4 DEF Locked
  <2>2. \A i : LockOf(f, i)' = LockOf(f, i)
    BY DEF LockOf
  <2>3. Waits(f)
    BY <1>1 DEF Waits
  <2>4. Owns(f) = {LockOf(f, set_index[f])}
    BY <1>1, <2>1, <2>3 DEF Owns
  <2>5. Owns(f)' = {LockOf(f, set_index[f])}
    BY <2>1, <2>2 DEF Owns
  <2> QED
    BY <2>4, <2>5
<1>6. IndexesOf(f)'
  BY <1>1, <1>2, <1>3, <1>4 DEF IndexesOf
<1>7. f \notin woken' /\ TRUE \in BOOLEAN
  BY <1>1
<1> QED
  BY <1>1, <1>2, <1>5, <1>6, <1>7, KeepStep

LEMMA MissingStep ==
  ASSUME IInv, NEW f \in Factories, set_is_missing(f)
  PROVE  SetStepped(f)
<1> DEFINE i == set_index[f]
           t == UsesSet(f, i + 1)
           s == missing[f] \cup {i}
           n == i + 1
<1>1. /\ pc[f] = "search" /\ i <= Len(Sets[f]) /\ (todo[f] # Bound(Current(f)) \/ m_have_lock[f])
      /\ missing' = [missing EXCEPT ![f] = s] /\ set_index' = [set_index EXCEPT ![f] = n]
      /\ todo' = [todo EXCEPT ![f] = t] /\ m_have_lock' = [m_have_lock EXCEPT ![f] = FALSE]
      /\ UNCHANGED <<pc, woken, shader_vars, create_vars, m_mutex>>
  BY DEF set_is_missing, Searching, NeedsLock, FirstOfSet, SearchNext
<1>2. /\ ~Waits(f) /\ f \notin woken /\ i \in 1..Len(Sets[f]) /\ m_have_lock[f]
      /\ Owns(f) = {LockOf(f, j) : j \in Locked(f)}
  BY <1>1, SearchingOwns
<1>3. /\ pc' = [pc EXCEPT ![f] = "search"] /\ "search" \in SetPhase /\ pc[f] \in SetPhase
      /\ i \in Nat \ {0} /\ n \in Nat \ {0} /\ s \in SUBSET Nat /\ FALSE \in BOOLEAN
      /\ t \in SUBSET Resources /\ (n <= Len(Sets[f]) => t = Bound(Sets[f][n]))
  <2>1. i \in Nat \ {0} /\ missing[f] \in SUBSET Nat /\ pc' = [pc EXCEPT ![f] = "search"]
    BY <1>1, Replaced
  <2>2. i + 1 \in Nat \ {0}
    BY <2>1
  <2> QED
    BY <1>1, <2>1, <2>2, UsesSetType DEF SetPhase
<1>4. /\ pc'[f] = "search" /\ todo'[f] = t /\ set_index'[f] = n /\ missing'[f] = s /\ m_have_lock'[f] = FALSE
  <2> HIDE DEF i, t, s, n
  <2> QED
    BY <1>1, <1>3, Changed
<1>5. Owns(f)' = Owns(f)
  <2>1. Locked(f) = s /\ Locked(f)' = s /\ f \notin woken'
    BY <1>1, <1>2, <1>4 DEF Locked
  <2>2. \A j : LockOf(f, j)' = LockOf(f, j)
    BY DEF LockOf
  <2>3. Owns(f)' = {LockOf(f, j) : j \in s}
    BY <2>1, <2>2 DEF Owns
  <2> QED
    BY <1>2, <2>1, <2>3
<1>6. IndexesOf(f)'
  <2>1. IndexesOf(f)
    BY DEF IInv, SetIndexes
  <2>2. n <= Len(Sets[f]) + 1 /\ \A j \in s : j \in 1..(n - 1)
    BY <1>2, <1>3, <2>1 DEF IndexesOf
  <2>3. Current(f)' = Sets[f][n]
    BY <1>4 DEF Current
  <2> HIDE DEF i, t, s, n
  <2> QED
    BY <1>3, <1>4, <2>2, <2>3 DEF IndexesOf
<1>7. f \notin woken'
  BY <1>1, <1>2
<1> HIDE DEF i, t, s, n
<1> QED
  BY <1>1, <1>2, <1>3, <1>5, <1>6, <1>7, KeepStep

(* The other steps that leave the mutexes alone: the factory waits, or owns, what it did. *)
StaysTo(f, l, t) ==
  /\ (l = "wait_set" \/ (l \in {"allocate", "update", "add"} /\ set_index[f] <= Len(Sets[f]))) <=> Waits(f)
  /\ \/ pc[f] = "search" /\ l = "search" /\ m_have_lock[f]
     \/ pc[f] = "search" /\ l = "allocate" /\ missing[f] # {} /\ ~m_have_lock[f]
     \/ pc[f] = "search" /\ l = "done" /\ missing[f] = {} /\ ~m_have_lock[f]
     \/ /\ pc[f] \in {"allocate", "update", "add"} /\ l \in {"update", "add"}
        /\ First(Bound(Sets[f][Updated(f)])) \in t /\ t \subseteq Bound(Sets[f][Updated(f)])

LEMMA StayStep ==
  ASSUME IInv, NEW f \in Factories, NEW l \in SetPhase, NEW t \in SUBSET Resources, pc[f] \in SetPhase,
         pc' = [pc EXCEPT ![f] = l], todo' = [todo EXCEPT ![f] = t],
         UNCHANGED <<woken, set_index, missing, m_have_lock, shader_vars, create_vars, m_mutex>>,
         StaysTo(f, l, t)
  PROVE  SetStepped(f)
<1>1. /\ set_index' = [set_index EXCEPT ![f] = set_index[f]] /\ missing' = [missing EXCEPT ![f] = missing[f]]
      /\ m_have_lock' = [m_have_lock EXCEPT ![f] = m_have_lock[f]]
      /\ set_index[f] \in Nat \ {0} /\ missing[f] \in SUBSET Nat /\ m_have_lock[f] \in BOOLEAN
  BY Replaced
<1>2. /\ pc'[f] = l /\ todo'[f] = t /\ set_index'[f] = set_index[f] /\ missing'[f] = missing[f]
      /\ m_have_lock'[f] = m_have_lock[f]
  BY DEF IInv, Types
<1>3. (Waits(f)' <=> Waits(f)) /\ Locked(f)' = Locked(f)
  BY <1>2 DEF Waits, Locked, StaysTo
<1>4. \A i : LockOf(f, i)' = LockOf(f, i)
  BY DEF LockOf
<1>5. Owns(f)' = Owns(f)
  BY <1>2, <1>3, <1>4 DEF Owns
<1>6. f \in woken' => Waits(f)'
  BY <1>3 DEF IInv, SetQueues
<1>7. IndexesOf(f)'
  <2>1. IndexesOf(f) /\ Updated(f)' = Updated(f)
    BY <1>2 DEF IInv, SetIndexes, Updated
  <2> QED
    BY <1>2, <2>1 DEF IndexesOf, SetPhase, StaysTo
<1> QED
  BY <1>1, <1>3, <1>5, <1>6, <1>7, KeepStep

(* The set index for which the resources are added to a new descriptor set. *)
LEMMA UpdatedIn ==
  ASSUME IInv, NEW f \in Factories, pc[f] \in {"allocate", "update", "add"}
  PROVE  /\ Updated(f) \in missing[f] /\ Updated(f) \in 1..Len(Sets[f])
         /\ Bound(Sets[f][Updated(f)]) \in SUBSET Resources
         /\ First(Bound(Sets[f][Updated(f)])) \in Bound(Sets[f][Updated(f)])
         /\ \A q \in Bound(Sets[f][Updated(f)]) : First(Bound(Sets[f][Updated(f)])) <= q
         /\ ~m_have_lock[f] /\ Locked(f) = missing[f]
<1>1. missing[f] \in SUBSET Nat /\ missing[f] # {} /\ ~m_have_lock[f]
  BY DEF IInv, Types, SetIndexes, IndexesOf
<1>2. Updated(f) \in missing[f]
  BY <1>1, FirstIn DEF Updated
<1>3. Locked(f) = missing[f]
  BY <1>1 DEF Locked
<1>4. Updated(f) \in 1..Len(Sets[f])
  BY <1>2, <1>3, OwnsType
<1> QED
  BY <1>1, <1>2, <1>3, <1>4, LockType

LEMMA OtherSteps ==
  ASSUME IInv, NEW f \in Factories,
         still_have_match(f) \/ searched(f) \/ allocate_descriptor_sets(f) \/ update_descriptor_set(f)
  PROVE  SetStepped(f)
<1>1. /\ todo = [todo EXCEPT ![f] = todo[f]] /\ todo[f] \in SUBSET Resources /\ pc = [pc EXCEPT ![f] = pc[f]]
      /\ set_index[f] \in Nat \ {0} /\ Len(Sets[f]) \in Nat
  BY Replaced
<1>2. IndexesOf(f)
  BY DEF IInv, SetIndexes
<1>3. CASE still_have_match(f)
  <2>1. /\ pc[f] = "search" /\ set_index[f] <= Len(Sets[f]) /\ (todo[f] # Bound(Current(f)) \/ m_have_lock[f])
        /\ todo' = [todo EXCEPT ![f] = todo[f] \ {First(todo[f])}]
        /\ UNCHANGED <<pc, woken, set_index, missing, m_have_lock, shader_vars, create_vars, m_mutex>>
    BY <1>3 DEF still_have_match, Searching, NeedsLock, FirstOfSet
  <2>2. m_have_lock[f] /\ ~Waits(f)
    BY <2>1, SearchingOwns
  <2> DEFINE t == todo[f] \ {First(todo[f])}
  <2>3. t \in SUBSET Resources /\ "search" \in SetPhase /\ pc' = [pc EXCEPT ![f] = "search"]
    BY <1>1, <2>1 DEF SetPhase
  <2> HIDE DEF t
  <2> QED
    BY <2>1, <2>2, <2>3, StayStep DEF t, StaysTo
<1>4. CASE searched(f)
  <2>1. /\ pc[f] = "search" /\ set_index[f] > Len(Sets[f])
        /\ pc' = [pc EXCEPT ![f] = IF missing[f] = {} THEN "done" ELSE "allocate"]
        /\ UNCHANGED <<todo, woken, set_index, missing, m_have_lock, shader_vars, create_vars, m_mutex>>
    BY <1>4 DEF searched, Goto, set_vars
  <2>2. PICK l \in SetPhase : l = IF missing[f] = {} THEN "done" ELSE "allocate"
    BY DEF SetPhase
  <2>3. ~(set_index[f] <= Len(Sets[f])) /\ ~Waits(f) /\ ~m_have_lock[f]
    BY <1>1, <1>2, <2>1 DEF Waits, IndexesOf
  <2>4. pc' = [pc EXCEPT ![f] = l] /\ todo' = [todo EXCEPT ![f] = todo[f]]
    BY <1>1, <2>1, <2>2
  <2> QED
    BY <1>1, <2>1, <2>2, <2>3, <2>4, StayStep DEF SetPhase, StaysTo
<1>5. CASE allocate_descriptor_sets(f)
  <2> DEFINE t == Bound(Sets[f][Updated(f)])
  <2>1. /\ pc[f] = "allocate" /\ pc' = [pc EXCEPT ![f] = "update"] /\ todo' = [todo EXCEPT ![f] = t]
        /\ UNCHANGED <<woken, set_index, missing, m_have_lock, shader_vars, create_vars, m_mutex>>
    BY <1>5 DEF allocate_descriptor_sets, Goto, Updated
  <2>2. t \in SUBSET Resources /\ First(t) \in t /\ "update" \in SetPhase
    BY <2>1, UpdatedIn DEF SetPhase
  <2>3. set_index[f] <= Len(Sets[f]) <=> Waits(f)
    BY <2>1 DEF Waits
  <2> QED
    BY <2>1, <2>2, <2>3, StayStep DEF SetPhase, StaysTo
<1>6. CASE update_descriptor_set(f)
  <2>1. /\ pc[f] = "update" /\ pc' = [pc EXCEPT ![f] = "add"]
        /\ UNCHANGED <<todo, woken, set_index, missing, m_have_lock, shader_vars, create_vars, m_mutex>>
    BY <1>6 DEF update_descriptor_set, Goto
  <2>2. /\ First(Bound(Sets[f][Updated(f)])) \in todo[f] /\ todo[f] \subseteq Bound(Sets[f][Updated(f)])
        /\ "add" \in SetPhase /\ todo' = [todo EXCEPT ![f] = todo[f]]
    BY <1>1, <1>2, <2>1 DEF IndexesOf, SetPhase
  <2>3. set_index[f] <= Len(Sets[f]) <=> Waits(f)
    BY <2>1 DEF Waits
  <2> QED
    BY <1>1, <2>1, <2>2, <2>3, StayStep DEF SetPhase, StaysTo
<1> QED
  BY <1>3, <1>4, <1>5, <1>6

(* A step that hands over the mutex of a set index. *)
LEMMA UnlockStep ==
  ASSUME IInv, NEW f \in Factories, NEW l \in SetPhase, NEW t \in SUBSET Resources, NEW n \in Nat \ {0},
         NEW s \in SUBSET Nat, pc[f] \in SetPhase,
         pc' = [pc EXCEPT ![f] = l], todo' = [todo EXCEPT ![f] = t], set_index' = [set_index EXCEPT ![f] = n],
         missing' = [missing EXCEPT ![f] = s], m_have_lock' = [m_have_lock EXCEPT ![f] = FALSE],
         UNCHANGED <<shader_vars, create_vars>>,
         NEW i \in Locked(f), Waits(f) => i # set_index[f],
         unlock_set_layout_binding(f, LockOf(f, i)[1], LockOf(f, i)[2]),
         f \in woken \/ Waits(f) => Waits(f)' /\ n = set_index[f],
         Waits(f)' => Waits(f),
         s = Locked(f) \ {i},
         IndexesOf(f)'
  PROVE  SetStepped(f)
<1> DEFINE k == LockOf(f, i)
<1>1. /\ pc'[f] = l /\ todo'[f] = t /\ set_index'[f] = n /\ missing'[f] = s /\ m_have_lock'[f] = FALSE
      /\ Others(f) /\ \A g \in Factories \ {f} : todo'[g] = todo[g]
      /\ pc' \in [Factories -> ShaderPhase \cup CreatePhase \cup SetPhase]
      /\ todo' \in [Factories -> SUBSET Resources]
      /\ set_index' \in [Factories -> Nat \ {0}] /\ missing' \in [Factories -> SUBSET Nat]
      /\ m_have_lock' \in [Factories -> BOOLEAN]
  BY Changed
<1>2. k \in Owns(f) /\ \A j \in Locked(f) : j \in 1..Len(Sets[f])
  BY OwnsType DEF Owns
<1>3. /\ m_mutex' = [m_mutex EXCEPT ![k[1]][k[2]] = Tail(Queue(k))]
      /\ woken' = woken \cup next_owner(Queue(k))
  BY DEF unlock_set_layout_binding, Queue
<1>4. Waits(f) => LockOf(f, set_index[f]) # k
  BY <1>2, OwnsType, LocksDiffer
<1>5. Locked(f)' = Locked(f) \ {i}
  BY <1>1 DEF Locked
<1>6. \A j \in Locked(f) : LockOf(f, j) = k <=> j = i
  BY <1>2, LocksDiffer
<1>7. LocksWithout(f, k)
  <2> HIDE DEF k
  <2> QED
    BY <1>5, <1>6 DEF LocksWithout
<1>8. f \in woken \/ Waits(f) => Waits(f)' /\ set_index'[f] = set_index[f]
  BY <1>1
<1> HIDE DEF k
<1>9. /\ SetQueues' /\ m_mutex' \in [Resources -> [SetLayoutBindings -> Seq(Factories)]]
      /\ woken' \subseteq Factories /\ \A g \in woken' \ woken : Waits(g) /\ g # f
  BY <1>1, <1>2, <1>3, <1>4, <1>7, <1>8, UnlockSet
<1>10. woken \ woken' \subseteq {f}
  BY <1>3
<1> QED
  BY <1>1, <1>9, <1>10 DEF SetStepped

LEMMA MatchStep ==
  ASSUME IInv, NEW f \in Factories, have_match(f)
  PROVE  SetStepped(f)
<1> DEFINE i == set_index[f]
           n == i + 1
           t == UsesSet(f, n)
<1>1. /\ pc[f] = "search" /\ i <= Len(Sets[f]) /\ (todo[f] # Bound(Current(f)) \/ m_have_lock[f])
      /\ unlock_set_layout_binding(f, LockOf(f, i)[1], LockOf(f, i)[2])
      /\ set_index' = [set_index EXCEPT ![f] = n] /\ todo' = [todo EXCEPT ![f] = t]
      /\ m_have_lock' = [m_have_lock EXCEPT ![f] = FALSE]
      /\ UNCHANGED <<pc, missing, shader_vars, create_vars>>
  BY DEF have_match, Searching, NeedsLock, FirstOfSet, SearchNext, LockOf, Current
<1>2. ~Waits(f) /\ f \notin woken /\ i \in 1..Len(Sets[f]) /\ m_have_lock[f] /\ \A j \in missing[f] : j < i
  BY <1>1, SearchingOwns
<1>3. /\ pc' = [pc EXCEPT ![f] = "search"] /\ "search" \in SetPhase /\ pc[f] \in SetPhase
      /\ missing' = [missing EXCEPT ![f] = missing[f]] /\ missing[f] \in SUBSET Nat /\ FALSE \in BOOLEAN
      /\ i \in Nat \ {0} /\ n \in Nat \ {0}
      /\ t \in SUBSET Resources /\ (n <= Len(Sets[f]) => t = Bound(Sets[f][n]))
  <2>1. /\ i \in Nat \ {0} /\ missing[f] \in SUBSET Nat /\ pc' = [pc EXCEPT ![f] = "search"]
        /\ missing' = [missing EXCEPT ![f] = missing[f]]
    BY <1>1, Replaced
  <2>2. n \in Nat \ {0}
    BY <2>1
  <2> QED
    BY <1>1, <2>1, <2>2, UsesSetType DEF SetPhase
<1>4. /\ pc'[f] = "search" /\ todo'[f] = t /\ set_index'[f] = n /\ missing'[f] = missing[f] /\ m_have_lock'[f] = FALSE
  <2> HIDE DEF i, t, n
  <2> QED
    BY <1>1, <1>3, Changed
<1>5. i \in Locked(f) /\ missing[f] = Locked(f) \ {i}
  <2>1. i \notin missing[f]
    BY <1>2, <1>3
  <2> QED
    BY <1>2, <2>1 DEF Locked
<1>6. IndexesOf(f)'
  <2>1. IndexesOf(f)
    BY DEF IInv, SetIndexes
  <2>2. n <= Len(Sets[f]) + 1 /\ \A j \in missing[f] : j \in 1..(n - 1)
    BY <1>2, <1>3, <2>1 DEF IndexesOf
  <2>3. Current(f)' = Sets[f][n]
    BY <1>4 DEF Current
  <2> HIDE DEF i, t, n
  <2> QED
    BY <1>3, <1>4, <2>2, <2>3 DEF IndexesOf
<1>7. ~Waits(f)'
  BY <1>4 DEF Waits
<1> HIDE DEF i, t, n
<1> QED
  BY <1>1, <1>2, <1>3, <1>5, <1>6, <1>7, UnlockStep

LEMMA AddStep ==
  ASSUME IInv, NEW f \in Factories, add_set_layout_binding(f)
  PROVE  SetStepped(f)
<1> DEFINE i == Updated(f)
           r == Last(todo[f])
           S == Bound(Sets[f][i])
<1>1. /\ pc[f] = "add" /\ pc[f] \in SetPhase
      /\ UNCHANGED <<shader_vars, create_vars, set_index, m_have_lock>>
      /\ r = First(S) => unlock_set_layout_binding(f, LockOf(f, i)[1], LockOf(f, i)[2])
      /\ r # First(S) => UNCHANGED <<woken, m_mutex>>
  BY DEF add_set_layout_binding, NextUpdated, LockOf, SetPhase
<1>2. /\ i \in missing[f] /\ i \in 1..Len(Sets[f]) /\ S \in SUBSET Resources /\ First(S) \in S
      /\ \A q \in S : First(S) <= q
      /\ ~m_have_lock[f] /\ Locked(f) = missing[f]
  BY <1>1, UpdatedIn
<1>3. IndexesOf(f) /\ First(S) \in todo[f] /\ todo[f] \subseteq S
  BY <1>1 DEF IInv, SetIndexes, IndexesOf
<1>4. r \in todo[f] /\ \A q \in todo[f] : r >= q
  <2>1. todo[f] \in SUBSET Resources /\ todo[f] # {}
    BY <1>2, <1>3
  <2> QED
    BY <2>1, LastIn
<1>5. Waits(f) <=> set_index[f] <= Len(Sets[f])
  BY <1>1 DEF Waits
<1>6. /\ set_index[f] \in Nat \ {0} /\ missing[f] \in SUBSET Nat /\ m_have_lock[f] = FALSE
      /\ set_index' = [set_index EXCEPT ![f] = set_index[f]] /\ todo[f] \in SUBSET Resources
      /\ m_have_lock' = [m_have_lock EXCEPT ![f] = FALSE]
  BY <1>1, <1>2, Replaced
<1>7. CASE todo[f] # {r}
  <2>1. r # First(S)
    <3> SUFFICES ASSUME r = First(S) PROVE FALSE
      OBVIOUS
    <3>1. PICK q \in todo[f] : q # r
      BY <1>4, <1>7
    <3>2. q \in Nat /\ r \in Nat /\ r >= q /\ r <= q
      BY <1>2, <1>3, <1>4, <3>1, ResourcesAreNumbers
    <3> QED
      BY <3>1, <3>2
  <2> DEFINE t == todo[f] \ {r}
  <2>2. /\ pc' = [pc EXCEPT ![f] = "update"] /\ todo' = [todo EXCEPT ![f] = t] /\ missing' = missing
        /\ UNCHANGED <<woken, m_mutex>>
    BY <1>1, <1>7, <2>1 DEF add_set_layout_binding, NextUpdated, Goto
  <2>3. t \in SUBSET Resources /\ First(S) \in t /\ t \subseteq S /\ "update" \in SetPhase
    BY <1>2, <1>3, <1>6, <2>1 DEF SetPhase
  <2>4. StaysTo(f, "update", t)
    BY <1>1, <1>5, <2>3 DEF StaysTo
  <2> HIDE DEF t
  <2> QED
    BY <1>1, <2>2, <2>3, <2>4, StayStep
<1>8. CASE todo[f] = {r}
  <2>1. r = First(S) /\ unlock_set_layout_binding(f, LockOf(f, i)[1], LockOf(f, i)[2])
    BY <1>1, <1>3, <1>8
  <2> DEFINE s == missing[f] \ {i}
             n == set_index[f]
             to == IF s # {} THEN "update" ELSE IF n <= Len(Sets[f]) THEN "wait_set" ELSE "done"
             t == IF s # {} THEN Bound(Sets[f][First(s)])
                  ELSE IF n <= Len(Sets[f]) THEN Bound(Sets[f][n]) ELSE {}
  <2>2. /\ missing' = [missing EXCEPT ![f] = s] /\ s \in SUBSET Nat /\ s = Locked(f) \ {i}
        /\ pc' = [pc EXCEPT ![f] = to] /\ to \in SetPhase
        /\ todo' = [todo EXCEPT ![f] = t]
    <3>1. missing[f] = {i} <=> s = {}
      BY <1>2
    <3>2. missing' = [missing EXCEPT ![f] = s]
      BY <1>8 DEF add_set_layout_binding, NextUpdated
    <3>5. pc' = [pc EXCEPT ![f] = to] /\ todo' = [todo EXCEPT ![f] = t]
      <4>1. CASE s = {}
        <5>1. AddedAll(f)
          BY <1>8, <3>1, <4>1 DEF add_set_layout_binding, NextUpdated
        <5> QED
          BY <4>1, <5>1 DEF AddedAll, Goto, Current
      <4>2. CASE s # {}
        <5>1. pc' = [pc EXCEPT ![f] = "update"] /\ todo' = [todo EXCEPT ![f] = Bound(Sets[f][First(s)])]
          BY <1>8, <3>1, <4>2 DEF add_set_layout_binding, NextUpdated, Goto
        <5> QED
          BY <4>2, <5>1
      <4> QED
        BY <4>1, <4>2
    <3>6. to \in SetPhase
      BY DEF SetPhase
    <3> QED
      BY <1>2, <1>6, <3>2, <3>5, <3>6
  <2>3. n \in Nat \ {0} /\ (n <= Len(Sets[f]) => n \in 1..Len(Sets[f]))
    BY <1>6
  <2>4. /\ t \in SUBSET Resources
        /\ s # {} => First(s) \in s /\ First(Bound(Sets[f][First(s)])) \in t /\ t = Bound(Sets[f][First(s)])
    <3>1. s # {} => First(s) \in s /\ First(s) \in 1..Len(Sets[f])
      <4>1. s # {} => First(s) \in s
        BY <2>2, FirstIn
      <4>2. \A j \in s : j \in 1..Len(Sets[f])
        BY <2>2, OwnsType
      <4> QED
        BY <4>1, <4>2
    <3> QED
      BY <2>3, <3>1, LockType
  <2>5. n = set_index[f] /\ (to = "update" <=> s # {}) /\ (to = "wait_set" <=> s = {} /\ n <= Len(Sets[f]))
        /\ to \in {"update", "wait_set", "done"}
    OBVIOUS
  <2> HIDE DEF i, r, S, s, n, to, t
  <2>6. /\ pc'[f] = to /\ todo'[f] = t /\ set_index'[f] = n /\ missing'[f] = s /\ m_have_lock'[f] = FALSE
    BY <1>6, <2>2, <2>3, <2>4, <2>5, Changed
  <2>7. Waits(f)' <=> n <= Len(Sets[f])
    BY <2>5, <2>6 DEF Waits
  <2>8. IndexesOf(f)'
    <3>1. Updated(f)' = First(s)
      BY <2>6 DEF Updated
    <3>2. /\ n <= Len(Sets[f]) + 1 /\ \A j \in s : j \in 1..(n - 1)
      BY <1>3, <2>2, <2>5, <1>2 DEF IndexesOf
    <3> QED
      BY <2>2, <2>4, <2>5, <2>6, <3>1, <3>2 DEF IndexesOf
  <2>9. Waits(f) => i # set_index[f]
    <3>1. i \in 1..(set_index[f] - 1)
      BY <1>2, <1>3 DEF IndexesOf
    <3> QED
      BY <1>6, <3>1
  <2>10. i \in Locked(f) /\ (Waits(f)' <=> Waits(f))
    BY <1>2, <1>5, <2>5, <2>7
  <2>11. f \in woken => Waits(f)
    BY <1>1 DEF IInv, SetQueues
  <2> QED
    BY <1>1, <1>6, <2>1, <2>2, <2>3, <2>4, <2>5, <2>8, <2>9, <2>10, <2>11, UnlockStep
<1> QED
  BY <1>7, <1>8

--------------------------------------------------------------------------------

LEMMA NextIInv == IInv /\ [Next]_vars => IInv'
<1> SUFFICES ASSUME IInv, [Next]_vars PROVE IInv'
  OBVIOUS
<1>1. CASE UNCHANGED vars
  BY <1>1 DEF vars, shader_vars, create_vars, set_vars, IInv, Types, Woken, ShaderQueues, CurrentShader, CreateQueues,
              SetIndexes, IndexesOf, Current, Updated, SetQueues, Queue, Owns, Locked, Waits, LockOf
<1>2. ASSUME NEW f \in Factories, Factory(f) PROVE IInv'
  <2>1. CASE \/ lock_shader(f) \/ obtained_shader_lock(f) \/ realize_shader(f) \/ compile(f)
             \/ characteristics_compiled(f)
    BY <2>1, ShaderStep
  <2>2. CASE \/ acquire_create_lock(f) \/ obtained_create_lock(f) \/ instantiate(f) \/ set_created(f)
             \/ release_create_lock(f) \/ initialize_shader_resources_per_set_index(f)
    BY <2>2, CreateStep
  <2>3. CASE lock_set_layout_binding(f) \/ obtained_set_layout_binding_lock(f)
    BY <2>3, LockStep, ObtainedStep, SetStep
  <2>4. CASE set_is_missing(f) \/ have_match(f) \/ add_set_layout_binding(f)
    BY <2>4, MissingStep, MatchStep, AddStep, SetStep
  <2>5. CASE still_have_match(f) \/ searched(f) \/ allocate_descriptor_sets(f) \/ update_descriptor_set(f)
    BY <2>5, OtherSteps, SetStep
  <2> QED
    BY <1>2, <2>1, <2>2, <2>3, <2>4, <2>5 DEF Factory
<1> QED
  BY <1>1, <1>2 DEF Next

(* The inductive invariant holds in every reachable state: every task that     *)
(* waits for a mutex is queued in it or was handed it, and a factory heads the  *)
(* mutexes of descriptor sets that it was granted and did not unlock yet        *)
(* (PipelineFactory.cxx:1515-1653, Application.cxx:1071).                       *)
THEOREM Invariant == Spec => []IInv
BY InitIInv, NextIInv, PTL DEF Spec

(* A shader is compiled at most once (AddShaderStage::realize_shaders): whoever compiles
   it owns its mutex, and found that nobody compiled it before. *)
THEOREM CompiledOnce == Spec => []ShadersCompiledOnce
<1>1. IInv => ShadersCompiledOnce
  <2> SUFFICES ASSUME IInv, NEW s \in ShaderIndexes
               PROVE  /\ Cardinality(m_shader_module[s]) <= 1
                      /\ \A f \in Factories : pc[f] = "compile" /\ CurrentShader(f) = s =>
                           /\ m_shader_module[s] = {}
                           /\ \A g \in Factories \ {f} : pc[g] = "compile" => CurrentShader(g) # s
    BY DEF ShadersCompiledOnce
  <2>1. Cardinality(m_shader_module[s]) <= 1
    <3>1. CASE m_shader_module[s] = {}
      BY <3>1, FS_EmptySet
    <3>2. CASE m_shader_module[s] # {}
      <4>1. PICK f \in m_shader_module[s] : TRUE
        BY <3>2
      <4>2. m_shader_module[s] = {f}
        BY <4>1 DEF IInv, ShaderQueues
      <4>3. Cardinality({f}) = 1
        BY FS_Singleton
      <4> QED
        BY <4>2, <4>3
    <3> QED
      BY <3>1, <3>2
  <2>2. \A f \in Factories : pc[f] = "compile" /\ CurrentShader(f) = s =>
           m_task_mutex[s][1] = f /\ m_shader_module[s] = {}
    BY DEF IInv, ShaderQueues
  <2> QED
    BY <2>1, <2>2
<1> QED
  BY <1>1, Invariant, PTL

(* A factory that waits for the mutex of a descriptor set handed over all those that it
   had (PipelineFactory::update_missing_descriptor_sets), so that factories that need the
   same resources in a different order cannot wait for each other. *)
THEOREM NoDeadlock == Spec => []NoHoldAndWait
<1>1. IInv => NoHoldAndWait
  <2> SUFFICES ASSUME IInv, NEW f \in Factories, pc[f] = "wait_set", f \notin woken,
                      NEW r \in Resources, NEW k \in SetLayoutBindings, m_mutex[r][k] # <<>>
               PROVE  Head(m_mutex[r][k]) # f
    BY DEF NoHoldAndWait
  <2>1. Locked(f) = {}
    BY DEF IInv, SetIndexes, IndexesOf, Locked
  <2>2. Owns(f) = {}
    BY <2>1 DEF Owns
  <2>3. <<r, k>> \in Locks /\ Queue(<<r, k>>) = m_mutex[r][k]
    BY DEF Locks, Queue
  <2>4. m_mutex[r][k][1] # f
    BY <2>2, <2>3 DEF IInv, SetQueues
  <2>5. m_mutex[r][k] \in Seq(Factories)
    BY DEF IInv, Types
  <2> QED
    BY <2>4, <2>5
<1> QED
  BY <1>1, Invariant, PTL

--------------------------------------------------------------------------------

(* A resource is instantiated once, and what a factory needs is created, is its own to
   create, or is still to be looked at. *)
Creation ==
  /\ instantiated \in [Resources -> SUBSET Factories]
  /\ \A r \in Resources : \A f, g \in instantiated[r] : f = g
  /\ \A f \in Factories : pc[f] = "set_created" => acquired[f] \ m_created # {}
  /\ \A r \in Resources : instantiated[r] # {} /\ r \notin m_created =>
       \E f \in Factories : pc[f] = "set_created" /\ r = First(acquired[f] \ m_created)
  /\ \A f \in Factories : pc[f] \in {"create", "set_created"} =>
       Required(f) \subseteq todo[f] \cup acquired[f] \cup m_created
  /\ \A f \in Factories : pc[f] \in SetPhase => Required(f) \subseteq m_created

(* No two factories have the mutex of the same resource. *)
LEMMA OneCreates ==
  ASSUME IInv, NEW f \in Factories, NEW g \in Factories, NEW r \in acquired[f] \cap acquired[g]
  PROVE  f = g
<1>1. r \in Resources
  BY DEF IInv, Types
<1> QED
  BY <1>1 DEF IInv, CreateQueues

(* The resource that a factory creates. *)
LEMMA FirstMissing ==
  ASSUME IInv, NEW f \in Factories, acquired[f] \ m_created # {}
  PROVE  /\ First(acquired[f] \ m_created) \in acquired[f] \ m_created
         /\ First(acquired[f] \ m_created) \in Resources
<1>1. acquired[f] \ m_created \in SUBSET Nat /\ acquired[f] \in SUBSET Resources
  BY ResourcesAreNumbers DEF IInv, Types
<1> QED
  BY <1>1, FirstIn

(* The steps that neither instantiate nor create. *)
LEMMA CreationFrame ==
  ASSUME IInv, Creation, UNCHANGED <<instantiated, m_created>>,
         \A g \in Factories : pc[g] = "set_created" => pc'[g] = "set_created" /\ acquired'[g] = acquired[g],
         \A g \in Factories : pc'[g] = "set_created" => pc[g] = "set_created",
         \A g \in Factories : pc'[g] \in {"create", "set_created"} =>
            Required(g) \subseteq todo'[g] \cup acquired'[g] \cup m_created,
         \A g \in Factories : pc'[g] \in SetPhase => Required(g) \subseteq m_created
  PROVE  Creation'
<1>1. \A r \in Resources : instantiated[r] # {} /\ r \notin m_created =>
        \E f \in Factories : pc'[f] = "set_created" /\ r = First(acquired'[f] \ m_created)
  <2> SUFFICES ASSUME NEW r \in Resources, instantiated[r] # {}, r \notin m_created
               PROVE  \E f \in Factories : pc'[f] = "set_created" /\ r = First(acquired'[f] \ m_created)
    OBVIOUS
  <2>1. PICK f \in Factories : pc[f] = "set_created" /\ r = First(acquired[f] \ m_created)
    BY DEF Creation
  <2>2. pc'[f] = "set_created" /\ acquired'[f] = acquired[f]
    BY <2>1
  <2> QED
    BY <2>1, <2>2
<1>2. \A f \in Factories : pc'[f] = "set_created" => acquired'[f] \ m_created # {}
  BY DEF Creation
<1>3. instantiated \in [Resources -> SUBSET Factories] /\ \A r \in Resources : \A f, g \in instantiated[r] : f = g
  BY DEF Creation
<1>4. \A f \in Factories : /\ pc'[f] \in {"create", "set_created"} => Required(f) \subseteq todo'[f] \cup acquired'[f] \cup m_created
                           /\ pc'[f] \in SetPhase => Required(f) \subseteq m_created
  OBVIOUS
<1> QED
  BY <1>1, <1>2, <1>3, <1>4 DEF Creation

LEMMA CreationNext == IInv /\ Creation /\ [Next]_vars => Creation'
<1> SUFFICES ASSUME IInv, Creation, [Next]_vars PROVE Creation'
  OBVIOUS
<1>1. CASE UNCHANGED vars
  BY <1>1 DEF Creation, vars, create_vars
<1>2. ASSUME NEW f \in Factories, Factory(f) PROVE Creation'
  <2>1. CASE lock_shader(f) \/ obtained_shader_lock(f) \/ realize_shader(f) \/ compile(f)
    <3>1. /\ UNCHANGED <<create_vars, todo>>
          /\ \E l \in {"realize_shader", "wait_shader", "shaders", "compile"} : pc' = [pc EXCEPT ![f] = l]
          /\ pc[f] # "set_created"
      BY <2>1 DEF lock_shader, obtained_shader_lock, realize_shader, compile, unlock_shader, Goto, Obtained
    <3>2. \A g \in Factories : (pc'[g] = pc[g] \/ pc'[g] \in {"realize_shader", "wait_shader", "shaders", "compile"})
      BY <3>1 DEF IInv, Types
    <3>3. \A g \in Factories : pc[g] = "set_created" => pc'[g] = "set_created"
      BY <3>1 DEF IInv, Types
    <3>4. \A g \in Factories : /\ pc'[g] = "set_created" => pc[g] = "set_created"
                               /\ pc'[g] \in {"create", "set_created"} => pc[g] \in {"create", "set_created"}
                               /\ pc'[g] \in SetPhase => pc[g] \in SetPhase
      BY <3>2 DEF SetPhase
    <3> QED
      BY <3>1, <3>3, <3>4, CreationFrame DEF create_vars, Creation
  <2>2. CASE characteristics_compiled(f) \/ obtained_create_lock(f)
    <3>1. /\ UNCHANGED create_vars /\ pc' = [pc EXCEPT ![f] = "create"] /\ todo' = [todo EXCEPT ![f] = Required(f)]
          /\ pc[f] # "set_created"
      BY <2>2 DEF characteristics_compiled, obtained_create_lock, Goto, Obtained
    <3>2. \A g \in Factories : IF g = f THEN pc'[g] = "create" /\ todo'[g] = Required(g)
                                        ELSE pc'[g] = pc[g] /\ todo'[g] = todo[g]
      BY <3>1 DEF IInv, Types
    <3> QED
      BY <3>1, <3>2, CreationFrame DEF create_vars, Creation, SetPhase
  <2>3. CASE acquire_create_lock(f)
    <3> DEFINE r == First(todo[f])
    <3>1. /\ UNCHANGED <<instantiated, m_created>> /\ pc[f] = "create"
          /\ \/ r \in m_created /\ todo' = [todo EXCEPT ![f] = todo[f] \ {r}] /\ UNCHANGED <<pc, acquired>>
             \/ /\ acquired' = [acquired EXCEPT ![f] = acquired[f] \cup {r}]
                /\ todo' = [todo EXCEPT ![f] = todo[f] \ {r}] /\ UNCHANGED pc
             \/ pc' = [pc EXCEPT ![f] = "wait_create"] /\ UNCHANGED <<todo, acquired>>
      BY <2>3 DEF acquire_create_lock, Goto
    <3> HIDE DEF r
    <3>2. \A g \in Factories \ {f} : pc'[g] = pc[g] /\ todo'[g] = todo[g] /\ acquired'[g] = acquired[g]
      BY <3>1 DEF IInv, Types
    <3>3. /\ pc'[f] = "create" => todo[f] \cup acquired[f] \cup m_created \subseteq todo'[f] \cup acquired'[f] \cup m_created
          /\ pc'[f] \in {"create", "wait_create"}
      BY <3>1 DEF IInv, Types
    <3> QED
      BY <3>1, <3>2, <3>3, CreationFrame DEF Creation, SetPhase
  <2>4. CASE instantiate(f)
    <3> DEFINE r == First(acquired[f] \ m_created)
    <3>1. /\ UNCHANGED <<m_created, acquired, todo>> /\ pc[f] = "create" /\ acquired[f] \ m_created # {}
          /\ instantiated' = [instantiated EXCEPT ![r] = instantiated[r] \cup {f}]
          /\ pc' = [pc EXCEPT ![f] = "set_created"]
      BY <2>4 DEF instantiate, AllAcquired, Goto
    <3>2. r \in acquired[f] \ m_created /\ r \in Resources
      BY <3>1, FirstMissing
    <3>3. \A g \in Factories : IF g = f THEN pc'[g] = "set_created" ELSE pc'[g] = pc[g]
      BY <3>1 DEF IInv, Types
    <3>4. instantiated[r] = {}
      <4> SUFFICES ASSUME instantiated[r] # {} PROVE FALSE
        OBVIOUS
      <4>1. PICK g \in Factories : pc[g] = "set_created" /\ r = First(acquired[g] \ m_created)
        BY <3>2 DEF Creation
      <4>2. r \in acquired[g]
        BY <4>1, FirstMissing DEF Creation
      <4> QED
        BY <3>1, <3>2, <4>1, <4>2, OneCreates
    <3>5. \A p \in Resources : instantiated'[p] = IF p = r THEN {f} ELSE instantiated[p]
      BY <3>1, <3>4 DEF Creation
    <3>6. instantiated' \in [Resources -> SUBSET Factories]
      <4>1. instantiated' = [instantiated EXCEPT ![r] = {f}]
        BY <3>1, <3>4
      <4>2. instantiated \in [Resources -> SUBSET Factories]
        BY DEF Creation
      <4> QED
        BY <4>1, <4>2
    <3>7. r = First(acquired'[f] \ m_created')
      BY <3>1
    <3>8. \A g \in Factories : pc[g] = "set_created" => pc'[g] = "set_created"
      BY <3>3
    <3> HIDE DEF r
    <3>9. \A p \in Resources : instantiated'[p] # {} /\ p \notin m_created' =>
            \E g \in Factories : pc'[g] = "set_created" /\ p = First(acquired'[g] \ m_created')
      <4> SUFFICES ASSUME NEW p \in Resources, instantiated'[p] # {}, p \notin m_created
                   PROVE  \E g \in Factories : pc'[g] = "set_created" /\ p = First(acquired'[g] \ m_created')
        BY <3>1
      <4>1. CASE p = r
        BY <3>3, <3>7, <4>1
      <4>2. CASE p # r
        <5>1. PICK g \in Factories : pc[g] = "set_created" /\ p = First(acquired[g] \ m_created)
          BY <3>5, <4>2 DEF Creation
        <5> QED
          BY <3>1, <3>8, <5>1
      <4> QED
        BY <4>1, <4>2
    <3>10. \A g \in Factories : /\ pc'[g] = "set_created" => acquired'[g] \ m_created' # {}
                                /\ pc'[g] \in {"create", "set_created"} =>
                                     Required(g) \subseteq todo'[g] \cup acquired'[g] \cup m_created'
                                /\ pc'[g] \in SetPhase => Required(g) \subseteq m_created'
      BY <3>1, <3>3 DEF Creation, SetPhase
    <3>11. \A p \in Resources : \A g, h \in instantiated'[p] : g = h
      BY <3>5 DEF Creation
    <3> QED
      BY <3>6, <3>9, <3>10, <3>11 DEF Creation
  <2>5. CASE set_created(f)
    <3> DEFINE r == First(acquired[f] \ m_created)
    <3>1. /\ UNCHANGED <<instantiated, acquired, todo>> /\ pc[f] = "set_created" /\ m_created' = m_created \cup {r}
          /\ pc' = [pc EXCEPT ![f] = "create"]
      BY <2>5 DEF set_created, Goto
    <3>2. r \in acquired[f] /\ r \in Resources
      BY <3>1, FirstMissing DEF Creation
    <3>3. \A g \in Factories : IF g = f THEN pc'[g] = "create" ELSE pc'[g] = pc[g]
      BY <3>1 DEF IInv, Types
    <3>4. \A g \in Factories \ {f} : acquired'[g] \ m_created' = acquired[g] \ m_created
      BY <3>1, <3>2, OneCreates
    <3>5. \A p \in Resources : instantiated'[p] # {} /\ p \notin m_created' =>
            \E g \in Factories : pc'[g] = "set_created" /\ p = First(acquired'[g] \ m_created')
      <4> SUFFICES ASSUME NEW p \in Resources, instantiated[p] # {}, p \notin m_created, p # r
                   PROVE  \E g \in Factories : pc'[g] = "set_created" /\ p = First(acquired'[g] \ m_created')
        BY <3>1
      <4>1. PICK g \in Factories : pc[g] = "set_created" /\ p = First(acquired[g] \ m_created)
        BY DEF Creation
      <4>2. g # f
        BY <4>1
      <4> HIDE DEF r
      <4> QED
        BY <3>3, <3>4, <4>1, <4>2
    <3> HIDE DEF r
    <3>6. \A g \in Factories : /\ pc'[g] = "set_created" => acquired'[g] \ m_created' # {}
                               /\ pc'[g] \in {"create", "set_created"} =>
                                    Required(g) \subseteq todo'[g] \cup acquired'[g] \cup m_created'
                               /\ pc'[g] \in SetPhase => Required(g) \subseteq m_created'
      BY <3>1, <3>3, <3>4 DEF Creation, SetPhase
    <3> QED
      BY <3>1, <3>5, <3>6 DEF Creation
  <2>6. CASE release_create_lock(f) \/ initialize_shader_resources_per_set_index(f)
    <3>1. /\ UNCHANGED <<instantiated, m_created>> /\ pc[f] = "create" /\ todo[f] = {}
          /\ acquired[f] \subseteq m_created
          /\ \/ pc' = pc /\ todo' = todo /\ acquired' = [acquired EXCEPT ![f] = acquired[f] \ {Last(acquired[f])}]
             \/ pc' = [pc EXCEPT ![f] = "search"] /\ acquired' = acquired
                /\ todo' = [todo EXCEPT ![f] = UsesSet(f, 1)]
      BY <2>6 DEF release_create_lock, initialize_shader_resources_per_set_index, AllAcquired, Goto, create_vars
    <3>2. Required(f) \subseteq m_created
      BY <3>1 DEF Creation
    <3>3. \A g \in Factories \ {f} : pc'[g] = pc[g] /\ todo'[g] = todo[g] /\ acquired'[g] = acquired[g]
      BY <3>1 DEF IInv, Types
    <3>4. pc'[f] \in {"create", "search"}
      BY <3>1 DEF IInv, Types
    <3> QED
      BY <3>1, <3>2, <3>3, <3>4, CreationFrame DEF Creation, SetPhase
  <2>7. CASE \/ lock_set_layout_binding(f) \/ obtained_set_layout_binding_lock(f) \/ set_is_missing(f)
             \/ still_have_match(f) \/ have_match(f) \/ searched(f) \/ allocate_descriptor_sets(f)
             \/ update_descriptor_set(f) \/ add_set_layout_binding(f)
    <3>1. SetStepped(f)
      BY <2>7, LockStep, ObtainedStep, MissingStep, MatchStep, OtherSteps, AddStep
    <3>2. UNCHANGED <<instantiated, m_created, acquired>>
      BY <3>1 DEF SetStepped, create_vars
    <3>3. \A g \in Factories \ {f} : pc'[g] = pc[g] /\ todo'[g] = todo[g]
      BY <3>1 DEF SetStepped, Others
    <3>4. pc[f] \in SetPhase /\ pc'[f] \in SetPhase
      BY <3>1 DEF SetStepped
    <3> QED
      BY <3>2, <3>3, <3>4, CreationFrame DEF Creation, SetPhase
  <2> QED
    BY <1>2, <2>1, <2>2, <2>3, <2>4, <2>5, <2>6, <2>7 DEF Factory
<1> QED
  BY <1>1, <1>2 DEF Next

(* A shader resource is instantiated by one factory, and every factory starts to bind its
   resources after they were created (handle_shader_resource_creation_requests). *)
THEOREM CreatedOnce == Spec => []ResourcesCreatedOnce
<1>1. Init => Creation
  BY DEF Init, Creation, SetPhase
<1>2. Creation => ResourcesCreatedOnce
  <2> SUFFICES ASSUME Creation PROVE ResourcesCreatedOnce
    OBVIOUS
  <2>1. ASSUME NEW r \in Resources PROVE Cardinality(instantiated[r]) <= 1
    <3>1. CASE instantiated[r] = {}
      BY <3>1, FS_EmptySet
    <3>2. CASE instantiated[r] # {}
      <4>1. PICK f \in instantiated[r] : TRUE
        BY <3>2
      <4>2. instantiated[r] = {f}
        BY <4>1 DEF Creation
      <4>3. Cardinality({f}) = 1
        BY FS_Singleton
      <4> QED
        BY <4>2, <4>3
    <3> QED
      BY <3>1, <3>2
  <2> QED
    BY <2>1 DEF ResourcesCreatedOnce, Creation, SetPhase
<1> QED
  BY <1>1, <1>2, CreationNext, Invariant, PTL DEF Spec

--------------------------------------------------------------------------------

(* The new descriptor sets of a factory: allocated, but not yet added for all resources. *)
Pending(f) == IF pc[f] \in {"update", "add"} THEN missing[f] ELSE {}
DescriptorSet(f, i) == m_descriptor_set_per_set_index[f][i]
Existing == 1..Len(descriptor_sets)
IsNew(d) == \E f \in Factories : \E i \in Pending(f) : DescriptorSet(f, i) = d
Finished == {d \in Existing : ~IsNew(d)}

\* The descriptor set can be found by the resource at this binding.
HasHandle(d, set, b) == d \in handles[set[b]][<<Len(set), b>>]

\* The bindings that were added, and those that were updated.
Added(f, i) == {b \in DOMAIN Sets[f][i] : i = Updated(f) /\ Sets[f][i][b] \notin todo[f]}
Written(f, i) ==
  {b \in DOMAIN Sets[f][i] :
     b \in Added(f, i) \/ (i = Updated(f) /\ pc[f] = "add" /\ Sets[f][i][b] = NextUpdated(f))}
Contents(f, i) == [b \in DOMAIN Sets[f][i] |-> IF b \in Written(f, i) THEN Sets[f][i][b] ELSE 0]

SetTypes ==
  /\ descriptor_sets \in Seq(Seq(Nat))
  /\ handles \in [Resources -> [SetLayoutBindings -> SUBSET Nat]]
  /\ matches \in [Factories -> SUBSET Nat]
  /\ m_descriptor_set_per_set_index = [f \in Factories |-> m_descriptor_set_per_set_index[f]]
  /\ \A f \in Factories : m_descriptor_set_per_set_index[f] \in [DOMAIN Sets[f] -> Nat]

(* A handle is added after the descriptor set was updated. *)
HandlesRight ==
  \A r \in Resources, k \in SetLayoutBindings : \A d \in handles[r][k] :
    d \in Existing /\ Len(descriptor_sets[d]) = k[1] /\ descriptor_sets[d][k[2]] = r

(* The new descriptor sets are different ones; they bind what was updated so far, and are
   found by what was added so far. *)
NewSet(f, i) ==
  /\ DescriptorSet(f, i) \in Existing
  /\ descriptor_sets[DescriptorSet(f, i)] = Contents(f, i)
  /\ \A b \in DOMAIN Sets[f][i] : HasHandle(DescriptorSet(f, i), Sets[f][i], b) <=> b \in Added(f, i)
  /\ \A g \in Factories : \A j \in Pending(g) : DescriptorSet(g, j) = DescriptorSet(f, i) => g = f /\ j = i

NewSets == \A f \in Factories : \A i \in Pending(f) : NewSet(f, i)

(* The other ones bind all resources of some set index, are found by all of them, and are
   different from each other and from what factories are about to add. *)
FinishedSet(d) ==
  /\ \E f \in Factories : \E i \in DOMAIN Sets[f] : descriptor_sets[d] = Sets[f][i]
  /\ \A b \in DOMAIN descriptor_sets[d] : HasHandle(d, descriptor_sets[d], b)
  /\ \A e \in Finished : descriptor_sets[e] = descriptor_sets[d] => e = d
  /\ \A f \in Factories : \A i \in missing[f] : descriptor_sets[d] # Sets[f][i]

FinishedSets == \A d \in Finished : FinishedSet(d)

(* A factory that searches has, as matches, the descriptor sets that are found by all
   resources so far. *)
SearchOf(f) ==
  /\ pc[f] \in {"search", "wait_set"} /\ set_index[f] <= Len(Sets[f]) =>
       todo[f] # {} /\ todo[f] \subseteq Bound(Current(f))
  /\ pc[f] = "wait_set" => todo[f] = Bound(Current(f))
  /\ pc[f] = "search" /\ set_index[f] <= Len(Sets[f]) /\ todo[f] # Bound(Current(f)) =>
       /\ \A d \in Finished : descriptor_sets[d] = Current(f) => d \in matches[f]
       /\ \A d \in matches[f], b \in DOMAIN Current(f) : Current(f)[b] \notin todo[f] => HasHandle(d, Current(f), b)

Searches == \A f \in Factories : SearchOf(f)

(* The set indexes that were searched, and are not missing, got their descriptor set. *)
FoundOf(f) ==
  /\ \A i \in DOMAIN Sets[f] : i < set_index[f] /\ i \notin missing[f] =>
       DescriptorSet(f, i) \in Existing /\ descriptor_sets[DescriptorSet(f, i)] = Sets[f][i]
  /\ pc[f] = "done" => set_index[f] > Len(Sets[f])

Found == \A f \in Factories : FoundOf(f)

Bindings == SetTypes /\ HandlesRight /\ NewSets /\ FinishedSets /\ Searches /\ Found

--------------------------------------------------------------------------------

(* The resources of a set index, by binding. *)
LEMMA SetOf ==
  ASSUME NEW f \in Factories, NEW i \in DOMAIN Sets[f]
  PROVE  /\ i \in 1..Len(Sets[f]) /\ Len(Sets[f]) \in Nat
         /\ Sets[f][i] \in Seq(Resources) /\ Sets[f][i] \in Seq(Nat)
         /\ DOMAIN Sets[f][i] = 1..Len(Sets[f][i]) /\ Len(Sets[f][i]) \in Nat \ {0}
         /\ \A b \in DOMAIN Sets[f][i] : /\ Sets[f][i][b] \in Resources /\ Sets[f][i][b] \in Nat
                                         /\ Sets[f][i][b] # 0 /\ Sets[f][i][b] \in Bound(Sets[f][i])
<1>1. Sets[f][i] \in Seq(Resources) /\ Sets[f][i] # <<>> /\ Sets[f] \in Seq(Seq(Resources))
  OBVIOUS
<1>2. i \in 1..Len(Sets[f]) /\ Len(Sets[f]) \in Nat
  BY <1>1
<1>3. Resources \subseteq Nat /\ 0 \notin Resources
  BY FS_CardinalityType
<1>4. DOMAIN Sets[f][i] = 1..Len(Sets[f][i]) /\ Len(Sets[f][i]) \in Nat \ {0}
  BY <1>1, EmptySeq
<1>5. \A b \in DOMAIN Sets[f][i] : Sets[f][i][b] \in Resources
  BY <1>1
<1>6. \A b \in DOMAIN Sets[f][i] : Sets[f][i][b] \in Bound(Sets[f][i])
  BY DEF Bound
<1>7. Sets[f][i] \in Seq(Nat)
  BY <1>1, <1>3, SeqMonotonic
<1> QED
  BY <1>1, <1>2, <1>3, <1>4, <1>5, <1>6, <1>7

(* The binding of a resource of a set. *)
LEMMA BindingOf ==
  ASSUME NEW f \in Factories, NEW i \in DOMAIN Sets[f], NEW b \in DOMAIN Sets[f][i]
  PROVE  /\ SetLayoutBinding(Sets[f][i], Sets[f][i][b]) = <<Len(Sets[f][i]), b>>
         /\ <<Len(Sets[f][i]), b>> \in SetLayoutBindings
<1> DEFINE s == Sets[f][i]
           r == s[b]
<1>1. \A c \in DOMAIN s : s[c] = r => c = b
  OBVIOUS
<1>2. SetLayoutBinding(s, r) = <<Len(s), b>>
  <2>1. (CHOOSE c \in DOMAIN s : s[c] = r) = b
    BY <1>1
  <2> QED
    BY <2>1 DEF SetLayoutBinding
<1>3. SetLayoutBinding(s, r) \in SetLayoutBindings
  <2> DEFINE OfSet(g, j) == {SetLayoutBinding(Sets[g][j], q) : q \in Bound(Sets[g][j])}
             OfFactory(g) == UNION {OfSet(g, j) : j \in DOMAIN Sets[g]}
  <2>1. r \in Bound(s)
    BY DEF Bound
  <2>2. SetLayoutBinding(s, r) \in OfSet(f, i)
    BY <2>1
  <2>3. SetLayoutBindings = UNION {OfFactory(g) : g \in Factories}
    BY DEF SetLayoutBindings
  <2> HIDE DEF OfSet, s
  <2>4. SetLayoutBinding(s, r) \in OfFactory(f)
    BY <2>2
  <2> HIDE DEF OfFactory
  <2> QED
    BY <2>3, <2>4
<1> QED
  BY <1>2, <1>3

(* Who owns the mutexes of two set indexes with the same resources is the same factory. *)
LEMMA SameSet ==
  ASSUME IInv, NEW f \in Factories, NEW g \in Factories, NEW i \in Locked(f), NEW j \in Locked(g),
         Sets[f][i] = Sets[g][j]
  PROVE  f = g /\ i = j
<1>1. i \in 1..Len(Sets[f]) /\ j \in 1..Len(Sets[g])
  BY OwnsType
<1>2. LockOf(f, i) = LockOf(g, j)
  BY DEF LockOf
<1>3. LockOf(f, i) \in Owns(f) /\ LockOf(f, i) \in Owns(g)
  BY <1>2 DEF Owns
<1>4. LockOf(f, i) \in Locks
  BY <1>1, LockType
<1>5. f = g
  BY <1>3, <1>4 DEF IInv, SetQueues
<1> QED
  BY <1>1, <1>2, <1>5, LocksDiffer

(* A pending set index is missing, and is locked. *)
LEMMA PendingIn ==
  ASSUME IInv, NEW f \in Factories, NEW i \in Pending(f)
  PROVE  /\ pc[f] \in {"update", "add"} /\ i \in missing[f] /\ i \in Locked(f) /\ i \in DOMAIN Sets[f]
         /\ i \in 1..(set_index[f] - 1)
<1>1. pc[f] \in {"update", "add"} /\ i \in missing[f] /\ i \in Locked(f)
  BY DEF Pending, Locked
<1>2. i \in 1..Len(Sets[f])
  BY <1>1, OwnsType
<1>3. DOMAIN Sets[f] = 1..Len(Sets[f]) /\ i \in 1..(set_index[f] - 1)
  BY <1>1 DEF IInv, SetIndexes, IndexesOf
<1> QED
  BY <1>1, <1>2, <1>3

(* A new descriptor set without zeros binds all its resources. *)
Full(set) == \A b \in DOMAIN set : set[b] # 0

LEMMA FullNew ==
  ASSUME IInv, NewSets, NEW f \in Factories, NEW i \in Pending(f), Full(descriptor_sets[DescriptorSet(f, i)])
  PROVE  descriptor_sets[DescriptorSet(f, i)] = Sets[f][i] /\ \A b \in DOMAIN Sets[f][i] : b \in Written(f, i)
<1> DEFINE s == Sets[f][i]
<1>1. descriptor_sets[DescriptorSet(f, i)] = [b \in DOMAIN s |-> IF b \in Written(f, i) THEN s[b] ELSE 0]
  BY DEF NewSets, NewSet, Contents
<1>2. \A b \in DOMAIN s : b \in Written(f, i)
  BY <1>1 DEF Full
<1>3. descriptor_sets[DescriptorSet(f, i)] = [b \in DOMAIN s |-> s[b]]
  BY <1>1, <1>2
<1>4. s = [b \in DOMAIN s |-> s[b]]
  BY PendingIn, SetOf
<1> QED
  BY <1>2, <1>3, <1>4

(* What is found by all resources of a set binds them, and is not new. *)
LEMMA FoundByAll ==
  ASSUME IInv, SetTypes, HandlesRight, NewSets, NEW f \in Factories, NEW i \in DOMAIN Sets[f], NEW d,
         \A b \in DOMAIN Sets[f][i] : HasHandle(d, Sets[f][i], b)
  PROVE  d \in Finished /\ descriptor_sets[d] = Sets[f][i]
<1> DEFINE s == Sets[f][i]
<1>1. /\ s \in Seq(Nat) /\ DOMAIN s = 1..Len(s) /\ Len(s) \in Nat \ {0}
      /\ \A b \in DOMAIN s : s[b] \in Resources /\ s[b] # 0 /\ <<Len(s), b>> \in SetLayoutBindings
  BY SetOf, BindingOf
<1>2. \A b \in DOMAIN s : d \in Existing /\ Len(descriptor_sets[d]) = Len(s) /\ descriptor_sets[d][b] = s[b]
  <2> SUFFICES ASSUME NEW b \in DOMAIN s
               PROVE  d \in Existing /\ Len(descriptor_sets[d]) = Len(s) /\ descriptor_sets[d][b] = s[b]
    OBVIOUS
  <2> DEFINE k == <<Len(s), b>>
  <2>1. s[b] \in Resources /\ k \in SetLayoutBindings /\ d \in handles[s[b]][k]
    BY <1>1 DEF HasHandle
  <2> HIDE DEF k, s
  <2>2. d \in Existing /\ Len(descriptor_sets[d]) = k[1] /\ descriptor_sets[d][k[2]] = s[b]
    BY <2>1 DEF HandlesRight
  <2> USE DEF k
  <2> QED
    BY <2>2
<1> HIDE DEF s
<1>3. 1 \in DOMAIN s
  BY <1>1
<1>4. d \in Existing /\ descriptor_sets[d] = s
  <2>1. d \in Existing /\ Len(descriptor_sets[d]) = Len(s)
    BY <1>2, <1>3
  <2>2. descriptor_sets[d] \in Seq(Nat)
    BY <2>1 DEF SetTypes, Existing
  <2> QED
    BY <1>1, <1>2, <2>1, <2>2, SeqEqual
<1>5. ~IsNew(d)
  <2> SUFFICES ASSUME NEW g \in Factories, NEW j \in Pending(g), DescriptorSet(g, j) = d PROVE FALSE
    BY DEF IsNew
  <2>1. Full(descriptor_sets[d])
    BY <1>1, <1>4 DEF Full
  <2>2. Sets[g][j] = s
    BY <1>4, <2>1, FullNew
  <2>3. pc[g] \in {"update", "add"} /\ j \in DOMAIN Sets[g]
    BY PendingIn
  <2>4. \A b \in DOMAIN s : b \in Added(g, j)
    BY <2>2 DEF NewSets, NewSet, s
  <2>5. First(Bound(s)) \in Bound(s)
    BY <2>2, <2>3, SetOf, LockType
  <2>6. PICK b \in DOMAIN s : s[b] = First(Bound(s))
    BY <2>5 DEF Bound
  <2>7. j = Updated(g) /\ First(Bound(s)) \notin todo[g]
    BY <2>2, <2>4, <2>6 DEF Added
  <2>8. First(Bound(Sets[g][Updated(g)])) \in todo[g]
    BY <2>3 DEF IInv, SetIndexes, IndexesOf
  <2> QED
    BY <2>2, <2>7, <2>8
<1> QED
  BY <1>4, <1>5 DEF Finished, s

--------------------------------------------------------------------------------

(* Only this factory goes on; the descriptor sets and handles that there are stay. *)
OthersKeep(f) ==
  Others(f) /\ \A g \in Factories \ {f} : todo'[g] = todo[g] /\ matches'[g] = matches[g]
                                          /\ m_descriptor_set_per_set_index'[g] = m_descriptor_set_per_set_index[g]

Grows ==
  /\ \A d \in Existing : d \in Existing' /\ (Full(descriptor_sets[d]) => descriptor_sets'[d] = descriptor_sets[d])
  /\ \A r \in Resources, k \in SetLayoutBindings : handles[r][k] \subseteq handles'[r][k]

(* What another factory found stays right when no descriptor set is finished that binds the
   resources that it is looking for. *)
LEMMA OthersSearch ==
  ASSUME IInv, Bindings, NEW f \in Factories, OthersKeep(f), Grows, NEW g \in Factories \ {f},
         m_have_lock[g] => \A d \in Finished' \ Finished : descriptor_sets'[d] # Current(g),
         \A d \in Finished' : d \in Finished => descriptor_sets'[d] = descriptor_sets[d]
  PROVE  SearchOf(g)' /\ FoundOf(g)'
<1> USE DEF Bindings
<1>1. /\ pc'[g] = pc[g] /\ set_index'[g] = set_index[g] /\ missing'[g] = missing[g] /\ m_have_lock'[g] = m_have_lock[g]
      /\ todo'[g] = todo[g] /\ matches'[g] = matches[g]
      /\ m_descriptor_set_per_set_index'[g] = m_descriptor_set_per_set_index[g]
  BY DEF OthersKeep, Others
<1>2. Current(g)' = Current(g) /\ \A i : DescriptorSet(g, i)' = DescriptorSet(g, i)
  BY <1>1 DEF Current, DescriptorSet
<1>3. SearchOf(g) /\ FoundOf(g) /\ IndexesOf(g)
  BY DEF Searches, Found, IInv, SetIndexes
<1>4. FoundOf(g)'
  <2> SUFFICES ASSUME NEW i \in DOMAIN Sets[g], i < set_index[g], i \notin missing[g]
               PROVE  DescriptorSet(g, i) \in Existing' /\ descriptor_sets'[DescriptorSet(g, i)] = Sets[g][i]
    BY <1>1, <1>2, <1>3 DEF FoundOf
  <2>1. DescriptorSet(g, i) \in Existing /\ descriptor_sets[DescriptorSet(g, i)] = Sets[g][i]
    BY <1>3 DEF FoundOf
  <2>2. Full(Sets[g][i])
    BY SetOf DEF Full
  <2> QED
    BY <2>1, <2>2 DEF Grows
<1>5. SearchOf(g)'
  <2> SUFFICES ASSUME pc[g] = "search", set_index[g] <= Len(Sets[g]), todo[g] # Bound(Current(g))
               PROVE  /\ \A d \in Finished' : descriptor_sets'[d] = Current(g) => d \in matches[g]
                      /\ \A d \in matches[g], b \in DOMAIN Current(g) :
                           Current(g)[b] \notin todo[g] => d \in handles'[Current(g)[b]][<<Len(Current(g)), b>>]
    BY <1>1, <1>2, <1>3 DEF SearchOf, HasHandle
  <2>1. m_have_lock[g]
    BY <1>3 DEF IndexesOf
  <2>2. \A d \in Finished' : descriptor_sets'[d] = Current(g) => d \in matches[g]
    BY <1>3, <2>1 DEF SearchOf
  <2>3. set_index[g] \in DOMAIN Sets[g]
    BY DEF IInv, Types
  <2>4. ASSUME NEW d \in matches[g], NEW b \in DOMAIN Current(g), Current(g)[b] \notin todo[g]
        PROVE  d \in handles'[Current(g)[b]][<<Len(Current(g)), b>>]
    <3>1. HasHandle(d, Current(g), b)
      BY <1>3, <2>4 DEF SearchOf
    <3>2. Current(g)[b] \in Resources /\ <<Len(Current(g)), b>> \in SetLayoutBindings
      BY <2>3, SetOf, BindingOf DEF Current
    <3> QED
      BY <3>1, <3>2 DEF HasHandle, Grows
  <2> QED
    BY <2>2, <2>4
<1> QED
  BY <1>4, <1>5

(* A step of a factory that makes no descriptor sets. *)
LEMMA QuietStep ==
  ASSUME IInv, Bindings, NEW f \in Factories, OthersKeep(f), UNCHANGED <<descriptor_sets, handles>>,
         pc[f] \notin {"update", "add"}, pc'[f] \notin {"update", "add"}, SetTypes',
         \A i \in missing'[f] \ missing[f] : \A d \in Finished : descriptor_sets[d] # Sets[f][i],
         Finished' = Finished => SearchOf(f)' /\ FoundOf(f)'
  PROVE  Bindings'
<1> USE DEF Bindings
<1>1. \A g \in Factories : Pending(g)' = Pending(g)
  BY DEF Pending, OthersKeep, Others
<1>2. \A g \in Factories : \A i \in Pending(g) : g # f /\ DescriptorSet(g, i)' = DescriptorSet(g, i)
  BY DEF Pending, OthersKeep, DescriptorSet
<1>3. Existing' = Existing
  BY DEF Existing
<1>4. \A d : IsNew(d)' <=> IsNew(d)
  BY <1>1, <1>2 DEF IsNew
<1>5. Finished' = Finished
  BY <1>3, <1>4 DEF Finished
<1>6. \A d, s, b : HasHandle(d, s, b)' <=> HasHandle(d, s, b)
  BY DEF HasHandle
<1>7. HandlesRight'
  BY <1>3 DEF HandlesRight
<1>8. NewSets'
  <2> SUFFICES ASSUME NEW g \in Factories, NEW i \in Pending(g) PROVE NewSet(g, i)'
    BY <1>1 DEF NewSets
  <2>1. NewSet(g, i) /\ g # f
    BY <1>2 DEF NewSets
  <2>2. pc'[g] = pc[g] /\ todo'[g] = todo[g] /\ missing'[g] = missing[g]
    BY <2>1 DEF OthersKeep, Others
  <2>3. Added(g, i)' = Added(g, i)
    BY <2>2 DEF Added, Updated
  <2>4. Contents(g, i)' = Contents(g, i)
    BY <2>2, <2>3 DEF Contents, Written, Updated, NextUpdated
  <2>5. DescriptorSet(g, i)' = DescriptorSet(g, i)
    BY <1>2
  <2>6. \A h \in Factories : \A j \in Pending(h)' : DescriptorSet(h, j)' = DescriptorSet(g, i)' => h = g /\ j = i
    BY <1>1, <1>2, <2>1 DEF NewSet
  <2> QED
    BY <1>3, <2>1, <2>3, <2>4, <2>5, <2>6 DEF NewSet, HasHandle
<1>9. FinishedSets'
  <2> SUFFICES ASSUME NEW d \in Finished PROVE FinishedSet(d)'
    BY <1>5 DEF FinishedSets
  <2>1. FinishedSet(d)
    BY DEF FinishedSets
  <2>2. \A g \in Factories : \A i \in missing'[g] : descriptor_sets[d] # Sets[g][i]
    BY <2>1 DEF FinishedSet, OthersKeep, Others
  <2> QED
    BY <1>5, <2>1, <2>2 DEF FinishedSet, HasHandle
<1>10. ASSUME NEW g \in Factories PROVE SearchOf(g)' /\ FoundOf(g)'
  <2>1. Grows
    BY <1>3 DEF Grows
  <2>2. CASE g # f
    BY <1>5, <2>1, <2>2, OthersSearch
  <2> QED
    BY <1>5, <2>2
<1> QED
  BY <1>7, <1>8, <1>9, <1>10 DEF Searches, Found

--------------------------------------------------------------------------------

LEMMA InitBindings == Init => Bindings
<1> SUFFICES ASSUME Init PROVE Bindings
  OBVIOUS
<1>1. /\ \A f \in Factories : pc[f] = "shaders" /\ set_index[f] = 1 /\ missing[f] = {}
      /\ descriptor_sets = <<>> /\ Len(descriptor_sets) = 0
      /\ \A r \in Resources, k \in SetLayoutBindings : handles[r][k] = {}
  BY DEF Init
<1>2. SetTypes
  <2>1. <<>> \in Seq(Seq(Nat))
    OBVIOUS
  <2>2. handles \in [Resources -> [SetLayoutBindings -> SUBSET Nat]] /\ matches \in [Factories -> SUBSET Nat]
    BY DEF Init
  <2>3. m_descriptor_set_per_set_index = [f \in Factories |-> [i \in DOMAIN Sets[f] |-> 0]]
    BY DEF Init
  <2>4. ASSUME NEW f \in Factories PROVE m_descriptor_set_per_set_index[f] \in [DOMAIN Sets[f] -> Nat]
    BY <2>3
  <2>5. m_descriptor_set_per_set_index = [f \in Factories |-> m_descriptor_set_per_set_index[f]]
    BY <2>3
  <2> QED
    BY <1>1, <2>1, <2>2, <2>4, <2>5 DEF SetTypes
<1>3. \A f \in Factories : Pending(f) = {}
  BY <1>1 DEF Pending
<1>4. Existing = {}
  BY <1>1 DEF Existing
<1>5. HandlesRight /\ NewSets /\ FinishedSets /\ Searches
  BY <1>1, <1>3, <1>4 DEF HandlesRight, NewSets, FinishedSets, Finished, Searches, SearchOf
<1>6. Found
  <2>1. \A f \in Factories : \A i \in DOMAIN Sets[f] : ~(i < 1)
    BY SetOf
  <2> QED
    BY <1>1, <2>1 DEF Found, FoundOf
<1> QED
  BY <1>2, <1>5, <1>6 DEF Bindings

(* The steps of a factory that did not start to search. *)
LEMMA BeforeSets ==
  ASSUME IInv, Bindings, NEW f \in Factories, UNCHANGED set_vars, pc[f] \notin SetPhase,
         NEW l \in ShaderPhase \cup CreatePhase, NEW t, pc' = [pc EXCEPT ![f] = l], todo' = [todo EXCEPT ![f] = t]
  PROVE  Bindings'
<1>1. /\ \A g \in Factories \ {f} : pc'[g] = pc[g] /\ todo'[g] = todo[g]
      /\ pc'[f] = l
  BY DEF IInv, Types
<1>2. OthersKeep(f)
  BY <1>1 DEF OthersKeep, Others, set_vars
<1>3. pc[f] \notin {"update", "add"} /\ l \notin {"update", "add", "search", "wait_set", "done"}
  BY DEF SetPhase, ShaderPhase, CreatePhase
<1>4. SetTypes'
  <2>1. SetTypes /\ UNCHANGED <<descriptor_sets, handles, matches, m_descriptor_set_per_set_index>>
    BY DEF Bindings, set_vars
  <2> QED
    BY <2>1 DEF SetTypes
<1>5. SearchOf(f)'
  BY <1>1, <1>3 DEF SearchOf
<1>6. FoundOf(f)'
  <2>1. FoundOf(f)
    BY DEF Bindings, Found
  <2> QED
    BY <1>1, <1>3, <2>1 DEF FoundOf, set_vars, DescriptorSet, Existing
<1>7. UNCHANGED <<descriptor_sets, handles>> /\ missing'[f] \ missing[f] = {}
  BY DEF set_vars
<1> QED
  BY <1>1, <1>2, <1>3, <1>4, <1>5, <1>6, <1>7, QuietStep

LEMMA ShaderBindings ==
  ASSUME IInv, Bindings, NEW f \in Factories,
         \/ lock_shader(f) \/ obtained_shader_lock(f) \/ realize_shader(f) \/ compile(f)
         \/ characteristics_compiled(f)
  PROVE  Bindings'
<1>1. todo = [todo EXCEPT ![f] = todo[f]]
  BY DEF IInv, Types
<1>2. /\ UNCHANGED set_vars /\ pc[f] \in {"shaders", "wait_shader", "realize_shader", "compile"}
      /\ \E l \in {"shaders", "wait_shader", "realize_shader", "compile", "create"} : pc' = [pc EXCEPT ![f] = l]
      /\ \E t : todo' = [todo EXCEPT ![f] = t]
  <2>1. CASE lock_shader(f) \/ obtained_shader_lock(f) \/ realize_shader(f) \/ compile(f)
    BY <1>1, <2>1 DEF lock_shader, obtained_shader_lock, realize_shader, compile, unlock_shader, Goto, Obtained
  <2>2. CASE characteristics_compiled(f)
    BY <2>2 DEF characteristics_compiled, Goto
  <2> QED
    BY <2>1, <2>2
<1>3. /\ \E l \in {"shaders", "wait_shader", "realize_shader", "compile", "create"} : pc' = [pc EXCEPT ![f] = l]
      /\ \E t : todo' = [todo EXCEPT ![f] = t]
  BY <1>2
<1> PICK l \in {"shaders", "wait_shader", "realize_shader", "compile", "create"} : pc' = [pc EXCEPT ![f] = l]
  BY <1>3
<1> PICK t : todo' = [todo EXCEPT ![f] = t]
  BY <1>3
<1>4. l \in ShaderPhase \cup CreatePhase /\ pc[f] \notin SetPhase
  BY <1>2 DEF ShaderPhase, CreatePhase, SetPhase
<1> QED
  BY <1>2, <1>3, <1>4, BeforeSets

LEMMA CreateBindings ==
  ASSUME IInv, Bindings, NEW f \in Factories,
         \/ acquire_create_lock(f) \/ obtained_create_lock(f) \/ instantiate(f) \/ set_created(f)
         \/ release_create_lock(f)
  PROVE  Bindings'
<1>1. todo = [todo EXCEPT ![f] = todo[f]] /\ pc = [pc EXCEPT ![f] = pc[f]]
  BY DEF IInv, Types
<1>2. /\ UNCHANGED set_vars /\ pc[f] \in {"create", "wait_create", "set_created"}
      /\ \E l \in {"create", "wait_create", "set_created"} : pc' = [pc EXCEPT ![f] = l]
      /\ \E t : todo' = [todo EXCEPT ![f] = t]
  <2>1. CASE acquire_create_lock(f)
    <3>1. UNCHANGED set_vars /\ pc[f] = "create" /\ (pc' = pc \/ pc' = [pc EXCEPT ![f] = "wait_create"])
          /\ (todo' = todo \/ todo' = [todo EXCEPT ![f] = todo[f] \ {First(todo[f])}])
      BY <2>1 DEF acquire_create_lock, Goto
    <3> QED
      BY <1>1, <3>1
  <2>2. CASE obtained_create_lock(f)
    BY <2>2 DEF obtained_create_lock, Goto, Obtained
  <2>3. CASE instantiate(f) \/ set_created(f) \/ release_create_lock(f)
    <3>1. UNCHANGED <<set_vars, todo>> /\ pc[f] \in {"create", "set_created"}
          /\ (pc' = pc \/ \E l \in {"create", "set_created"} : pc' = [pc EXCEPT ![f] = l])
      BY <2>3 DEF instantiate, set_created, release_create_lock, AllAcquired, Goto
    <3> QED
      BY <1>1, <3>1
  <2> QED
    BY <2>1, <2>2, <2>3
<1>3. /\ \E l \in {"create", "wait_create", "set_created"} : pc' = [pc EXCEPT ![f] = l]
      /\ \E t : todo' = [todo EXCEPT ![f] = t]
  BY <1>2
<1> PICK l \in {"create", "wait_create", "set_created"} : pc' = [pc EXCEPT ![f] = l]
  BY <1>3
<1> PICK t : todo' = [todo EXCEPT ![f] = t]
  BY <1>3
<1>4. l \in ShaderPhase \cup CreatePhase /\ pc[f] \notin SetPhase
  BY <1>2 DEF ShaderPhase, CreatePhase, SetPhase
<1> QED
  BY <1>2, <1>3, <1>4, BeforeSets

--------------------------------------------------------------------------------

(* The descriptor sets that are bound to the resources so far, by a factory that searches:
   all that bind the resources of the set index, and no other than those that every
   resource so far was added for. *)
LEMMA SearchingAt ==
  ASSUME IInv, Bindings, NEW f \in Factories, Searching(f), ~NeedsLock(f)
  PROVE  LET r == First(todo[f]) IN
         /\ pc[f] = "search" /\ set_index[f] \in DOMAIN Sets[f] /\ m_have_lock[f]
         /\ todo[f] \in SUBSET Resources /\ todo[f] \subseteq Bound(Current(f)) /\ r \in todo[f]
         /\ BoundToAll(f, r) \in SUBSET Nat
         /\ \A d \in Finished : descriptor_sets[d] = Current(f) => d \in BoundToAll(f, r)
         /\ \A d \in BoundToAll(f, r), b \in DOMAIN Current(f) :
              Current(f)[b] \notin todo[f] \ {r} => HasHandle(d, Current(f), b)
<1> USE DEF Bindings
<1> DEFINE r == First(todo[f])
           s == Current(f)
<1>1. pc[f] = "search" /\ set_index[f] <= Len(Sets[f]) /\ (todo[f] # Bound(s) \/ m_have_lock[f])
  BY DEF Searching, NeedsLock, FirstOfSet
<1>2. set_index[f] \in DOMAIN Sets[f] /\ m_have_lock[f]
  <2>1. set_index[f] \in 1..Len(Sets[f]) /\ m_have_lock[f]
    BY <1>1, SearchingOwns
  <2> QED
    BY <2>1
<1>3. SearchOf(f) /\ todo[f] # {} /\ todo[f] \subseteq Bound(s)
  BY <1>1 DEF Searches, SearchOf
<1>4. todo[f] \in SUBSET Resources /\ r \in todo[f]
  <2>1. todo[f] \in SUBSET Resources
    BY DEF IInv, Types
  <2> QED
    BY <1>3, <2>1, FirstIn, ResourcesAreNumbers
<1>5. PICK c \in DOMAIN s : s[c] = r
  BY <1>3, <1>4 DEF Bound
<1>6. SetLayoutBinding(s, r) = <<Len(s), c>> /\ <<Len(s), c>> \in SetLayoutBindings /\ r \in Resources
      /\ \A b \in DOMAIN s : s[b] = r => b = c
  <2>1. \A b \in DOMAIN s : s[b] = r => b = c
    BY <1>2, <1>5 DEF Current
  <2> QED
    BY <1>2, <1>4, <1>5, <2>1, BindingOf DEF Current
<1> DEFINE found == handles[r][<<Len(s), c>>]
<1>7. BoundToAll(f, r) = IF FirstOfSet(f) THEN found ELSE matches[f] \cap found
  BY <1>6 DEF BoundToAll
<1>8. found \in SUBSET Nat
  <2> HIDE DEF r, s
  <2> DEFINE k == <<Len(s), c>>
  <2>1. r \in Resources /\ k \in SetLayoutBindings /\ handles \in [Resources -> [SetLayoutBindings -> SUBSET Nat]]
    BY <1>6 DEF SetTypes
  <2> HIDE DEF k
  <2>2. handles[r][k] \in SUBSET Nat
    BY <2>1
  <2> QED
    BY <2>2 DEF k
<1>9. \A d : d \in found <=> HasHandle(d, s, c)
  BY <1>5 DEF HasHandle
<1> HIDE DEF found
<1>10. BoundToAll(f, r) \in SUBSET Nat
  BY <1>7, <1>8
<1>11. ASSUME NEW d \in Finished, descriptor_sets[d] = s PROVE d \in BoundToAll(f, r)
  <2>1. HasHandle(d, s, c)
    BY <1>5, <1>11 DEF FinishedSets, FinishedSet
  <2>2. ~FirstOfSet(f) => d \in matches[f]
    BY <1>1, <1>3, <1>11 DEF SearchOf, FirstOfSet
  <2> QED
    BY <1>7, <1>9, <2>1, <2>2
<1>12. ASSUME NEW d \in BoundToAll(f, r), NEW b \in DOMAIN s, s[b] \notin todo[f] \ {r} PROVE HasHandle(d, s, b)
  <2>1. CASE b = c
    BY <1>7, <1>9, <1>12, <2>1
  <2>2. CASE b # c
    <3>1. s[b] \notin todo[f]
      BY <1>6, <1>12, <2>2
    <3>2. ~FirstOfSet(f)
      BY <3>1 DEF FirstOfSet, Bound
    <3> QED
      BY <1>1, <1>3, <1>7, <1>12, <3>1, <3>2 DEF SearchOf, FirstOfSet
  <2> QED
    BY <2>1, <2>2
<1> QED
  BY <1>1, <1>2, <1>3, <1>4, <1>10, <1>11, <1>12

(* The next set index starts with all its resources. *)
LEMMA NextSet ==
  ASSUME IInv, Bindings, NEW f \in Factories, NEW n \in Nat \ {0}, pc'[f] = "search", set_index'[f] = n,
         todo'[f] = UsesSet(f, n)
  PROVE  SearchOf(f)'
<1>1. Current(f)' = Sets[f][n]
  BY DEF Current
<1>2. n <= Len(Sets[f]) => todo'[f] = Bound(Sets[f][n]) /\ Bound(Sets[f][n]) # {}
  <2> SUFFICES ASSUME n <= Len(Sets[f]) PROVE todo'[f] = Bound(Sets[f][n]) /\ Bound(Sets[f][n]) # {}
    OBVIOUS
  <2>1. n \in 1..Len(Sets[f])
    OBVIOUS
  <2> QED
    BY <2>1, LockType, UsesSetType
<1> QED
  BY <1>1, <1>2 DEF SearchOf

LEMMA StartBindings ==
  ASSUME IInv, Bindings, NEW f \in Factories, initialize_shader_resources_per_set_index(f)
  PROVE  Bindings'
<1> USE DEF Bindings
<1>1. /\ UNCHANGED set_vars /\ pc[f] = "create" /\ pc' = [pc EXCEPT ![f] = "search"]
      /\ todo' = [todo EXCEPT ![f] = UsesSet(f, 1)]
  BY DEF initialize_shader_resources_per_set_index, AllAcquired, Goto
<1>2. /\ \A g \in Factories \ {f} : pc'[g] = pc[g] /\ todo'[g] = todo[g]
      /\ pc'[f] = "search" /\ todo'[f] = UsesSet(f, 1)
  BY <1>1 DEF IInv, Types
<1>3. OthersKeep(f)
  BY <1>1, <1>2 DEF OthersKeep, Others, set_vars
<1>4. set_index[f] = 1 /\ set_index'[f] = 1
  BY <1>1 DEF IInv, SetIndexes, IndexesOf, SetPhase, set_vars
<1>5. SetTypes'
  <2>1. SetTypes /\ UNCHANGED <<descriptor_sets, handles, matches, m_descriptor_set_per_set_index>>
    BY <1>1 DEF set_vars
  <2> QED
    BY <2>1 DEF SetTypes
<1>6. SearchOf(f)'
  BY <1>2, <1>4, NextSet
<1>7. FoundOf(f)'
  <2>1. \A i \in DOMAIN Sets[f] : ~(i < 1)
    BY SetOf
  <2> QED
    BY <1>2, <1>4, <2>1 DEF FoundOf
<1>8. UNCHANGED <<descriptor_sets, handles>> /\ missing'[f] \ missing[f] = {}
  BY <1>1 DEF set_vars
<1> QED
  BY <1>1, <1>2, <1>3, <1>5, <1>6, <1>7, <1>8, QuietStep

(* The steps that find nothing. *)
LEMMA WaitBindings ==
  ASSUME IInv, Bindings, NEW f \in Factories,
         lock_set_layout_binding(f) \/ obtained_set_layout_binding_lock(f) \/ searched(f)
  PROVE  Bindings'
<1> USE DEF Bindings
<1>1. UNCHANGED <<todo, set_index, matches, missing, descriptor_sets, handles, m_descriptor_set_per_set_index>>
  BY DEF lock_set_layout_binding, obtained_set_layout_binding_lock, searched, return_false, Obtained, set_vars
<1>2. SetStepped(f)
  BY LockStep, ObtainedStep, OtherSteps
<1>3. OthersKeep(f)
  BY <1>1, <1>2 DEF SetStepped, OthersKeep
<1>4. SetTypes'
  BY <1>1 DEF SetTypes
<1>5. /\ pc[f] \in {"search", "wait_set"} /\ pc'[f] \in {"search", "wait_set", "allocate", "done"}
      /\ pc'[f] \in {"search", "wait_set"} => set_index[f] <= Len(Sets[f]) /\ todo[f] = Bound(Current(f))
      /\ pc'[f] = "done" => set_index[f] > Len(Sets[f])
  <2>1. pc \in [Factories -> ShaderPhase \cup CreatePhase \cup SetPhase]
    BY DEF IInv, Types
  <2>2. CASE lock_set_layout_binding(f)
    <3>1. /\ pc[f] = "search" /\ set_index[f] <= Len(Sets[f]) /\ todo[f] = Bound(Current(f))
          /\ pc' = pc \/ pc' = [pc EXCEPT ![f] = IF missing[f] = {} THEN "wait_set" ELSE "allocate"]
      BY <2>2 DEF lock_set_layout_binding, return_false, Goto, Searching, NeedsLock, FirstOfSet
    <3> QED
      BY <2>1, <3>1
  <2>3. CASE obtained_set_layout_binding_lock(f)
    <3>1. pc[f] = "wait_set" /\ pc' = [pc EXCEPT ![f] = "search"]
      BY <2>3 DEF obtained_set_layout_binding_lock, Obtained, Goto
    <3>2. set_index[f] <= Len(Sets[f]) /\ todo[f] = Bound(Current(f))
      BY <3>1 DEF IInv, SetIndexes, IndexesOf, Searches, SearchOf
    <3> QED
      BY <2>1, <3>1, <3>2
  <2>4. CASE searched(f)
    <3>1. /\ pc[f] = "search" /\ set_index[f] > Len(Sets[f])
          /\ pc' = [pc EXCEPT ![f] = IF missing[f] = {} THEN "done" ELSE "allocate"]
      BY <2>4 DEF searched, Goto
    <3> QED
      BY <2>1, <3>1
  <2> QED
    BY <2>2, <2>3, <2>4
<1>6. SearchOf(f)'
  <2>1. Current(f)' = Current(f)
    BY <1>1 DEF Current
  <2>2. pc'[f] \in {"search", "wait_set"} => todo[f] # {}
    BY <1>5 DEF Searches, SearchOf
  <2> QED
    BY <1>1, <1>5, <2>1, <2>2 DEF SearchOf
<1>7. FoundOf(f)'
  <2>1. FoundOf(f)
    BY DEF Found
  <2> QED
    BY <1>1, <1>5, <2>1 DEF FoundOf, DescriptorSet, Existing
<1>8. missing'[f] \ missing[f] = {}
  BY <1>1
<1> QED
  BY <1>1, <1>3, <1>4, <1>5, <1>6, <1>7, <1>8, QuietStep

LEMMA MissingBindings ==
  ASSUME IInv, Bindings, NEW f \in Factories, set_is_missing(f)
  PROVE  Bindings'
<1> USE DEF Bindings
<1> DEFINE i == set_index[f]
           n == i + 1
<1>1. /\ Searching(f) /\ ~NeedsLock(f) /\ BoundToAll(f, First(todo[f])) = {}
      /\ missing' = [missing EXCEPT ![f] = missing[f] \cup {i}]
      /\ set_index' = [set_index EXCEPT ![f] = n] /\ todo' = [todo EXCEPT ![f] = UsesSet(f, n)]
      /\ matches' = [matches EXCEPT ![f] = {}]
      /\ UNCHANGED <<pc, descriptor_sets, handles, m_descriptor_set_per_set_index>>
  BY DEF set_is_missing, SearchNext
<1>2. pc[f] = "search" /\ i \in DOMAIN Sets[f] /\ \A d \in Finished : descriptor_sets[d] # Current(f)
  BY <1>1, SearchingAt
<1>3. i \in Nat \ {0} /\ n \in Nat \ {0} /\ n > i
  BY <1>2, SetOf
<1>4. SetStepped(f)
  BY MissingStep
<1>5. matches \in [Factories -> SUBSET Nat]
  BY DEF SetTypes
<1>6. OthersKeep(f)
  BY <1>1, <1>4, <1>5 DEF SetStepped, OthersKeep
<1>7. missing'[f] = missing[f] \cup {i} /\ set_index'[f] = n /\ todo'[f] = UsesSet(f, n)
  BY <1>1 DEF IInv, Types
<1>8. SetTypes'
  <2>1. matches' \in [Factories -> SUBSET Nat]
    BY <1>1, <1>5
  <2> QED
    BY <1>1, <2>1 DEF SetTypes
<1>9. SearchOf(f)'
  <2> HIDE DEF n
  <2> QED
    BY <1>1, <1>2, <1>3, <1>7, NextSet
<1>10. FoundOf(f)'
  <2>1. \A j \in DOMAIN Sets[f] : j < n /\ j \notin missing'[f] => j < i /\ j \notin missing[f]
    BY <1>3, <1>7, SetOf
  <2>2. FoundOf(f)
    BY DEF Found
  <2> QED
    BY <1>1, <1>2, <1>7, <2>1, <2>2 DEF FoundOf, DescriptorSet, Existing
<1>11. \A j \in missing'[f] \ missing[f] : \A d \in Finished : descriptor_sets[d] # Sets[f][j]
  BY <1>2, <1>7 DEF Current
<1> QED
  BY <1>1, <1>2, <1>6, <1>8, <1>9, <1>10, <1>11, QuietStep

LEMMA StillBindings ==
  ASSUME IInv, Bindings, NEW f \in Factories, still_have_match(f)
  PROVE  Bindings'
<1> USE DEF Bindings
<1> DEFINE r == First(todo[f])
           m == BoundToAll(f, r)
<1>1. /\ Searching(f) /\ ~NeedsLock(f) /\ todo[f] # {r} /\ matches' = [matches EXCEPT ![f] = m]
      /\ todo' = [todo EXCEPT ![f] = todo[f] \ {r}]
      /\ UNCHANGED <<pc, set_index, missing, descriptor_sets, handles, m_descriptor_set_per_set_index>>
  BY DEF still_have_match
<1>2. /\ pc[f] = "search" /\ set_index[f] \in DOMAIN Sets[f]
      /\ todo[f] \subseteq Bound(Current(f)) /\ r \in todo[f] /\ m \in SUBSET Nat
      /\ \A d \in Finished : descriptor_sets[d] = Current(f) => d \in m
      /\ \A d \in m, b \in DOMAIN Current(f) : Current(f)[b] \notin todo[f] \ {r} => HasHandle(d, Current(f), b)
  BY <1>1, SearchingAt
<1> HIDE DEF r, m
<1>3. SetStepped(f)
  BY OtherSteps
<1>4. matches \in [Factories -> SUBSET Nat]
  BY DEF SetTypes
<1>5. OthersKeep(f)
  BY <1>1, <1>3, <1>4 DEF SetStepped, OthersKeep
<1>6. todo'[f] = todo[f] \ {r} /\ matches'[f] = m
  BY <1>1, <1>4 DEF IInv, Types
<1>7. SetTypes'
  <2>1. matches' \in [Factories -> SUBSET Nat]
    BY <1>1, <1>2, <1>4
  <2> QED
    BY <1>1, <2>1 DEF SetTypes
<1>8. Finished' = Finished => SearchOf(f)'
  <2>1. Current(f)' = Current(f)
    BY <1>1 DEF Current
  <2>2. todo'[f] # {} /\ todo'[f] \subseteq Bound(Current(f))
    BY <1>1, <1>2, <1>6
  <2>3. \A d \in m, b \in DOMAIN Current(f) :
          Current(f)[b] \notin todo'[f] => d \in handles'[Current(f)[b]][<<Len(Current(f)), b>>]
    BY <1>1, <1>2, <1>6 DEF HasHandle
  <2> QED
    BY <1>1, <1>2, <1>6, <2>1, <2>2, <2>3 DEF SearchOf, HasHandle
<1>9. FoundOf(f)'
  <2>1. FoundOf(f)
    BY DEF Found
  <2> QED
    BY <1>1, <2>1 DEF FoundOf, DescriptorSet, Existing
<1>10. missing'[f] \ missing[f] = {}
  BY <1>1
<1> QED
  BY <1>1, <1>2, <1>5, <1>7, <1>8, <1>9, <1>10, QuietStep

(* The descriptor set that is found is one that binds the resources of the set index. *)
LEMMA MatchBindings ==
  ASSUME IInv, Bindings, NEW f \in Factories, have_match(f)
  PROVE  Bindings'
<1> USE DEF Bindings
<1> DEFINE i == set_index[f]
           n == i + 1
           r == First(todo[f])
           M == m_descriptor_set_per_set_index
<1>1. PICK d \in BoundToAll(f, r) : M' = [M EXCEPT ![f][i] = d]
  BY DEF have_match
<1>2. /\ Searching(f) /\ ~NeedsLock(f) /\ todo[f] = {r}
      /\ set_index' = [set_index EXCEPT ![f] = n] /\ todo' = [todo EXCEPT ![f] = UsesSet(f, n)]
      /\ matches' = [matches EXCEPT ![f] = {}]
      /\ UNCHANGED <<pc, missing, descriptor_sets, handles>>
  BY DEF have_match, SearchNext
<1>3. /\ pc[f] = "search" /\ i \in DOMAIN Sets[f] /\ d \in Nat
      /\ \A b \in DOMAIN Current(f) : HasHandle(d, Current(f), b)
  BY <1>1, <1>2, SearchingAt
<1>4. d \in Finished /\ d \in Existing /\ descriptor_sets[d] = Sets[f][i]
  <2>1. \A b \in DOMAIN Sets[f][i] : HasHandle(d, Sets[f][i], b)
    BY <1>3 DEF Current
  <2> HIDE DEF i, r, M
  <2>2. d \in Finished /\ descriptor_sets[d] = Sets[f][i]
    BY <1>3, <2>1, FoundByAll
  <2> QED
    BY <2>2 DEF Finished
<1> HIDE DEF r
<1>5. i \in Nat \ {0} /\ n \in Nat \ {0} /\ n > i
  BY <1>3, SetOf
<1>6. SetStepped(f)
  BY MatchStep
<1>7. /\ matches \in [Factories -> SUBSET Nat] /\ M = [g \in Factories |-> M[g]]
      /\ \A g \in Factories : M[g] \in [DOMAIN Sets[g] -> Nat]
  BY DEF SetTypes
<1>8. /\ M' = [g \in Factories |-> M'[g]] /\ M'[f] = [M[f] EXCEPT ![i] = d]
      /\ \A g \in Factories \ {f} : M'[g] = M[g]
  BY <1>1, <1>7
<1>9. OthersKeep(f)
  BY <1>2, <1>6, <1>7, <1>8 DEF SetStepped, OthersKeep
<1>10. set_index'[f] = n /\ todo'[f] = UsesSet(f, n)
  BY <1>2 DEF IInv, Types
<1>11. SetTypes'
  <2>1. matches' \in [Factories -> SUBSET Nat]
    BY <1>2, <1>7
  <2>2. \A g \in Factories : M'[g] \in [DOMAIN Sets[g] -> Nat]
    <3>1. M[f] \in [DOMAIN Sets[f] -> Nat] /\ M'[f] \in [DOMAIN Sets[f] -> Nat]
      BY <1>3, <1>7, <1>8
    <3> QED
      BY <1>7, <1>8, <3>1
  <2> HIDE DEF n
  <2> QED
    BY <1>2, <1>8, <2>1, <2>2 DEF SetTypes
<1>12. SearchOf(f)'
  <2> HIDE DEF n
  <2> QED
    BY <1>2, <1>3, <1>5, <1>10, NextSet
<1>13. FoundOf(f)'
  <2>1. ASSUME NEW j \in DOMAIN Sets[f], j < n, j \notin missing[f]
        PROVE  M'[f][j] \in Existing /\ descriptor_sets[M'[f][j]] = Sets[f][j]
    <3>1. CASE j = i
      <4>1. M'[f][j] = d
        BY <1>3, <1>7, <1>8, <3>1
      <4> QED
        BY <1>4, <3>1, <4>1
    <3>2. CASE j # i
      <4>1. M'[f][j] = M[f][j]
        BY <1>3, <1>7, <1>8, <2>1, <3>2
      <4>2. j < i
        BY <1>3, <1>5, <2>1, <3>2, SetOf
      <4> QED
        BY <2>1, <4>1, <4>2 DEF Found, FoundOf, DescriptorSet
    <3> QED
      BY <3>1, <3>2
  <2>2. pc'[f] # "done"
    BY <1>2, <1>3
  <2> HIDE DEF n, i
  <2> QED
    BY <1>2, <1>10, <2>1, <2>2 DEF FoundOf, DescriptorSet, Existing
<1>14. missing'[f] \ missing[f] = {}
  BY <1>2
<1> HIDE DEF n
<1> QED
  BY <1>2, <1>3, <1>9, <1>11, <1>12, <1>13, <1>14, QuietStep

--------------------------------------------------------------------------------

(* The members of a set of numbers that are not larger than one of them number them all. *)
Rank(S, i) == Cardinality({j \in S : j <= i})

LEMMA RankProperties ==
  ASSUME NEW S \in SUBSET Nat, IsFiniteSet(S)
  PROVE  /\ Cardinality(S) \in Nat
         /\ \A i \in S : Rank(S, i) \in 1..Cardinality(S)
         /\ \A i, j \in S : Rank(S, i) = Rank(S, j) => i = j
         /\ \A n \in 1..Cardinality(S) : \E i \in S : Rank(S, i) = n
<1> DEFINE Low(i) == {j \in S : j <= i}
           c == Cardinality(S)
           rank == [i \in S |-> Rank(S, i)]
<1>1. c \in Nat
  BY FS_CardinalityType
<1>2. ASSUME NEW i \in S PROVE Low(i) \in SUBSET S /\ IsFiniteSet(Low(i)) /\ Rank(S, i) \in 1..c
  <2>1. IsFiniteSet(Low(i)) /\ Cardinality(Low(i)) <= c /\ Cardinality(Low(i)) \in Nat
    BY FS_Subset, FS_CardinalityType
  <2>2. i \in Low(i)
    OBVIOUS
  <2>3. Cardinality(Low(i)) # 0
    BY <2>1, <2>2, FS_EmptySet
  <2> QED
    BY <1>1, <2>1, <2>3 DEF Rank
<1>3. ASSUME NEW i \in S, NEW j \in S, Rank(S, i) = Rank(S, j), i < j PROVE FALSE
  <2>1. Low(i) \in SUBSET Low(j) /\ j \in Low(j) /\ j \notin Low(i)
    BY <1>3
  <2>2. Cardinality(Low(j)) = Cardinality(Low(i)) /\ IsFiniteSet(Low(j))
    BY <1>2, <1>3 DEF Rank
  <2> HIDE DEF Low
  <2> QED
    BY <2>1, <2>2, FS_Subset
<1>4. \A i, j \in S : Rank(S, i) = Rank(S, j) => i = j
  BY <1>3
<1>5. rank \in Injection(S, 1..c)
  <2>1. /\ \A i \in S : Rank(S, i) \in 1..c
        /\ rank \in [S -> 1..c] /\ \A i \in S : rank[i] = Rank(S, i)
    BY <1>2
  <2>2. \A i, j \in S : rank[i] = rank[j] => i = j
    BY <1>4, <2>1
  <2> HIDE DEF rank
  <2> QED
    BY <2>1, <2>2 DEF Injection, IsInjective
<1>6. IsFiniteSet(1..c) /\ Cardinality(1..c) = c
  BY <1>1, FS_Interval
<1>7. rank \in Surjection(S, 1..c)
  <2> HIDE DEF rank, c
  <2>1. c = Cardinality(1..c) /\ Cardinality(S) = c
    BY <1>6 DEF c
  <2> QED
    BY <1>5, <1>6, <2>1, FS_Injection
<1>8. \A n \in 1..c : \E i \in S : Rank(S, i) = n
  BY <1>7 DEF Surjection
<1> QED
  BY <1>1, <1>2, <1>4, <1>8

(* New descriptor sets are allocated for all missing set indexes, behind those that exist. *)
Allocated(f) ==
  /\ descriptor_sets' \in Seq(Seq(Nat)) /\ Len(descriptor_sets') >= Len(descriptor_sets)
  /\ \A d \in Existing : descriptor_sets'[d] = descriptor_sets[d]
  /\ m_descriptor_set_per_set_index' = [g \in Factories |-> m_descriptor_set_per_set_index'[g]]
  /\ m_descriptor_set_per_set_index'[f] \in [DOMAIN Sets[f] -> Nat]
  /\ \A g \in Factories \ {f} : m_descriptor_set_per_set_index'[g] = m_descriptor_set_per_set_index[g]
  /\ \A i \in DOMAIN Sets[f] \ missing[f] : m_descriptor_set_per_set_index'[f][i] = m_descriptor_set_per_set_index[f][i]
  /\ \A i \in missing[f] : LET d == m_descriptor_set_per_set_index'[f][i] IN
       d \in Existing' \ Existing /\ descriptor_sets'[d] = [b \in DOMAIN Sets[f][i] |-> 0]
  /\ \A i, j \in missing[f] :
       m_descriptor_set_per_set_index'[f][i] = m_descriptor_set_per_set_index'[f][j] => i = j
  /\ \A d \in Existing' \ Existing : \E i \in missing[f] : m_descriptor_set_per_set_index'[f][i] = d

LEMMA Allocation ==
  ASSUME IInv, SetTypes, NEW f \in Factories, allocate_descriptor_sets(f)
  PROVE  Allocated(f)
<1> DEFINE D == descriptor_sets
           M == m_descriptor_set_per_set_index
           S == missing[f]
           n0 == Len(D)
           c == Cardinality(S)
           new(i) == n0 + Rank(S, i)
           owner(d) == CHOOSE i \in S : new(i) = d
           zeros(i) == [b \in DOMAIN Sets[f][i] |-> 0]
           E == [n \in 1..c |-> zeros(owner(n0 + n))]
<1>1. D' = D \o E /\ M' = [M EXCEPT ![f] = [i \in DOMAIN M[f] |-> IF i \in S THEN new(i) ELSE M[f][i]]]
  BY DEF allocate_descriptor_sets, Rank
<1>2. S \in SUBSET Nat /\ S \in SUBSET DOMAIN Sets[f] /\ IsFiniteSet(S)
  <2>1. pc[f] = "allocate"
    BY DEF allocate_descriptor_sets
  <2>2. S \in SUBSET Nat /\ \A i \in S : i \in 1..Len(Sets[f])
    BY <2>1, UpdatedIn, OwnsType DEF IInv, Types
  <2>3. IsFiniteSet(1..Len(Sets[f])) /\ DOMAIN Sets[f] = 1..Len(Sets[f])
    BY FS_Interval
  <2> HIDE DEF S
  <2> QED
    BY <2>2, <2>3, FS_Subset
<1>3. /\ c \in Nat
      /\ \A i \in S : Rank(S, i) \in 1..c
      /\ \A i, j \in S : Rank(S, i) = Rank(S, j) => i = j
      /\ \A n \in 1..c : \E i \in S : Rank(S, i) = n
  <2> HIDE DEF S
  <2> QED
    BY <1>2, RankProperties
<1>4. D \in Seq(Seq(Nat)) /\ n0 \in Nat
  BY DEF SetTypes
<1>5. \A i, j \in S : new(i) = new(j) => i = j
  <2> HIDE DEF S, c, n0
  <2> QED
    BY <1>3, <1>4
<1>6. \A i \in S : owner(new(i)) = i
  <2> HIDE DEF new, S
  <2> QED
    BY <1>5
<1>7. \A i \in DOMAIN Sets[f] : zeros(i) \in Seq(Nat)
  <2> SUFFICES ASSUME NEW i \in DOMAIN Sets[f] PROVE zeros(i) \in Seq(Nat)
    OBVIOUS
  <2>1. DOMAIN Sets[f][i] = 1..Len(Sets[f][i]) /\ Len(Sets[f][i]) \in Nat
    BY SetOf
  <2>2. zeros(i) \in [1..Len(Sets[f][i]) -> Nat]
    BY <2>1
  <2> QED
    BY <2>1, <2>2, SeqDef
<1> HIDE DEF zeros, new
<1>8. ASSUME NEW n \in 1..c PROVE \E i \in S : Rank(S, i) = n /\ new(i) = n0 + n /\ E[n] = zeros(i)
  <2>1. PICK i \in S : Rank(S, i) = n
    BY <1>3
  <2>2. new(i) = n0 + n
    BY <2>1 DEF new
  <2>3. owner(n0 + n) = i
    BY <1>6, <2>2
  <2> QED
    BY <2>1, <2>2, <2>3
<1> HIDE DEF owner
<1>9. E \in Seq(Seq(Nat)) /\ Len(E) = c
  <2>1. \A n \in 1..c : E[n] \in Seq(Nat)
    BY <1>2, <1>7, <1>8
  <2> HIDE DEF c
  <2>2. E \in [1..c -> Seq(Nat)]
    BY <2>1
  <2> HIDE DEF E
  <2> QED
    BY <1>3, <2>2, SeqDef
<1> HIDE DEF E, c, S, n0
<1>10. D' \in Seq(Seq(Nat)) /\ Len(D') = n0 + c /\ \A d \in 1..(n0 + c) : D'[d] = IF d <= n0 THEN D[d] ELSE E[d - n0]
  <2> USE DEF n0
  <2> HIDE DEF D
  <2>1. D \o E \in Seq(Seq(Nat)) /\ Len(D \o E) = n0 + c
        /\ \A d \in 1..(n0 + c) : (D \o E)[d] = IF d <= n0 THEN D[d] ELSE E[d - n0]
    BY <1>4, <1>9, ConcatProperties
  <2> QED
    BY <1>1, <2>1
<1>11. Existing = 1..n0 /\ Existing' = 1..(n0 + c)
  BY <1>10 DEF Existing, n0
<1>12. \A d \in Existing : D'[d] = D[d]
  BY <1>3, <1>4, <1>10, <1>11
<1>13. ASSUME NEW i \in S PROVE new(i) \in Existing' \ Existing /\ D'[new(i)] = zeros(i) /\ new(i) \in Nat
  <2> DEFINE n == Rank(S, i)
  <2>1. n \in 1..c
    BY <1>3
  <2>2. PICK j \in S : Rank(S, j) = n /\ E[n] = zeros(j)
    BY <1>8, <2>1
  <2>3. j = i
    BY <1>3, <2>2
  <2> HIDE DEF n
  <2>4. new(i) = n0 + n
    BY DEF new, n
  <2>5. n0 + n \in 1..(n0 + c) /\ ~(n0 + n <= n0) /\ (n0 + n) - n0 = n /\ n0 + n \in Nat
    BY <1>3, <1>4, <2>1
  <2> QED
    BY <1>10, <1>11, <2>2, <2>3, <2>4, <2>5
<1>14. \A d \in Existing' \ Existing : \E i \in S : new(i) = d
  <2> SUFFICES ASSUME NEW d \in Existing' \ Existing PROVE \E i \in S : new(i) = d
    OBVIOUS
  <2>1. d - n0 \in 1..c /\ n0 + (d - n0) = d
    BY <1>3, <1>4, <1>11
  <2> QED
    BY <1>8, <2>1
<1>15. /\ M = [g \in Factories |-> M[g]] /\ M[f] \in [DOMAIN Sets[f] -> Nat]
  BY DEF SetTypes
<1>16. /\ M' = [g \in Factories |-> M'[g]]
       /\ M'[f] = [i \in DOMAIN M[f] |-> IF i \in S THEN new(i) ELSE M[f][i]]
       /\ \A g \in Factories \ {f} : M'[g] = M[g]
  BY <1>1, <1>15
<1>17. M'[f] \in [DOMAIN Sets[f] -> Nat] /\ \A i \in DOMAIN Sets[f] : M'[f][i] = IF i \in S THEN new(i) ELSE M[f][i]
  BY <1>13, <1>15, <1>16
<1>18. \A i \in S : M'[f][i] = new(i)
  BY <1>2, <1>17
<1>19. Len(D') >= Len(D)
  BY <1>3, <1>4, <1>10 DEF n0
<1>20. \A i \in S : M'[f][i] \in Existing' \ Existing /\ D'[M'[f][i]] = [b \in DOMAIN Sets[f][i] |-> 0]
  BY <1>13, <1>18 DEF zeros
<1>21. \A i \in DOMAIN Sets[f] \ S : M'[f][i] = M[f][i]
  BY <1>17
<1>22. \A i, j \in S : M'[f][i] = M'[f][j] => i = j
  BY <1>5, <1>18
<1>23. \A d \in Existing' \ Existing : \E i \in S : M'[f][i] = d
  BY <1>14, <1>18
<1> QED
  BY <1>10, <1>12, <1>16, <1>17, <1>19, <1>20, <1>21, <1>22, <1>23 DEF Allocated, S

LEMMA AllocateBindings ==
  ASSUME IInv, Bindings, NEW f \in Factories, allocate_descriptor_sets(f)
  PROVE  Bindings'
<1> USE DEF Bindings
<1> DEFINE D == descriptor_sets
           M == m_descriptor_set_per_set_index
           S == missing[f]
<1>1. /\ pc[f] = "allocate" /\ pc' = [pc EXCEPT ![f] = "update"]
      /\ todo' = [todo EXCEPT ![f] = Bound(Sets[f][Updated(f)])]
      /\ UNCHANGED <<set_index, missing, matches, handles>>
  BY DEF allocate_descriptor_sets, Goto, Updated
<1>2. Allocated(f)
  BY Allocation
<1>3. SetStepped(f)
  BY OtherSteps
<1>4. OthersKeep(f)
  BY <1>1, <1>2, <1>3 DEF SetStepped, OthersKeep, Allocated
<1>5. pc'[f] = "update" /\ todo'[f] = Bound(Sets[f][Updated(f)]) /\ Updated(f)' = Updated(f)
  BY <1>1 DEF IInv, Types, Updated
<1>6. \A i \in S : i \in DOMAIN Sets[f]
  <2>1. \A i \in S : i \in 1..Len(Sets[f])
    BY <1>1, UpdatedIn, OwnsType
  <2> QED
    BY <2>1
<1>7. Pending(f) = {} /\ Pending(f)' = S /\ \A g \in Factories \ {f} : Pending(g)' = Pending(g)
  BY <1>1, <1>4, <1>5 DEF Pending, OthersKeep, Others
<1>8. \A g \in Factories \ {f} : \A i : DescriptorSet(g, i)' = DescriptorSet(g, i)
  BY <1>4 DEF OthersKeep, DescriptorSet
<1>9. \A i \in S : /\ DescriptorSet(f, i)' \in Existing' \ Existing
                   /\ D'[DescriptorSet(f, i)'] = [b \in DOMAIN Sets[f][i] |-> 0]
                   /\ \A j \in S : DescriptorSet(f, j)' = DescriptorSet(f, i)' => j = i
  BY <1>2 DEF Allocated, DescriptorSet
<1>10. \A d \in Existing : d \in Existing' /\ D'[d] = D[d]
  BY <1>2 DEF Allocated, Existing, SetTypes
<1>11. Grows
  BY <1>1, <1>10 DEF Grows
<1>12. Finished' = Finished
  <2>1. ASSUME NEW d \in Existing PROVE IsNew(d)' <=> IsNew(d)
    <3>1. \A i \in S : DescriptorSet(f, i)' # d
      BY <1>9
    <3> QED
      BY <1>7, <1>8, <3>1 DEF IsNew
  <2>2. ASSUME NEW d \in Existing' \ Existing PROVE IsNew(d)'
    <3>1. PICK i \in S : DescriptorSet(f, i)' = d
      BY <1>2 DEF Allocated, DescriptorSet
    <3> QED
      BY <1>7, <3>1 DEF IsNew
  <2> QED
    BY <1>10, <2>1, <2>2 DEF Finished
<1>13. SetTypes'
  <2>1. \A g \in Factories : M'[g] \in [DOMAIN Sets[g] -> Nat]
    BY <1>2 DEF Allocated, SetTypes
  <2> QED
    BY <1>1, <1>2, <2>1 DEF SetTypes, Allocated
<1>14. HandlesRight'
  <2> SUFFICES ASSUME NEW r \in Resources, NEW k \in SetLayoutBindings, NEW d \in handles'[r][k]
               PROVE  d \in Existing' /\ Len(D'[d]) = k[1] /\ D'[d][k[2]] = r
    BY DEF HandlesRight
  <2>1. d \in Existing /\ Len(D[d]) = k[1] /\ D[d][k[2]] = r
    BY <1>1 DEF HandlesRight
  <2>2. d \in Existing' /\ D'[d] = D[d]
    BY <1>10, <2>1
  <2> HIDE DEF D, Bindings
  <2> QED
    BY <2>1, <2>2
<1>15. ASSUME NEW g \in Factories \ {f}, NEW i \in Pending(g) PROVE NewSet(g, i)'
  <2>1. NewSet(g, i)
    BY DEF NewSets
  <2>2. pc'[g] = pc[g] /\ todo'[g] = todo[g] /\ missing'[g] = missing[g]
    BY <1>4 DEF OthersKeep, Others
  <2>3. Added(g, i)' = Added(g, i)
    BY <2>2 DEF Added, Updated
  <2>4. Contents(g, i)' = Contents(g, i)
    BY <2>2, <2>3 DEF Contents, Written, Updated, NextUpdated
  <2>5. DescriptorSet(g, i)' = DescriptorSet(g, i) /\ DescriptorSet(g, i) \in Existing
    BY <1>8, <2>1 DEF NewSet
  <2>6. \A h \in Factories : \A j \in Pending(h)' : DescriptorSet(h, j)' = DescriptorSet(g, i)' => h = g /\ j = i
    <3> SUFFICES ASSUME NEW h \in Factories, NEW j \in Pending(h)', DescriptorSet(h, j)' = DescriptorSet(g, i)
                 PROVE  h = g /\ j = i
      BY <2>5
    <3>1. h # f
      <4> SUFFICES ASSUME h = f PROVE FALSE
        OBVIOUS
      <4>1. j \in S /\ DescriptorSet(f, j)' = DescriptorSet(g, i)
        BY <1>7
      <4>2. DescriptorSet(f, j)' \notin Existing
        BY <1>9, <4>1
      <4> QED
        BY <2>5, <4>1, <4>2
    <3> QED
      BY <1>7, <1>8, <2>1, <3>1 DEF NewSet
  <2>7. \A b : HasHandle(DescriptorSet(g, i), Sets[g][i], b)' <=> HasHandle(DescriptorSet(g, i), Sets[g][i], b)
    BY <1>1, <1>8 DEF HasHandle
  <2> QED
    BY <1>10, <2>1, <2>3, <2>4, <2>5, <2>6, <2>7 DEF NewSet
<1>16. ASSUME NEW i \in S PROVE NewSet(f, i)'
  <2> DEFINE d == DescriptorSet(f, i)'
  <2>1. d \in Existing' /\ d \notin Existing /\ D'[d] = [b \in DOMAIN Sets[f][i] |-> 0]
    BY <1>9
  <2>2. Added(f, i)' = {}
    BY <1>5 DEF Added, Bound
  <2>3. Written(f, i)' = {}
    BY <1>5, <2>2 DEF Written
  <2>4. Contents(f, i)' = [b \in DOMAIN Sets[f][i] |-> 0]
    BY <2>3 DEF Contents
  <2>5. \A b \in DOMAIN Sets[f][i] : ~HasHandle(DescriptorSet(f, i), Sets[f][i], b)'
    <3> SUFFICES ASSUME NEW b \in DOMAIN Sets[f][i], d \in handles[Sets[f][i][b]][<<Len(Sets[f][i]), b>>]
                 PROVE  FALSE
      BY <1>1 DEF HasHandle
    <3>1. Sets[f][i][b] \in Resources /\ <<Len(Sets[f][i]), b>> \in SetLayoutBindings
      BY <1>6, SetOf, BindingOf
    <3> HIDE DEF d
    <3>2. d \in Existing
      BY <3>1 DEF HandlesRight
    <3> QED
      BY <2>1, <3>2
  <2>6. \A h \in Factories : \A j \in Pending(h)' : DescriptorSet(h, j)' = d => h = f /\ j = i
    <3> SUFFICES ASSUME NEW h \in Factories, NEW j \in Pending(h)', DescriptorSet(h, j)' = d PROVE h = f /\ j = i
      OBVIOUS
    <3>1. CASE h # f
      <4>1. j \in Pending(h) /\ DescriptorSet(h, j)' = DescriptorSet(h, j)
        BY <1>7, <1>8, <3>1
      <4>2. DescriptorSet(h, j) \in Existing
        BY <4>1 DEF NewSets, NewSet
      <4> QED
        BY <2>1, <4>1, <4>2
    <3>2. CASE h = f
      BY <1>7, <1>9, <3>2
    <3> QED
      BY <3>1, <3>2
  <2> QED
    BY <2>1, <2>2, <2>4, <2>5, <2>6 DEF NewSet
<1>17. NewSets'
  BY <1>7, <1>15, <1>16 DEF NewSets
<1>18. FinishedSets'
  <2> SUFFICES ASSUME NEW d \in Finished PROVE FinishedSet(d)'
    BY <1>12 DEF FinishedSets
  <2>1. FinishedSet(d) /\ \A e \in Finished : D'[e] = D[e]
    BY <1>10 DEF FinishedSets, Finished
  <2>2. missing' = missing /\ handles' = handles
    BY <1>1
  <2> QED
    BY <1>12, <2>1, <2>2 DEF FinishedSet, HasHandle
<1>19. ASSUME NEW g \in Factories \ {f} PROVE SearchOf(g)' /\ FoundOf(g)'
  <2>1. \A d \in Finished : D'[d] = D[d]
    BY <1>10 DEF Finished
  <2> QED
    BY <1>4, <1>11, <1>12, <2>1, OthersSearch
<1>20. SearchOf(f)'
  BY <1>5 DEF SearchOf
<1>21. FoundOf(f)'
  <2>1. FoundOf(f) /\ missing' = missing /\ set_index' = set_index
    BY <1>1 DEF Found
  <2>2. \A i \in DOMAIN Sets[f] : i \notin missing[f] => DescriptorSet(f, i)' = DescriptorSet(f, i)
    BY <1>2 DEF Allocated, DescriptorSet
  <2> QED
    BY <1>5, <1>10, <2>1, <2>2 DEF FoundOf
<1> QED
  BY <1>13, <1>14, <1>17, <1>18, <1>19, <1>20, <1>21 DEF Searches, Found

(* A binding is one of its layout. *)
LEMMA BindingType ==
  ASSUME NEW k \in SetLayoutBindings
  PROVE  k[1] \in Nat /\ k[2] \in 1..k[1]
<1> DEFINE OfSet(g, j) == {SetLayoutBinding(Sets[g][j], q) : q \in Bound(Sets[g][j])}
           OfFactory(g) == UNION {OfSet(g, j) : j \in DOMAIN Sets[g]}
<1>1. SetLayoutBindings = UNION {OfFactory(g) : g \in Factories}
  BY DEF SetLayoutBindings
<1>2. PICK g \in Factories : k \in OfFactory(g)
  <2> HIDE DEF OfFactory
  <2> QED
    BY <1>1
<1>3. PICK j \in DOMAIN Sets[g] : k \in OfSet(g, j)
  <2> HIDE DEF OfSet
  <2> QED
    BY <1>2
<1>4. PICK q \in Bound(Sets[g][j]) : k = SetLayoutBinding(Sets[g][j], q)
  BY <1>3
<1>5. PICK b \in DOMAIN Sets[g][j] : q = Sets[g][j][b]
  BY <1>4 DEF Bound
<1>6. k = <<Len(Sets[g][j]), b>>
  BY <1>4, <1>5, BindingOf
<1> QED
  BY <1>6, SetOf

(* The resource that is next, for the first missing set index. *)
LEMMA UpdatedNext ==
  ASSUME IInv, NEW f \in Factories, pc[f] \in {"update", "add"}
  PROVE  /\ Updated(f) \in Pending(f) /\ Updated(f) \in DOMAIN Sets[f]
         /\ NextUpdated(f) \in todo[f] /\ \A q \in todo[f] : q <= NextUpdated(f)
         /\ \E c \in DOMAIN Sets[f][Updated(f)] :
              /\ Sets[f][Updated(f)][c] = NextUpdated(f)
              /\ SetLayoutBinding(Sets[f][Updated(f)], NextUpdated(f)) = <<Len(Sets[f][Updated(f)]), c>>
              /\ <<Len(Sets[f][Updated(f)]), c>> \in SetLayoutBindings
              /\ \A b \in DOMAIN Sets[f][Updated(f)] : Sets[f][Updated(f)][b] = NextUpdated(f) => b = c
<1>1. Updated(f) \in Pending(f) /\ Updated(f) \in DOMAIN Sets[f]
  <2>1. Updated(f) \in missing[f]
    BY UpdatedIn
  <2> QED
    BY <2>1, PendingIn DEF Pending
<1>2. /\ First(Bound(Sets[f][Updated(f)])) \in todo[f] /\ todo[f] \subseteq Bound(Sets[f][Updated(f)])
      /\ todo[f] \in SUBSET Resources
  BY DEF IInv, SetIndexes, IndexesOf, Types
<1>3. NextUpdated(f) \in todo[f] /\ \A q \in todo[f] : q <= NextUpdated(f)
  <2>1. todo[f] # {}
    BY <1>2
  <2>2. Last(todo[f]) \in todo[f] /\ \A q \in todo[f] : Last(todo[f]) >= q
    BY <1>2, <2>1, LastIn
  <2>3. todo[f] \in SUBSET Nat
    BY <1>2, ResourcesAreNumbers
  <2> QED
    BY <2>2, <2>3 DEF NextUpdated
<1>4. PICK c \in DOMAIN Sets[f][Updated(f)] : Sets[f][Updated(f)][c] = NextUpdated(f)
  BY <1>2, <1>3 DEF Bound
<1>5. /\ SetLayoutBinding(Sets[f][Updated(f)], NextUpdated(f)) = <<Len(Sets[f][Updated(f)]), c>>
      /\ <<Len(Sets[f][Updated(f)]), c>> \in SetLayoutBindings
  BY <1>1, <1>4, BindingOf
<1>6. \A b \in DOMAIN Sets[f][Updated(f)] : Sets[f][Updated(f)][b] = NextUpdated(f) => b = c
  BY <1>1, <1>4
<1> QED
  BY <1>1, <1>3, <1>4, <1>5, <1>6

(* The resource is written into the descriptor set, before it is found by it. *)
LEMMA UpdateBindings ==
  ASSUME IInv, Bindings, NEW f \in Factories, update_descriptor_set(f)
  PROVE  Bindings'
<1> USE DEF Bindings
<1>0. PICK i, d, r : i = Updated(f) /\ d = DescriptorSet(f, i) /\ r = NextUpdated(f)
  OBVIOUS
<1> USE <1>0
<1> DEFINE D == descriptor_sets
           s == Sets[f][i]
<1>1. /\ pc[f] = "update" /\ pc' = [pc EXCEPT ![f] = "add"]
      /\ D' = [D EXCEPT ![d][SetLayoutBinding(s, r)[2]] = r]
      /\ UNCHANGED <<todo, set_index, missing, m_have_lock, matches, handles, m_descriptor_set_per_set_index>>
  BY DEF update_descriptor_set, Goto, DescriptorSet
<1>2. i \in Pending(f) /\ i \in DOMAIN Sets[f] /\ r \in todo[f]
  BY <1>1, UpdatedNext
<1>3. PICK c \in DOMAIN s : /\ s[c] = r /\ SetLayoutBinding(s, r) = <<Len(s), c>>
                            /\ \A b \in DOMAIN s : s[b] = r => b = c
  <2>1. pc[f] \in {"update", "add"}
    BY <1>1
  <2>2. PICK c \in DOMAIN Sets[f][Updated(f)] :
          /\ Sets[f][Updated(f)][c] = NextUpdated(f)
          /\ SetLayoutBinding(Sets[f][Updated(f)], NextUpdated(f)) = <<Len(Sets[f][Updated(f)]), c>>
          /\ <<Len(Sets[f][Updated(f)]), c>> \in SetLayoutBindings
          /\ \A b \in DOMAIN Sets[f][Updated(f)] : Sets[f][Updated(f)][b] = NextUpdated(f) => b = c
    BY ZenonT(30), <2>1, UpdatedNext
  <2> QED
    BY <2>2
<1>4. s \in Seq(Nat) /\ \A b \in DOMAIN s : s[b] \in Nat /\ s[b] # 0
  BY <1>2, SetOf
<1>5. d \in Existing /\ D[d] = Contents(f, i)
  BY <1>2 DEF NewSets, NewSet
<1>6. D \in Seq(Seq(Nat)) /\ D[d] \in Seq(Nat)
  BY <1>5 DEF SetTypes, Existing
<1>7. pc'[f] = "add" /\ \A g \in Factories \ {f} : pc'[g] = pc[g]
  BY <1>1 DEF IInv, Types
<1>8. OthersKeep(f)
  BY <1>1, <1>7 DEF IInv, Types, OthersKeep, Others
<1>9. c \notin Written(f, i) /\ D[d][c] = 0 /\ DOMAIN D[d] = DOMAIN s
  <2>1. c \notin Written(f, i)
    BY <1>1, <1>2, <1>3 DEF Written, Added
  <2> QED
    BY <1>5, <2>1 DEF Contents
<1> HIDE DEF D, s
<1>10. D' = [D EXCEPT ![d] = [D[d] EXCEPT ![c] = r]]
  BY <1>1, <1>3
<1>11. r \in Nat /\ [D[d] EXCEPT ![c] = r] \in Seq(Nat)
  <2>1. r \in Nat
    BY <1>3, <1>4
  <2> QED
    BY <1>6, <1>9, <2>1
<1>12. /\ D' \in Seq(Seq(Nat)) /\ Len(D') = Len(D)
       /\ \A e \in Existing : D'[e] = IF e = d THEN [D[d] EXCEPT ![c] = r] ELSE D[e]
  BY <1>5, <1>6, <1>10, <1>11 DEF Existing, D
<1>13. Existing' = Existing
  BY <1>12 DEF Existing, D
<1>14. \A g \in Factories : Pending(g)' = Pending(g) /\ \A j : DescriptorSet(g, j)' = DescriptorSet(g, j)
  BY <1>1, <1>7 DEF Pending, DescriptorSet
<1>15. Finished' = Finished /\ d \notin Finished
  <2>1. \A e : IsNew(e)' <=> IsNew(e)
    BY <1>14 DEF IsNew
  <2>2. IsNew(d)
    BY <1>2 DEF IsNew
  <2> QED
    BY <1>13, <2>1, <2>2 DEF Finished
<1>16. \A e \in Finished : D'[e] = D[e]
  BY <1>12, <1>15 DEF Finished
<1>17. Grows
  <2>1. ~Full(D[d])
    BY <1>9, <1>3 DEF Full
  <2>2. \A e \in Existing : Full(D[e]) => D'[e] = D[e]
    BY <1>12, <2>1
  <2> QED
    BY <1>1, <1>13, <2>2 DEF Grows, D
<1>18. SetTypes'
  BY <1>1, <1>12 DEF SetTypes, D
<1>19. HandlesRight'
  <2> SUFFICES ASSUME NEW q \in Resources, NEW k \in SetLayoutBindings, NEW e \in handles[q][k]
               PROVE  e \in Existing /\ Len(D'[e]) = k[1] /\ D'[e][k[2]] = q
    BY <1>1, <1>13 DEF HandlesRight, D
  <2>1. e \in Existing /\ Len(D[e]) = k[1] /\ D[e][k[2]] = q
    BY DEF HandlesRight, D
  <2>2. CASE e = d
    <3>1. q # 0
      BY FS_CardinalityType
    <3>2. k[2] # c
      BY <1>9, <2>1, <2>2, <3>1
    <3>3. k[2] \in DOMAIN D[d]
      BY <1>6, <2>1, <2>2, BindingType
    <3>4. D'[d] = [D[d] EXCEPT ![c] = r] /\ D'[d] \in Seq(Nat) /\ DOMAIN D'[d] = DOMAIN D[d]
      BY <1>5, <1>11, <1>12
    <3>5. Len(D'[d]) = Len(D[d])
      <4> HIDE DEF D
      <4>1. DOMAIN D'[d] = 1..Len(D'[d]) /\ DOMAIN D[d] = 1..Len(D[d]) /\ Len(D'[d]) \in Nat /\ Len(D[d]) \in Nat
        BY <1>6, <3>4, LenProperties
      <4> QED
        BY <3>4, <4>1
    <3> QED
      BY <2>1, <2>2, <3>2, <3>3, <3>4, <3>5
  <2>3. CASE e # d
    BY <1>12, <2>1, <2>3
  <2> QED
    BY <2>2, <2>3
<1>20. NewSets'
  <2> SUFFICES ASSUME NEW g \in Factories, NEW j \in Pending(g) PROVE NewSet(g, j)'
    BY <1>14 DEF NewSets
  <2>1. NewSet(g, j)
    BY DEF NewSets
  <2>2. DescriptorSet(g, j)' = DescriptorSet(g, j) /\ DescriptorSet(g, j) \in Existing'
    BY <1>13, <1>14, <2>1 DEF NewSet
  <2>3. Updated(g)' = Updated(g) /\ NextUpdated(g)' = NextUpdated(g) /\ Added(g, j)' = Added(g, j)
    BY <1>1 DEF Added, Updated, NextUpdated
  <2>4. \A h \in Factories : \A l \in Pending(h)' : DescriptorSet(h, l)' = DescriptorSet(g, j)' => h = g /\ l = j
    BY <1>14, <2>1 DEF NewSet
  <2>5. \A b : HasHandle(DescriptorSet(g, j), Sets[g][j], b)' <=> HasHandle(DescriptorSet(g, j), Sets[g][j], b)
    BY <1>1, <1>14 DEF HasHandle
  <2>6. D'[DescriptorSet(g, j)] = Contents(g, j)'
    <3>1. CASE g = f /\ j = i
      <4>1. Written(f, i)' = Written(f, i) \cup {c}
        BY <1>1, <1>2, <1>3, <1>7, <2>3, <3>1 DEF Written, Added, s
      <4>2. Contents(f, i)' = [b \in DOMAIN s |-> IF b \in Written(f, i) \cup {c} THEN s[b] ELSE 0]
        BY <4>1 DEF Contents, s
      <4>3. D[d] = [b \in DOMAIN s |-> IF b \in Written(f, i) THEN s[b] ELSE 0]
        BY <1>5 DEF Contents, s
      <4>4. [D[d] EXCEPT ![c] = r] = [b \in DOMAIN s |-> IF b \in Written(f, i) \cup {c} THEN s[b] ELSE 0]
        BY <1>3, <4>3
      <4> QED
        BY <1>5, <1>12, <3>1, <4>2, <4>4
    <3>2. CASE ~(g = f /\ j = i)
      <4>1. DescriptorSet(g, j) # d
        BY <1>2, <2>1, <3>2 DEF NewSet
      <4>2. Written(g, j)' = Written(g, j)
        <5>1. CASE g = f
          BY <1>1, <2>3, <3>2, <5>1 DEF Written, Added
        <5>2. CASE g # f
          BY <1>7, <2>3, <5>2 DEF Written
        <5> QED
          BY <5>1, <5>2
      <4>3. Contents(g, j)' = Contents(g, j)
        BY <4>2 DEF Contents
      <4> QED
        BY <1>12, <1>13, <2>1, <2>2, <4>1, <4>3 DEF NewSet, D
    <3> QED
      BY <3>1, <3>2
  <2> QED
    BY <2>1, <2>2, <2>3, <2>4, <2>5, <2>6 DEF NewSet, D
<1>21. FinishedSets'
  <2> SUFFICES ASSUME NEW e \in Finished PROVE FinishedSet(e)'
    BY <1>15 DEF FinishedSets
  <2>1. FinishedSet(e) /\ missing' = missing /\ handles' = handles
    BY <1>1 DEF FinishedSets
  <2> QED
    BY <1>15, <1>16, <2>1 DEF FinishedSet, HasHandle, D
<1>22. ASSUME NEW g \in Factories \ {f} PROVE SearchOf(g)' /\ FoundOf(g)'
  BY <1>8, <1>15, <1>16, <1>17, OthersSearch DEF D
<1>23. SearchOf(f)'
  BY <1>7 DEF SearchOf
<1>24. FoundOf(f)'
  <2>1. FoundOf(f)
    BY DEF Found
  <2>2. \A j \in DOMAIN Sets[f] : Full(Sets[f][j])
    BY SetOf DEF Full
  <2>3. \A j : DescriptorSet(f, j)' = DescriptorSet(f, j)
    BY <1>14
  <2>4. ASSUME NEW j \in DOMAIN Sets[f], j < set_index[f], j \notin missing[f]
        PROVE  DescriptorSet(f, j) \in Existing' /\ D'[DescriptorSet(f, j)] = Sets[f][j]
    BY <1>17, <2>1, <2>2, <2>4 DEF FoundOf, Grows, D
  <2> QED
    BY <1>1, <1>7, <2>3, <2>4 DEF FoundOf, D
<1> QED
  BY <1>18, <1>19, <1>20, <1>21, <1>22, <1>23, <1>24 DEF Searches, Found

(* The resource that was written last finds the descriptor set. *)
Handed(f, i, d, c) ==
  /\ pc[f] = "add" /\ i = Updated(f) /\ i \in Pending(f) /\ i \in DOMAIN Sets[f] /\ d = DescriptorSet(f, i)
  /\ c \in DOMAIN Sets[f][i] /\ Sets[f][i][c] = NextUpdated(f) /\ NextUpdated(f) \in todo[f]
  /\ \A b \in DOMAIN Sets[f][i] : Sets[f][i][b] = NextUpdated(f) => b = c
  /\ UNCHANGED <<set_index, m_have_lock, matches, descriptor_sets, m_descriptor_set_per_set_index>>
  /\ OthersKeep(f)
  /\ handles' \in [Resources -> [SetLayoutBindings -> SUBSET Nat]]
  /\ \A q \in Resources, k \in SetLayoutBindings :
       handles'[q][k] = handles[q][k]
                        \cup (IF q = Sets[f][i][c] /\ k = <<Len(Sets[f][i]), c>> THEN {d} ELSE {})

LEMMA AddedHandle ==
  ASSUME IInv, Bindings, NEW f \in Factories, add_set_layout_binding(f)
  PROVE  \E i, d, c : Handed(f, i, d, c)
<1> USE DEF Bindings
<1>0. PICK i, d, r : i = Updated(f) /\ d = DescriptorSet(f, i) /\ r = NextUpdated(f)
  OBVIOUS
<1> DEFINE s == Sets[f][Updated(f)]
<1>1. /\ pc[f] = "add"
      /\ handles' = [handles EXCEPT ![NextUpdated(f)][SetLayoutBinding(s, NextUpdated(f))]
                       = @ \cup {DescriptorSet(f, Updated(f))}]
      /\ UNCHANGED <<set_index, m_have_lock, matches, descriptor_sets, m_descriptor_set_per_set_index>>
  BY DEF add_set_layout_binding, DescriptorSet
<1>2. Updated(f) \in Pending(f) /\ Updated(f) \in DOMAIN Sets[f] /\ NextUpdated(f) \in todo[f]
  BY <1>1, UpdatedNext
<1>3. pc[f] \in {"update", "add"}
  BY <1>1
<1>4. PICK c \in DOMAIN s :
        /\ s[c] = NextUpdated(f)
        /\ SetLayoutBinding(s, NextUpdated(f)) = <<Len(s), c>>
        /\ <<Len(s), c>> \in SetLayoutBindings
        /\ \A b \in DOMAIN s : s[b] = NextUpdated(f) => b = c
  BY ZenonT(30), <1>3, UpdatedNext
<1>5. OthersKeep(f)
  <2>1. SetStepped(f)
    BY AddStep
  <2> QED
    BY <1>1, <2>1 DEF SetStepped, OthersKeep
<1>6. s[c] \in Resources /\ DescriptorSet(f, Updated(f)) \in Nat
  <2>1. DescriptorSet(f, Updated(f)) \in Existing
    BY <1>2 DEF NewSets, NewSet
  <2> QED
    BY <1>2, <2>1, SetOf DEF Existing
<1>7. handles \in [Resources -> [SetLayoutBindings -> SUBSET Nat]]
  BY DEF SetTypes
<1>8. PICK k \in SetLayoutBindings : k = <<Len(s), c>>
  BY <1>4
<1>9. handles' = [handles EXCEPT ![r][k] = handles[r][k] \cup {d}] /\ r \in Resources /\ d \in Nat
  <2> HIDE DEF s
  <2> QED
    BY <1>0, <1>1, <1>4, <1>6, <1>8
<1>10. handles' \in [Resources -> [SetLayoutBindings -> SUBSET Nat]]
  BY <1>7, <1>9
<1>11. \A q \in Resources, l \in SetLayoutBindings :
         handles'[q][l] = handles[q][l] \cup (IF q = r /\ l = k THEN {d} ELSE {})
  BY <1>7, <1>9
<1>12. \A q \in Resources, l \in SetLayoutBindings :
         handles'[q][l] = handles[q][l] \cup (IF q = Sets[f][i][c] /\ l = <<Len(Sets[f][i]), c>> THEN {d} ELSE {})
  BY <1>0, <1>4, <1>8, <1>11
<1>13. /\ i \in Pending(f) /\ i \in DOMAIN Sets[f] /\ c \in DOMAIN Sets[f][i] /\ Sets[f][i][c] = NextUpdated(f)
       /\ \A b \in DOMAIN Sets[f][i] : Sets[f][i][b] = NextUpdated(f) => b = c
  BY <1>0, <1>2, <1>4
<1>14. Handed(f, i, d, c)
  BY <1>0, <1>1, <1>2, <1>5, <1>10, <1>12, <1>13 DEF Handed
<1> QED
  BY <1>14

(* What holds after every handle that is added. *)
LEMMA HandedKeeps ==
  ASSUME IInv, Bindings, NEW f \in Factories, NEW i, NEW d, NEW c, Handed(f, i, d, c)
  PROVE  /\ d \in Existing /\ SetTypes' /\ HandlesRight' /\ Grows
         /\ \A e : e # d => \A g \in Factories : \A j \in DOMAIN Sets[g] : \A b \in DOMAIN Sets[g][j] :
              HasHandle(e, Sets[g][j], b)' <=> HasHandle(e, Sets[g][j], b)
         /\ \A b \in DOMAIN Sets[f][i] : HasHandle(d, Sets[f][i], b)' <=> b \in Added(f, i) \cup {c}
         /\ Written(f, i) = Added(f, i) \cup {c}
<1> USE DEF Bindings, Handed
<1> DEFINE s == Sets[f][i]
           D == descriptor_sets
<1>1. d \in Existing /\ D[d] = Contents(f, i) /\ \A b \in DOMAIN s : HasHandle(d, s, b) <=> b \in Added(f, i)
  BY DEF NewSets, NewSet
<1>2. SetTypes'
  BY DEF SetTypes
<1>3. Existing' = Existing
  BY DEF Existing
<1>4. Grows
  BY <1>3 DEF Grows
<1>5. Written(f, i) = Added(f, i) \cup {c}
  BY DEF Written, Added
<1>6. D[d][c] = s[c] /\ DOMAIN D[d] = DOMAIN s /\ D[d] \in Seq(Nat)
  BY <1>1, <1>5 DEF Contents, SetTypes, Existing
<1>7. Len(D[d]) = Len(s)
  <2>1. DOMAIN s = 1..Len(s) /\ Len(s) \in Nat
    BY SetOf
  <2>2. DOMAIN D[d] = 1..Len(D[d]) /\ Len(D[d]) \in Nat
    BY <1>6, LenProperties
  <2> HIDE DEF s, D
  <2> QED
    BY <1>6, <2>1, <2>2
<1>8. HandlesRight'
  <2> SUFFICES ASSUME NEW q \in Resources, NEW k \in SetLayoutBindings, NEW e \in handles'[q][k]
               PROVE  e \in Existing /\ Len(D[e]) = k[1] /\ D[e][k[2]] = q
    BY <1>3 DEF HandlesRight
  <2>1. CASE e \in handles[q][k]
    BY <2>1 DEF HandlesRight
  <2>2. CASE e = d /\ q = s[c] /\ k = <<Len(s), c>>
    BY <1>1, <1>6, <1>7, <2>2
  <2> QED
    BY <2>1, <2>2
<1>9. ASSUME NEW g \in Factories, NEW j \in DOMAIN Sets[g], NEW b \in DOMAIN Sets[g][j], NEW e
      PROVE  HasHandle(e, Sets[g][j], b)' <=>
               HasHandle(e, Sets[g][j], b) \/ (e = d /\ Sets[g][j][b] = s[c] /\ <<Len(Sets[g][j]), b>> = <<Len(s), c>>)
  <2>1. Sets[g][j][b] \in Resources /\ <<Len(Sets[g][j]), b>> \in SetLayoutBindings
    BY SetOf, BindingOf
  <2> DEFINE q == Sets[g][j][b]
             k == <<Len(Sets[g][j]), b>>
  <2>2. handles'[q][k] = handles[q][k] \cup (IF q = s[c] /\ k = <<Len(s), c>> THEN {d} ELSE {})
    <3>1. q \in Resources /\ k \in SetLayoutBindings
      BY <2>1
    <3> HIDE DEF q, k
    <3> QED
      BY <3>1
  <2>3. (HasHandle(e, Sets[g][j], b)' <=> e \in handles'[q][k]) /\ (HasHandle(e, Sets[g][j], b) <=> e \in handles[q][k])
    BY DEF HasHandle
  <2> HIDE DEF q, k, s
  <2> QED
    BY <2>2, <2>3 DEF q, k
<1>10. \A b \in DOMAIN s : HasHandle(d, s, b)' <=> b \in Added(f, i) \cup {c}
  <2> SUFFICES ASSUME NEW b \in DOMAIN s
               PROVE  HasHandle(d, s, b)' <=> b \in Added(f, i) \cup {c}
    OBVIOUS
  <2>1. i \in DOMAIN Sets[f] /\ c \in DOMAIN s /\ (s[b] = s[c] => b = c)
    OBVIOUS
  <2>2. HasHandle(d, s, b) <=> b \in Added(f, i)
    BY <1>1
  <2> HIDE DEF Handed, Bindings, D
  <2>3. HasHandle(d, s, b)' <=>
          HasHandle(d, s, b) \/ (s[b] = s[c] /\ <<Len(s), b>> = <<Len(s), c>>)
    BY <1>9, <2>1
  <2> HIDE DEF s
  <2> QED
    BY <2>1, <2>2, <2>3
<1>11. \A e : e # d => \A g \in Factories : \A j \in DOMAIN Sets[g] : \A b \in DOMAIN Sets[g][j] :
         HasHandle(e, Sets[g][j], b)' <=> HasHandle(e, Sets[g][j], b)
  <2> HIDE DEF Handed, Bindings, s, D
  <2> QED
    BY <1>9
<1> QED
  BY <1>1, <1>2, <1>4, <1>5, <1>8, <1>10, <1>11

(* What is needed of the step that adds a handle, for the new sets that it leaves new. *)
LEMMA StaysNew ==
  ASSUME IInv, Bindings, NEW f \in Factories, NEW i, NEW d, NEW c, Handed(f, i, d, c),
         \A g \in Factories : Pending(g)' \subseteq Pending(g),
         NEW g \in Factories, NEW j \in Pending(g)', ~(g = f /\ j = i),
         g = f => Added(f, j)' = {} /\ Written(f, j)' = {}
  PROVE  NewSet(g, j)'
<1> USE DEF Bindings
<1>1. j \in Pending(g) /\ NewSet(g, j) /\ j \in DOMAIN Sets[g] /\ i \in Pending(f) /\ NewSet(f, i)
      /\ d = DescriptorSet(f, i) /\ i = Updated(f) /\ descriptor_sets' = descriptor_sets
  BY PendingIn DEF NewSets, Handed
<1>2. DescriptorSet(g, j) # d
  BY <1>1 DEF NewSet
<1>3. \A h \in Factories : \A l : DescriptorSet(h, l)' = DescriptorSet(h, l)
  BY DEF Handed, DescriptorSet
<1>4. Added(g, j)' = Added(g, j) /\ Written(g, j)' = Written(g, j)
  <2>1. CASE g = f
    <3>1. Added(f, j) = {} /\ Written(f, j) = {}
      BY <1>1, <2>1 DEF Added, Written
    <3> QED
      BY <2>1, <3>1
  <2>2. CASE g # f
    <3>1. pc'[g] = pc[g] /\ todo'[g] = todo[g] /\ missing'[g] = missing[g]
      BY <2>2 DEF Handed, OthersKeep, Others
    <3> QED
      BY <3>1 DEF Added, Written, Updated, NextUpdated
  <2> QED
    BY <2>1, <2>2
<1>5. Contents(g, j)' = Contents(g, j)
  BY <1>4 DEF Contents
<1>6. \A b \in DOMAIN Sets[g][j] : HasHandle(DescriptorSet(g, j), Sets[g][j], b)' <=> b \in Added(g, j)
  <2> SUFFICES ASSUME NEW b \in DOMAIN Sets[g][j]
               PROVE  HasHandle(DescriptorSet(g, j), Sets[g][j], b)' <=> b \in Added(g, j)
    OBVIOUS
  <2>1. PICK e : e = DescriptorSet(g, j)
    OBVIOUS
  <2>2. HasHandle(e, Sets[g][j], b)' <=> HasHandle(e, Sets[g][j], b)
    <3>1. \A x : x # d => \A h \in Factories : \A l \in DOMAIN Sets[h] : \A y \in DOMAIN Sets[h][l] :
            HasHandle(x, Sets[h][l], y)' <=> HasHandle(x, Sets[h][l], y)
      BY HandedKeeps
    <3>2. e # d /\ j \in DOMAIN Sets[g]
      BY <1>1, <1>2, <2>1
    <3> QED
      BY <3>1, <3>2
  <2>3. HasHandle(DescriptorSet(g, j), Sets[g][j], b)' <=> HasHandle(e, Sets[g][j], b)'
    BY <1>3, <2>1 DEF HasHandle
  <2> QED
    BY <1>1, <2>1, <2>2, <2>3 DEF NewSet
<1>7. \A h \in Factories : \A l \in Pending(h)' : DescriptorSet(h, l)' = DescriptorSet(g, j)' => h = g /\ l = j
  BY <1>1, <1>3 DEF NewSet
<1>8. Existing' = Existing
  BY <1>1 DEF Existing
<1> QED
  BY <1>1, <1>3, <1>4, <1>5, <1>6, <1>7, <1>8 DEF NewSet

(* There is another resource to add. *)
LEMMA AddMore ==
  ASSUME IInv, Bindings, NEW f \in Factories, add_set_layout_binding(f), todo[f] # {NextUpdated(f)}
  PROVE  Bindings'
<1> USE DEF Bindings
<1>1. PICK i, d, c : Handed(f, i, d, c)
  BY AddedHandle
<1> DEFINE D == descriptor_sets
           s == Sets[f][i]
<1>2. /\ d \in Existing /\ SetTypes' /\ HandlesRight' /\ Grows
      /\ \A b \in DOMAIN s : HasHandle(d, s, b)' <=> b \in Added(f, i) \cup {c}
      /\ Written(f, i) = Added(f, i) \cup {c}
  BY <1>1, HandedKeeps
<1>3. /\ i = Updated(f) /\ i \in Pending(f) /\ i \in DOMAIN Sets[f] /\ d = DescriptorSet(f, i)
      /\ c \in DOMAIN s /\ s[c] = NextUpdated(f) /\ D' = D /\ pc[f] = "add" /\ OthersKeep(f)
      /\ set_index' = set_index
      /\ \A b \in DOMAIN s : s[b] = NextUpdated(f) => b = c
      /\ \A g \in Factories : \A j : DescriptorSet(g, j)' = DescriptorSet(g, j)
  BY <1>1 DEF Handed, DescriptorSet
<1>4. /\ pc' = [pc EXCEPT ![f] = "update"] /\ todo' = [todo EXCEPT ![f] = todo[f] \ {NextUpdated(f)}]
      /\ UNCHANGED missing
  BY DEF add_set_layout_binding, Goto
<1>5. pc'[f] = "update" /\ todo'[f] = todo[f] \ {NextUpdated(f)}
  BY <1>4 DEF IInv, Types
<1>6. \A g \in Factories : Pending(g)' = Pending(g)
  BY <1>3, <1>4, <1>5 DEF Pending, OthersKeep, Others
<1>7. Existing' = Existing /\ Finished' = Finished
  <2>1. \A e : IsNew(e)' <=> IsNew(e)
    BY <1>3, <1>6 DEF IsNew
  <2>2. Existing' = Existing
    BY <1>3 DEF Existing
  <2> QED
    BY <2>1, <2>2 DEF Finished
<1>8. Added(f, i)' = Added(f, i) \cup {c} /\ Written(f, i)' = Written(f, i)
  <2>1. Updated(f)' = Updated(f)
    BY <1>4 DEF Updated
  <2>2. Added(f, i)' = Added(f, i) \cup {c}
    BY <1>3, <1>5, <2>1 DEF Added
  <2>3. Written(f, i)' = Added(f, i)'
    BY <1>5 DEF Written, Added
  <2> QED
    BY <1>2, <2>2, <2>3
<1>9. NewSet(f, i)'
  <2>1. NewSet(f, i)
    BY <1>3 DEF NewSets
  <2>2. Contents(f, i)' = Contents(f, i)
    BY <1>8 DEF Contents
  <2>3. \A g \in Factories : \A j \in Pending(g)' : DescriptorSet(g, j)' = DescriptorSet(f, i)' => g = f /\ j = i
    BY <1>3, <1>6, <2>1 DEF NewSet
  <2>4. \A b \in DOMAIN Sets[f][i] : HasHandle(DescriptorSet(f, i), Sets[f][i], b)' <=> b \in Added(f, i)'
    <3>1. \A b : HasHandle(DescriptorSet(f, i), Sets[f][i], b)' <=> HasHandle(d, Sets[f][i], b)'
      BY <1>3 DEF HasHandle
    <3> QED
      BY <1>2, <1>8, <3>1
  <2> QED
    BY <1>3, <1>7, <2>1, <2>2, <2>3, <2>4 DEF NewSet
<1>10. NewSets'
  <2> SUFFICES ASSUME NEW g \in Factories, NEW j \in Pending(g)' PROVE NewSet(g, j)'
    BY DEF NewSets
  <2>1. CASE g = f /\ j = i
    BY <1>9, <2>1
  <2>2. CASE ~(g = f /\ j = i)
    <3>1. Updated(f)' = i
      BY <1>3, <1>4 DEF Updated
    <3>2. g = f => Added(f, j)' = {} /\ Written(f, j)' = {}
      BY <2>2, <3>1 DEF Added, Written
    <3> QED
      BY <1>1, <1>6, <2>2, <3>2, StaysNew
  <2> QED
    BY <2>1, <2>2
<1>11. FinishedSets'
  <2> SUFFICES ASSUME NEW e \in Finished PROVE FinishedSet(e)'
    BY <1>7 DEF FinishedSets
  <2>1. FinishedSet(e)
    BY DEF FinishedSets
  <2> PICK g \in Factories : \E j \in DOMAIN Sets[g] : D[e] = Sets[g][j]
    BY <2>1 DEF FinishedSet
  <2>2. PICK j \in DOMAIN Sets[g] : D[e] = Sets[g][j]
    OBVIOUS
  <2>3. ASSUME NEW b \in DOMAIN D[e] PROVE e \in handles'[D[e][b]][<<Len(D[e]), b>>]
    <3>1. D[e][b] \in Resources /\ <<Len(D[e]), b>> \in SetLayoutBindings
      BY <2>2, <2>3, SetOf, BindingOf
    <3>2. e \in handles[D[e][b]][<<Len(D[e]), b>>]
      BY <2>1, <2>3 DEF FinishedSet, HasHandle
    <3> QED
      BY <1>2, <3>1, <3>2 DEF Grows
  <2> QED
    BY <1>3, <1>4, <1>7, <2>1, <2>3 DEF FinishedSet, HasHandle
<1>12. ASSUME NEW g \in Factories \ {f} PROVE SearchOf(g)' /\ FoundOf(g)'
  BY <1>2, <1>3, <1>7, OthersSearch
<1>13. SearchOf(f)' /\ FoundOf(f)'
  <2>1. SearchOf(f)'
    BY <1>5 DEF SearchOf
  <2>2. FoundOf(f)
    BY DEF Found
  <2> QED
    BY <1>3, <1>4, <1>5, <1>7, <2>1, <2>2 DEF FoundOf
<1> QED
  BY <1>2, <1>10, <1>11, <1>12, <1>13 DEF Searches, Found

(* The last resource was added: the descriptor set is finished. *)
Finishes(f, i, d) ==
  /\ missing'[f] = missing[f] \ {i} /\ \A g \in Factories \ {f} : missing'[g] = missing[g]
  /\ pc'[f] \in {"update", "wait_set", "done"}
  /\ pc'[f] = "update" <=> missing[f] # {i}
  /\ pc'[f] = "update" => todo'[f] = Bound(Sets[f][First(missing[f] \ {i})])
  /\ pc'[f] = "wait_set" => set_index[f] <= Len(Sets[f]) /\ todo'[f] = Bound(Current(f))
  /\ pc'[f] = "done" => set_index[f] > Len(Sets[f])
  /\ descriptor_sets[d] = Sets[f][i]
  /\ \A b \in DOMAIN Sets[f][i] : HasHandle(d, Sets[f][i], b)'

LEMMA AddedLast ==
  ASSUME IInv, Bindings, NEW f \in Factories, add_set_layout_binding(f), todo[f] = {NextUpdated(f)},
         NEW i, NEW d, NEW c, Handed(f, i, d, c)
  PROVE  Finishes(f, i, d)
<1> USE DEF Bindings
<1>1. /\ i = Updated(f) /\ i \in Pending(f) /\ i \in DOMAIN Sets[f] /\ d = DescriptorSet(f, i) /\ pc[f] = "add"
      /\ set_index[f] \in Nat \ {0} /\ Len(Sets[f]) \in Nat
  BY DEF Handed, IInv, Types
<1>2. missing' = [missing EXCEPT ![f] = missing[f] \ {i}]
  BY <1>1 DEF add_set_layout_binding
<1>3. \/ /\ missing[f] # {i} /\ pc' = [pc EXCEPT ![f] = "update"]
         /\ todo' = [todo EXCEPT ![f] = Bound(Sets[f][First(missing[f] \ {i})])]
      \/ /\ missing[f] = {i} /\ set_index[f] <= Len(Sets[f]) /\ pc' = [pc EXCEPT ![f] = "wait_set"]
         /\ todo' = [todo EXCEPT ![f] = Bound(Current(f))]
      \/ missing[f] = {i} /\ ~(set_index[f] <= Len(Sets[f])) /\ pc' = [pc EXCEPT ![f] = "done"]
  BY <1>1 DEF add_set_layout_binding, AddedAll, Goto
<1>4. /\ \/ /\ missing[f] # {i} /\ pc'[f] = "update" /\ todo'[f] = Bound(Sets[f][First(missing[f] \ {i})])
         \/ missing[f] = {i} /\ set_index[f] <= Len(Sets[f]) /\ pc'[f] = "wait_set" /\ todo'[f] = Bound(Current(f))
         \/ missing[f] = {i} /\ set_index[f] > Len(Sets[f]) /\ pc'[f] = "done"
      /\ missing'[f] = missing[f] \ {i} /\ \A g \in Factories \ {f} : missing'[g] = missing[g]
  <2>1. pc \in [Factories -> ShaderPhase \cup CreatePhase \cup SetPhase] /\ todo \in [Factories -> SUBSET Resources]
        /\ missing \in [Factories -> SUBSET Nat]
    BY DEF IInv, Types
  <2> QED
    BY <1>1, <1>2, <1>3, <2>1
<1>5. \A b \in DOMAIN Sets[f][i] : b \in Added(f, i) \cup {c}
  BY DEF Handed, Added
<1>6. Written(f, i) = Added(f, i) \cup {c} /\ \A b \in DOMAIN Sets[f][i] : HasHandle(d, Sets[f][i], b)'
  BY <1>5, HandedKeeps
<1>7. descriptor_sets[d] = Sets[f][i]
  <2>1. descriptor_sets[d] = Contents(f, i)
    BY <1>1 DEF NewSets, NewSet
  <2>2. Full(Contents(f, i))
    BY <1>1, <1>5, <1>6, SetOf DEF Full, Contents
  <2>3. Full(descriptor_sets[DescriptorSet(f, i)])
    BY <1>1, <2>1, <2>2
  <2> QED
    BY <1>1, <2>3, FullNew
<1> QED
  BY <1>4, <1>6, <1>7 DEF Finishes

LEMMA AddLast ==
  ASSUME IInv, Bindings, NEW f \in Factories, add_set_layout_binding(f), todo[f] = {NextUpdated(f)}
  PROVE  Bindings'
<1> USE DEF Bindings
<1>1. PICK i, d, c : Handed(f, i, d, c)
  BY AddedHandle
<1> DEFINE D == descriptor_sets
           s == Sets[f][i]
<1>2. d \in Existing /\ SetTypes' /\ HandlesRight' /\ Grows
  BY <1>1, HandedKeeps
<1>3. /\ i = Updated(f) /\ i \in Pending(f) /\ i \in DOMAIN Sets[f] /\ d = DescriptorSet(f, i)
      /\ D' = D /\ OthersKeep(f) /\ set_index' = set_index /\ i \in missing[f] /\ i \in Locked(f)
      /\ \A g \in Factories : \A j : DescriptorSet(g, j)' = DescriptorSet(g, j)
  BY <1>1, PendingIn DEF Handed, DescriptorSet
<1>4. Finishes(f, i, d)
  BY <1>1, AddedLast
<1>5. /\ missing'[f] = missing[f] \ {i} /\ \A g \in Factories \ {f} : missing'[g] = missing[g]
      /\ pc'[f] = "update" => todo'[f] = Bound(Sets[f][First(missing[f] \ {i})])
      /\ D[d] = s /\ \A b \in DOMAIN s : d \in handles'[s[b]][<<Len(s), b>>]
  BY <1>4 DEF Finishes, HasHandle
<1>6. Pending(f)' = Pending(f) \ {i} /\ \A g \in Factories \ {f} : Pending(g)' = Pending(g)
  <2>1. Pending(f) = missing[f]
    BY <1>1 DEF Handed, Pending
  <2>2. Pending(f)' = missing[f] \ {i}
    BY <1>4 DEF Finishes, Pending
  <2>3. \A g \in Factories \ {f} : Pending(g)' = Pending(g)
    BY <1>3 DEF Pending, OthersKeep, Others
  <2> QED
    BY <2>1, <2>2, <2>3
<1>7. Existing' = Existing /\ Finished' = Finished \cup {d} /\ d \notin Finished
  <2>1. NewSet(f, i)
    BY <1>3 DEF NewSets
  <2>2. ~IsNew(d)' /\ IsNew(d)
    <3>1. ASSUME NEW g \in Factories, NEW j \in Pending(g)' PROVE DescriptorSet(g, j)' # d
      <4>1. j \in Pending(g) /\ ~(g = f /\ j = i) /\ DescriptorSet(g, j)' = DescriptorSet(g, j)
        BY <1>3, <1>6
      <4> QED
        BY <1>3, <2>1, <4>1 DEF NewSet
    <3>2. ~IsNew(d)'
      BY <3>1 DEF IsNew
    <3> QED
      BY <1>3, <3>2 DEF IsNew
  <2>3. ASSUME NEW e, e # d PROVE IsNew(e)' <=> IsNew(e)
    <3>1. ASSUME NEW g \in Factories, NEW j \in Pending(g), DescriptorSet(g, j) = e
          PROVE  j \in Pending(g)' /\ DescriptorSet(g, j)' = e
      <4>1. ~(g = f /\ j = i) /\ DescriptorSet(g, j)' = DescriptorSet(g, j)
        BY <1>3, <2>3, <3>1
      <4> QED
        BY <1>6, <3>1, <4>1
    <3>2. ASSUME NEW g \in Factories, NEW j \in Pending(g)', DescriptorSet(g, j)' = e
          PROVE  j \in Pending(g) /\ DescriptorSet(g, j) = e
      BY <1>3, <1>6, <3>2
    <3> QED
      BY <3>1, <3>2 DEF IsNew
  <2>4. Existing' = Existing
    BY <1>3 DEF Existing
  <2> QED
    BY <1>2, <2>2, <2>3, <2>4 DEF Finished
<1>8. NewSets'
  <2> SUFFICES ASSUME NEW g \in Factories, NEW j \in Pending(g)' PROVE NewSet(g, j)'
    BY DEF NewSets
  <2>1. ~(g = f /\ j = i) /\ \A h \in Factories : Pending(h)' \subseteq Pending(h)
    BY <1>6
  <2>2. ASSUME g = f PROVE Added(f, j)' = {} /\ Written(f, j)' = {}
    <3>1. pc'[f] = "update"
      BY <2>2, <1>4 DEF Pending, Finishes
    <3>2. todo'[f] = Bound(Sets[f][Updated(f)'])
      BY <1>5, <3>1 DEF Updated
    <3>3. Added(f, j)' = {}
      BY <3>2 DEF Added, Bound
    <3> QED
      BY <3>1, <3>3 DEF Written
  <2> QED
    BY <1>1, <2>1, <2>2, StaysNew
<1>9. ASSUME NEW e \in Finished PROVE D[e] # s /\ \A g \in Factories : \A j \in missing[g] : D[e] # Sets[g][j]
  BY <1>3 DEF FinishedSets, FinishedSet
<1>10. \A g \in Factories : \A j \in Locked(g) : Sets[g][j] = s => g = f /\ j = i
  BY <1>3, SameSet
<1>11. FinishedSets'
  <2> SUFFICES ASSUME NEW e \in Finished' PROVE FinishedSet(e)'
    BY DEF FinishedSets
  <2>1. \E g \in Factories : \E j \in DOMAIN Sets[g] : D[e] = Sets[g][j]
    <3>1. CASE e = d
      BY <1>3, <1>5, <3>1
    <3>2. CASE e # d
      BY <1>7, <3>2 DEF FinishedSets, FinishedSet
    <3> QED
      BY <3>1, <3>2
  <2>2. ASSUME NEW b \in DOMAIN D[e] PROVE e \in handles'[D[e][b]][<<Len(D[e]), b>>]
    <3>1. CASE e = d
      BY <1>5, <2>2, <3>1
    <3>2. CASE e # d
      <4> PICK g \in Factories : \E j \in DOMAIN Sets[g] : D[e] = Sets[g][j]
        BY <2>1
      <4>1. PICK j \in DOMAIN Sets[g] : D[e] = Sets[g][j]
        OBVIOUS
      <4>2. D[e][b] \in Resources /\ <<Len(D[e]), b>> \in SetLayoutBindings
        BY <2>2, <4>1, SetOf, BindingOf
      <4>3. e \in handles[D[e][b]][<<Len(D[e]), b>>]
        BY <1>7, <2>2, <3>2 DEF FinishedSets, FinishedSet, HasHandle
      <4> QED
        BY <1>2, <4>2, <4>3 DEF Grows
    <3> QED
      BY <3>1, <3>2
  <2>3. ASSUME NEW x \in Finished', D[x] = D[e] PROVE x = e
    <3>1. CASE x \in Finished /\ e \in Finished
      BY <2>3, <3>1 DEF FinishedSets, FinishedSet
    <3>2. CASE ~(x \in Finished /\ e \in Finished)
      BY <1>5, <1>7, <1>9, <2>3, <3>2
    <3> QED
      BY <3>1, <3>2
  <2>4. ASSUME NEW g \in Factories, NEW j \in missing'[g] PROVE D[e] # Sets[g][j]
    <3>1. j \in missing[g] /\ j \in Locked(g) /\ ~(g = f /\ j = i)
      BY <1>5, <2>4 DEF Locked
    <3>2. CASE e = d
      BY <1>5, <1>10, <3>1, <3>2
    <3>3. CASE e # d
      BY <1>7, <1>9, <3>1, <3>3
    <3> QED
      BY <3>2, <3>3
  <2> QED
    BY <1>3, <2>1, <2>2, <2>3, <2>4 DEF FinishedSet, HasHandle
<1>12. ASSUME NEW g \in Factories \ {f} PROVE SearchOf(g)' /\ FoundOf(g)'
  <2>1. m_have_lock[g] => s # Current(g)
    <3>1. m_have_lock[g] => set_index[g] \in Locked(g)
      BY DEF Locked
    <3> QED
      BY <1>10, <3>1 DEF Current
  <2>2. m_have_lock[g] => \A e \in Finished' \ Finished : D'[e] # Current(g)
    BY <1>3, <1>5, <1>7, <2>1
  <2> QED
    BY <1>2, <1>3, <2>2, OthersSearch
<1>13. SearchOf(f)'
  <2>1. Current(f)' = Current(f)
    BY <1>3 DEF Current
  <2>2. pc'[f] = "wait_set" => set_index[f] <= Len(Sets[f]) /\ todo'[f] = Bound(Current(f)) /\ Bound(Current(f)) # {}
    <3> SUFFICES ASSUME pc'[f] = "wait_set"
                 PROVE  set_index[f] <= Len(Sets[f]) /\ todo'[f] = Bound(Current(f)) /\ Bound(Current(f)) # {}
      OBVIOUS
    <3>1. set_index[f] <= Len(Sets[f]) /\ todo'[f] = Bound(Current(f))
      BY <1>4 DEF Finishes
    <3>2. set_index[f] \in 1..Len(Sets[f])
      BY <3>1 DEF IInv, Types
    <3> QED
      BY <3>1, <3>2, LockType DEF Current
  <2>3. pc'[f] # "search"
    BY <1>4 DEF Finishes
  <2> QED
    BY <2>1, <2>2, <2>3 DEF SearchOf
<1>14. FoundOf(f)'
  <2>1. ASSUME NEW j \in DOMAIN Sets[f], j < set_index[f], j \notin missing'[f]
        PROVE  DescriptorSet(f, j) \in Existing /\ D[DescriptorSet(f, j)] = Sets[f][j]
    <3>1. CASE j = i
      BY <1>2, <1>3, <1>5, <3>1
    <3>2. CASE j # i
      BY <1>5, <2>1, <3>2 DEF Found, FoundOf
    <3> QED
      BY <3>1, <3>2
  <2>2. pc'[f] = "done" => set_index[f] > Len(Sets[f])
    BY <1>4 DEF Finishes
  <2> QED
    BY <1>3, <1>7, <2>1, <2>2 DEF FoundOf
<1> QED
  BY <1>2, <1>8, <1>11, <1>12, <1>13, <1>14 DEF Searches, Found

--------------------------------------------------------------------------------

LEMMA NextBindings == IInv /\ Bindings /\ [Next]_vars => Bindings'
<1> SUFFICES ASSUME IInv, Bindings, [Next]_vars PROVE Bindings'
  OBVIOUS
<1>1. CASE UNCHANGED vars
  <2>1. UNCHANGED <<pc, todo, set_vars>>
    BY <1>1 DEF vars
  <2>2. SetTypes' /\ HandlesRight'
    BY <2>1 DEF set_vars, Bindings, SetTypes, HandlesRight, Existing
  <2>3. Finished' = Finished
    BY <2>1 DEF set_vars, Finished, Existing, IsNew, Pending, DescriptorSet
  <2>4. NewSets'
    <3>1. \A g \in Factories : Pending(g)' = Pending(g) /\ \A j : DescriptorSet(g, j)' = DescriptorSet(g, j)
      BY <2>1 DEF set_vars, Pending, DescriptorSet
    <3>2. \A g \in Factories : \A j : Added(g, j)' = Added(g, j) /\ Written(g, j)' = Written(g, j)
      BY <2>1 DEF set_vars, Added, Written, Updated, NextUpdated
    <3>3. \A g \in Factories : \A j : Contents(g, j)' = Contents(g, j)
      BY <3>2 DEF Contents
    <3>4. Existing' = Existing /\ descriptor_sets' = descriptor_sets /\ handles' = handles
      BY <2>1 DEF set_vars, Existing
    <3>5. ASSUME NEW g \in Factories, NEW j \in Pending(g) PROVE NewSet(g, j)'
      <4>1. NewSet(g, j)
        BY DEF Bindings, NewSets
      <4> QED
        BY <3>1, <3>2, <3>3, <3>4, <4>1 DEF NewSet, HasHandle
    <3> QED
      BY <3>1, <3>5 DEF NewSets
  <2>5. FinishedSets'
    <3>1. descriptor_sets' = descriptor_sets /\ handles' = handles /\ missing' = missing
      BY <2>1 DEF set_vars
    <3>2. ASSUME NEW e \in Finished PROVE FinishedSet(e)'
      <4>1. FinishedSet(e)
        BY DEF Bindings, FinishedSets
      <4> QED
        BY <2>3, <3>1, <4>1 DEF FinishedSet, HasHandle
    <3> QED
      BY <2>3, <3>2 DEF FinishedSets
  <2>6. Searches' /\ Found'
    BY <2>1, <2>3 DEF set_vars, Bindings, Searches, SearchOf, HasHandle, Current, Found, FoundOf, Existing, DescriptorSet
  <2> QED
    BY <2>2, <2>4, <2>5, <2>6 DEF Bindings
<1>2. ASSUME NEW f \in Factories, Factory(f) PROVE Bindings'
  <2>1. CASE \/ lock_shader(f) \/ obtained_shader_lock(f) \/ realize_shader(f) \/ compile(f)
             \/ characteristics_compiled(f)
    BY <2>1, ShaderBindings
  <2>2. CASE \/ acquire_create_lock(f) \/ obtained_create_lock(f) \/ instantiate(f) \/ set_created(f)
             \/ release_create_lock(f)
    BY <2>2, CreateBindings
  <2>3. CASE initialize_shader_resources_per_set_index(f)
    BY <2>3, StartBindings
  <2>4. CASE lock_set_layout_binding(f) \/ obtained_set_layout_binding_lock(f) \/ searched(f)
    BY <2>4, WaitBindings
  <2>5. CASE set_is_missing(f)
    BY <2>5, MissingBindings
  <2>6. CASE still_have_match(f)
    BY <2>6, StillBindings
  <2>7. CASE have_match(f)
    BY <2>7, MatchBindings
  <2>8. CASE allocate_descriptor_sets(f)
    BY <2>8, AllocateBindings
  <2>9. CASE update_descriptor_set(f)
    BY <2>9, UpdateBindings
  <2>10. CASE add_set_layout_binding(f)
    BY <2>10, AddMore, AddLast
  <2> QED
    BY <1>2, <2>1, <2>2, <2>3, <2>4, <2>5, <2>6, <2>7, <2>8, <2>9, <2>10 DEF Factory
<1> QED
  BY <1>1, <1>2 DEF Next

(* The descriptor sets and their handles agree in every reachable state: a descriptor set
   that is found by all its resources is complete, the incomplete ones belong to the
   factory that has the mutex of their first resource, and a factory that searches knows
   all candidates (PipelineFactory::update_missing_descriptor_sets,
   allocate_update_add_handles_and_unlocking). *)
THEOREM BindingsInvariant == Spec => []Bindings
BY InitBindings, NextBindings, Invariant, PTL DEF Spec

(* No two descriptor sets with the same layout bind the same resources
   (PipelineFactory::update_missing_descriptor_sets): whoever makes one has the mutex of
   the first resource, and did not find it. *)
THEOREM NeverTwice == Spec => []DescriptorSetsUnique
<1>1. IInv /\ Bindings => DescriptorSetsUnique
  <2> SUFFICES ASSUME IInv, Bindings, NEW d \in Existing, NEW e \in Existing, d # e, Full(descriptor_sets[d]),
                      descriptor_sets[d] = descriptor_sets[e]
               PROVE  FALSE
    BY DEF DescriptorSetsUnique, Existing, Full
  <2> USE DEF Bindings
  <2>1. ASSUME NEW x \in Existing, NEW y \in Finished, IsNew(x), Full(descriptor_sets[x])
        PROVE  descriptor_sets[x] # descriptor_sets[y]
    <3> PICK f \in Factories : \E i \in Pending(f) : DescriptorSet(f, i) = x
      BY <2>1 DEF IsNew
    <3>1. PICK i \in Pending(f) : DescriptorSet(f, i) = x
      OBVIOUS
    <3>2. descriptor_sets[x] = Sets[f][i] /\ i \in missing[f]
      BY <2>1, <3>1, FullNew, PendingIn
    <3> QED
      BY <3>2 DEF FinishedSets, FinishedSet
  <2>2. CASE IsNew(d) /\ IsNew(e)
    <3> PICK f \in Factories : \E i \in Pending(f) : DescriptorSet(f, i) = d
      BY <2>2 DEF IsNew
    <3>1. PICK i \in Pending(f) : DescriptorSet(f, i) = d
      OBVIOUS
    <3> PICK g \in Factories : \E j \in Pending(g) : DescriptorSet(g, j) = e
      BY <2>2 DEF IsNew
    <3>2. PICK j \in Pending(g) : DescriptorSet(g, j) = e
      OBVIOUS
    <3>3. descriptor_sets[d] = Sets[f][i] /\ descriptor_sets[e] = Sets[g][j]
      BY <3>1, <3>2, FullNew
    <3>4. i \in Locked(f) /\ j \in Locked(g) /\ Sets[f][i] = Sets[g][j]
      BY <3>3, PendingIn
    <3>5. f = g /\ i = j
      BY <3>4, SameSet
    <3> QED
      BY <3>1, <3>2, <3>5
  <2>3. CASE IsNew(d) /\ ~IsNew(e)
    BY <2>1, <2>3 DEF Finished
  <2>4. CASE ~IsNew(d) /\ IsNew(e)
    BY <2>1, <2>4 DEF Finished
  <2>5. CASE ~IsNew(d) /\ ~IsNew(e)
    BY <2>5 DEF Finished, FinishedSets, FinishedSet
  <2> QED
    BY <2>2, <2>3, <2>4, <2>5
<1> QED
  BY <1>1, Invariant, BindingsInvariant, PTL

(* A pipeline that is created gets, for every set index, a descriptor set that is bound to
   its own resources; and what is found by a resource was updated with it before. *)
THEOREM BoundRight == Spec => []DescriptorSetsRight
<1>1. IInv /\ Bindings => DescriptorSetsRight
  <2> SUFFICES ASSUME IInv, Bindings PROVE DescriptorSetsRight
    OBVIOUS
  <2>1. ASSUME NEW f \in Factories, pc[f] = "done", NEW i \in DOMAIN Sets[f]
        PROVE  descriptor_sets[m_descriptor_set_per_set_index[f][i]] = Sets[f][i]
    <3>1. FoundOf(f) /\ set_index[f] > Len(Sets[f]) /\ set_index[f] \in Nat
      BY <2>1 DEF Bindings, Found, FoundOf, IInv, Types
    <3>2. missing[f] = {}
      BY <2>1 DEF IInv, SetIndexes, IndexesOf
    <3>3. i < set_index[f]
      BY <3>1, SetOf
    <3> QED
      BY <3>1, <3>2, <3>3 DEF FoundOf, DescriptorSet
  <2> QED
    BY <2>1 DEF DescriptorSetsRight, Bindings, HandlesRight
<1> QED
  BY <1>1, Invariant, BindingsInvariant, PTL
=============================================================================
