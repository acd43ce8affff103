---------------------------- MODULE ShaderRegistry ----------------------------
(***************************************************************************)
(* Application::register_shaders: windows register lists of shaders, which *)
(* get the index of an equal shader that is already known, or a new one.   *)
(* A call reserves the indices in one critical section and appends the     *)
(* shaders to the deque in another.  A shader is represented by its hash;  *)
(* the deque holds the shader that get_shader_info returns for an index.   *)
(***************************************************************************)
EXTENDS Naturals, Sequences, FiniteSets, Functions

CONSTANTS
    Windows,        \* tasks that register shaders
    Lists           \* the lists that a window may register

VARIABLES
    deque, hash_to_index,   \* m_shader_infos
    shader_list,            \* the list that a window registers
    new_indices, first_new_index, pc

vars == <<deque, hash_to_index, shader_list, new_indices, first_new_index, pc>>

Init ==
    /\ deque = <<>> /\ hash_to_index = <<>>
    /\ shader_list \in [Windows -> Lists]
    /\ new_indices = [w \in Windows |-> <<>>]
    /\ first_new_index = [w \in Windows |-> 0]
    /\ pc = [w \in Windows |-> "reserve"]

\* The positions in the list of shaders that were not seen before.
Fresh(list) ==
    {i \in DOMAIN list : list[i] \notin DOMAIN hash_to_index /\ \A j \in 1 .. i - 1 : list[j] # list[i]}

Index(list, first, hash) ==
    IF hash \in DOMAIN hash_to_index
    THEN hash_to_index[hash]
    ELSE first + Cardinality({j \in Fresh(list) : \E i \in Fresh(list) : j < i /\ list[i] = hash})

\* The first critical section.
ReserveIndices(w) ==
    /\ pc[w] = "reserve"
    /\ LET list == shader_list[w]
           first == Len(deque)
       IN  /\ first_new_index' = [first_new_index EXCEPT ![w] = first]
           /\ new_indices' = [new_indices EXCEPT ![w] = [i \in DOMAIN list |-> Index(list, first, list[i])]]
           /\ hash_to_index' = [h \in DOMAIN hash_to_index \cup Range(list) |-> Index(list, first, h)]
    /\ pc' = [pc EXCEPT ![w] = "append"]
    /\ UNCHANGED <<deque, shader_list>>

\* The second critical section.
AppendShaders(w) ==
    /\ pc[w] = "append"
    /\ LET list == shader_list[w]
           Taken == {i \in DOMAIN list : new_indices[w][i] >= first_new_index[w]}
           Nth(n) == CHOOSE i \in Taken : Cardinality({j \in Taken : j =< i}) = n
       IN  deque' = deque \o [n \in 1 .. Cardinality(Taken) |-> list[Nth(n)]]
    /\ pc' = [pc EXCEPT ![w] = "done"]
    /\ UNCHANGED <<hash_to_index, shader_list, new_indices, first_new_index>>

Next == \E w \in Windows : ReserveIndices(w) \/ AppendShaders(w)

Spec == Init /\ [][Next]_vars

\* The shader at an index, as get_shader_info finds it.
ShaderInfo(index) == IF index < Len(deque) THEN deque[index + 1] ELSE "none"

\* Who registered a shader finds that shader at the index that it was given.
\* (register_shaders calls itself thread-safe.)
FindsItsShader ==
    \A w \in Windows : pc[w] = "done" =>
        \A i \in DOMAIN shader_list[w] : ShaderInfo(new_indices[w][i]) = shader_list[w][i]
================================================================================
