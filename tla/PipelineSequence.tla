------------------------ MODULE PipelineSequence ------------------------
(* What a pipeline factory promises: one pipeline for every combination of the
   values of its characteristics, each once, the last characteristic varying
   fastest. *)
EXTENDS Integers, Sequences

CONSTANTS N,     \* the number of characteristics
          End    \* the number of values of each

VARIABLE pipelines

Combinations == {k \in [1..N -> UNION {0..(End[c] - 1) : c \in 1..N}] : \A c \in 1..N : k[c] < End[c]}

Precedes(k, l) == \E c \in 1..N : k[c] < l[c] /\ \A d \in 1..(c - 1) : k[d] = l[d]

Missing == Combinations \ {pipelines[i] : i \in 1..Len(pipelines)}

Create ==
  \E k \in Missing :
    /\ \A l \in Missing \ {k} : Precedes(k, l)
    /\ pipelines' = Append(pipelines, k)

Spec == pipelines = <<>> /\ [][Create]_pipelines
=========================================================================
