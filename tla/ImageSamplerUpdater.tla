------------------------- MODULE ImageSamplerUpdater -------------------------
(***************************************************************************)
(* The task CombinedImageSamplerUpdater (descriptor/), which joins what    *)
(* arrives in any order: descriptors, from the pipeline factory that made  *)
(* their descriptor set, and textures, from the user.  Both are stored in  *)
(* vectors that are sorted by key (an id, a factory / characteristic range *)
(* pair, and a subrange [begin, end>), so that each finds the other.       *)
(*                                                                         *)
(* Left out: arrays of textures (every request targets array element 0)    *)
(* and frame resources.  A descriptor is announced once, when its set is   *)
(* new, so that it never extends the subrange of an element that is there  *)
(* already (:183-191).  That test also reads the element past the end when *)
(* the descriptor comes last (n = 1): memory that was never written does   *)
(* not hold it either.                                                     *)
(*                                                                         *)
(* What a debug build (CW_DEBUG) tests is part of the model: where a test  *)
(* fails, or its loop does not end, the task is "stopped".  Tests that     *)
(* pass here are left out: textures of one element do not overlap (:252,   *)
(* :306), every descriptor has its own set or binding (:177), one window   *)
(* (:89), and a device that allows the update (:337, :344).                *)
(***************************************************************************)
EXTENDS Integers, Sequences, FiniteSets, SequencesExt

CONSTANTS
    Descriptors,    \* records [id, fill_index, size, descriptor], fill_index -1: the full range
    Requests,       \* records [id, begin, end, texture]
    Loading,        \* the texture of a descriptor that has none yet
    MaxQueued       \* bound on the length of the deque

ASSUME UpdaterAssumption ==
    /\ Descriptors \cap Requests = {}
    /\ \A d \in Descriptors : d.id \in Int /\ d.fill_index \in Nat \cup {-1} /\ d.size \in Nat \ {0}
    /\ \A u \in Requests : u.id \in Int /\ u.begin \in Nat /\ u.end \in Nat /\ u.begin < u.end

Updates == Descriptors \cup Requests

IsDescriptor(u) == u \in Descriptors

VARIABLES
    m_new_data,         \* the deque between the producers and the task
    sent,               \* the updates that were added to it
    adding,             \* those whose producer did not give the signal yet
    need_action,        \* the signal is pending
    run_state,          \* "flush", "empty", "wait", or "stopped": by a test of a debug build
    cw_debug,           \* whether this is a debug build
    m_factory_characteristic_key_to_descriptor,
    m_factory_characteristic_key_to_texture_array_range,
    shown,              \* the texture that each descriptor shows
    given               \* the texture that was last given for each descriptor (not in the code)

dequeVars == <<m_new_data, sent, adding, need_action, run_state, cw_debug>>
updaterVars == <<dequeVars, m_factory_characteristic_key_to_descriptor,
                 m_factory_characteristic_key_to_texture_array_range, shown, given>>

UpdaterInit ==
    /\ m_new_data = <<>> /\ sent = {} /\ adding = {}
    /\ need_action = FALSE /\ run_state = "flush" /\ cw_debug \in BOOLEAN
    /\ m_factory_characteristic_key_to_descriptor = <<>>
    /\ m_factory_characteristic_key_to_texture_array_range = <<>>
    /\ shown = <<>> /\ given = [d \in Descriptors |-> Loading]

--------------------------------------------------------------------------------

(* Keys. *)

FactoryCharacteristicKey(u) ==
    IF IsDescriptor(u)
    THEN [id    |-> u.id,
          begin |-> IF u.fill_index = -1 THEN 0 ELSE u.fill_index,
          end   |-> IF u.fill_index = -1 THEN u.size ELSE u.fill_index + 1]
    ELSE [id |-> u.id, begin |-> u.begin, end |-> u.end]

\* operator== of two keys.
Matches(k, l) == k.id = l.id /\ k.end > l.begin /\ l.end > k.begin

Less(k, l) == k.end <= l.begin

extend_subrange(k, l) ==
    [k EXCEPT !.begin = IF l.begin < @ THEN l.begin ELSE @, !.end = IF l.end > @ THEN l.end ELSE @]

\* The first index from i that is one of hits, or one past the end.
FirstFrom(s, i, hits) ==
    CHOOSE j \in i .. Len(s) + 1 :
        /\ j <= Len(s) => j \in hits
        /\ (i .. j - 1) \cap hits = {}

\* The elements that match key, up to the first one that does not.
find_descriptors(key) ==
    LET s == m_factory_characteristic_key_to_descriptor
        begin == FirstFrom(s, 1, {n \in DOMAIN s : Matches(s[n].key, key)})
    IN  IF begin > Len(s) THEN {}
        ELSE {s[i].descriptor : i \in begin .. FirstFrom(s, begin + 1, {n \in DOMAIN s : ~Matches(s[n].key, key)}) - 1}

find_texture_array_range(key) ==
    LET s == m_factory_characteristic_key_to_texture_array_range
        i == FirstFrom(s, 1, {n \in DOMAIN s : Matches(s[n].key, key)})
    IN  IF i > Len(s) THEN Loading ELSE s[i].texture

\* The element after the first that matches key matches it as well.
TwoMatch(key) ==
    LET s == m_factory_characteristic_key_to_texture_array_range
        i == FirstFrom(s, 1, {n \in DOMAIN s : Matches(s[n].key, key)})
    IN  i < Len(s) /\ Matches(s[i + 1].key, key)

--------------------------------------------------------------------------------

(* have_new_datum: by the factory that made the descriptor set, or by the user; each
   is one thread. *)

AddDatum(u) ==
    /\ u \notin sent /\ Len(m_new_data) < MaxQueued
    /\ \A v \in adding : IsDescriptor(v) # IsDescriptor(u)
    /\ m_new_data' = Append(m_new_data, u)
    /\ sent' = sent \cup {u} /\ adding' = adding \cup {u}
    /\ UNCHANGED <<need_action, run_state, cw_debug, m_factory_characteristic_key_to_descriptor,
                   m_factory_characteristic_key_to_texture_array_range, shown, given>>

SignalNeedAction(u) ==
    /\ u \in adding
    /\ adding' = adding \ {u}
    /\ need_action' = TRUE
    /\ UNCHANGED <<m_new_data, sent, run_state, cw_debug, m_factory_characteristic_key_to_descriptor,
                   m_factory_characteristic_key_to_texture_array_range, shown, given>>

--------------------------------------------------------------------------------

(* The task. *)

\* Where a descriptor is inserted: before the first element of a larger id, or of the
\* same id with a larger subrange; the second search does not look at the id.
DescriptorIndex(u) ==
    LET s == m_factory_characteristic_key_to_descriptor
        first == FirstFrom(s, 1, {n \in DOMAIN s : s[n].key.id >= u.id})
    IN  IF first > Len(s) \/ s[first].key.id # u.id
        THEN first
        ELSE FirstFrom(s, first, {n \in DOMAIN s : u.fill_index < s[n].key.begin})

\* Mutant: a new descriptor is not given the texture that is already there.
HandleDescriptorAlone(u) ==
    /\ IsDescriptor(u)
    /\ m_factory_characteristic_key_to_descriptor' =
           InsertAt(m_factory_characteristic_key_to_descriptor, DescriptorIndex(u),
                    [key |-> FactoryCharacteristicKey(u), descriptor |-> u])
    /\ run_state' = "flush"
    /\ shown' = [d \in DOMAIN shown \cup {u} |-> IF d = u THEN Loading ELSE shown[d]]
    /\ UNCHANGED <<m_factory_characteristic_key_to_texture_array_range, given>>

\* A descriptor shows the texture that was requested for it, or the loading texture. It is
\* fatal in a debug build when two elements in a row match it.
HandleDescriptor(u) ==
    LET key == FactoryCharacteristicKey(u)
        fatal == cw_debug /\ TwoMatch(key)
    IN  /\ IsDescriptor(u)
        /\ m_factory_characteristic_key_to_descriptor' =
               InsertAt(m_factory_characteristic_key_to_descriptor, DescriptorIndex(u), [key |-> key, descriptor |-> u])
        /\ run_state' = IF fatal THEN "stopped" ELSE "flush"
        /\ shown' = IF fatal THEN shown
                    ELSE [d \in DOMAIN shown \cup {u} |-> IF d = u THEN find_texture_array_range(key) ELSE shown[d]]
        /\ UNCHANGED <<m_factory_characteristic_key_to_texture_array_range, given>>

\* The first element of the id that is not before the subrange or has the same texture; or
\* where the elements of the id end.
TextureIndex(u) ==
    LET s == m_factory_characteristic_key_to_texture_array_range
        first == FirstFrom(s, 1, {n \in DOMAIN s : s[n].key.id >= u.id})
    IN  FirstFrom(s, first, {n \in DOMAIN s :
            s[n].key.id # u.id \/ ~Less(s[n].key, FactoryCharacteristicKey(u)) \/ s[n].texture = u.texture})

\* The subrange of the same texture, or an overlapping one whose texture is replaced, is
\* extended; otherwise the request gets an element of its own.
Extends(u) ==
    LET s == m_factory_characteristic_key_to_texture_array_range
        i == TextureIndex(u)
    IN  /\ i <= Len(s) /\ s[i].key.id = u.id
        /\ s[i].texture = u.texture \/ ~Less(FactoryCharacteristicKey(u), s[i].key)

\* What is stored for a request.
Stored(u) ==
    LET s == m_factory_characteristic_key_to_texture_array_range
        key == FactoryCharacteristicKey(u)
        i == TextureIndex(u)
    IN  IF Extends(u)
        THEN [s EXCEPT ![i].key = extend_subrange(@, key), ![i].texture = u.texture]
        ELSE InsertAt(s, i, [key |-> key, texture |-> u.texture])

\* The ASSERTs after an extension: the request must come before the next element. They test
\* the id of the element itself, so that the next one may be of any id.
OverlapsNext(u) ==
    LET s == m_factory_characteristic_key_to_texture_array_range
        i == TextureIndex(u)
    IN  Extends(u) /\ i < Len(s) /\ ~Less(FactoryCharacteristicKey(u), s[i + 1].key)

\* The loop after an insertion does not move on from the next element of the id.
LoopsForEver(u) ==
    LET s == m_factory_characteristic_key_to_texture_array_range
        i == TextureIndex(u)
    IN  ~Extends(u) /\ i <= Len(s) /\ s[i].key.id = u.id

\* A std::vector doubles its storage when it is full.
Reallocates(s) == \E k \in 0 .. Len(s) : Len(s) = 2 ^ k

\* The loop after an insertion among elements of the id uses an iterator into storage that was
\* freed: it may end or not.
Dangles(u) ==
    LET s == m_factory_characteristic_key_to_texture_array_range
    IN  ~Extends(u) /\ (\E n \in DOMAIN s : s[n].key.id = u.id) /\ Reallocates(s)

MayStop(u) == cw_debug /\ (OverlapsNext(u) \/ LoopsForEver(u) \/ Dangles(u))
MayGoOn(u) == cw_debug => ~OverlapsNext(u) /\ (LoopsForEver(u) => Dangles(u))

HandleRequest(u) ==
    /\ ~IsDescriptor(u)
    /\ m_factory_characteristic_key_to_texture_array_range' = Stored(u)
    /\ \/ /\ MayStop(u)
          /\ run_state' = "stopped"
          /\ UNCHANGED <<shown, given>>
       \/ /\ MayGoOn(u)
          /\ run_state' = "flush"
          /\ shown' = [d \in DOMAIN shown |->
                 IF d \in find_descriptors(FactoryCharacteristicKey(u)) THEN u.texture ELSE shown[d]]
          /\ given' = [d \in Descriptors |->
                 IF Matches(FactoryCharacteristicKey(u), FactoryCharacteristicKey(d)) THEN u.texture ELSE given[d]]
    /\ UNCHANGED m_factory_characteristic_key_to_descriptor

\* flush_new_data: one element.
Flush ==
    /\ run_state = "flush" /\ m_new_data # <<>>
    /\ m_new_data' = Tail(m_new_data)
    /\ HandleDescriptor(Head(m_new_data)) \/ HandleRequest(Head(m_new_data))
    /\ UNCHANGED <<sent, adding, need_action, cw_debug>>

\* The last time it finds the deque empty.
FlushedAll ==
    /\ run_state = "flush" /\ m_new_data = <<>>
    /\ run_state' = "empty"
    /\ UNCHANGED <<m_new_data, sent, adding, need_action, cw_debug, m_factory_characteristic_key_to_descriptor,
                   m_factory_characteristic_key_to_texture_array_range, shown, given>>

\* Mutant: a signal that came before the task waits is forgotten.
WaitAfresh ==
    /\ run_state = "empty"
    /\ run_state' = "wait" /\ need_action' = FALSE
    /\ UNCHANGED <<m_new_data, sent, adding, cw_debug, m_factory_characteristic_key_to_descriptor,
                   m_factory_characteristic_key_to_texture_array_range, shown, given>>

\* producer_not_finished waits for need_action; nobody ever calls set_producer_finished
\* for this task.
Wait ==
    /\ run_state = "empty"
    /\ run_state' = "wait"
    /\ UNCHANGED <<m_new_data, sent, adding, need_action, cw_debug, m_factory_characteristic_key_to_descriptor,
                   m_factory_characteristic_key_to_texture_array_range, shown, given>>

Wake ==
    /\ run_state = "wait" /\ need_action
    /\ run_state' = "flush" /\ need_action' = FALSE
    /\ UNCHANGED <<m_new_data, sent, adding, cw_debug, m_factory_characteristic_key_to_descriptor,
                   m_factory_characteristic_key_to_texture_array_range, shown, given>>

Task == Flush \/ FlushedAll \/ Wait \/ Wake

UpdaterNext == Task \/ \E u \in Updates : AddDatum(u) \/ SignalNeedAction(u)

\* The thread pool runs the task, and a producer that added a datum gives the signal.
UpdaterSpec == UpdaterInit /\ [][UpdaterNext]_updaterVars /\ WF_updaterVars(Task) /\ \A u \in Updates : WF_updaterVars(SignalNeedAction(u))

--------------------------------------------------------------------------------

\* Whatever the order in which descriptors and textures arrive, a descriptor shows the
\* texture that was last given for its fill index. (find_texture_array_range and find_descriptors.)
DescriptorsShowLatest == \A d \in DOMAIN shown : shown[d] = given[d]

\* The descriptors are sorted by id, then by subrange, as the searches assume.
\* (The comment at CombinedImageSamplerUpdater.cxx:95.)
SortedByKey ==
    LET s == m_factory_characteristic_key_to_descriptor
    IN  \A i, j \in DOMAIN s : i < j =>
            \/ s[i].key.id < s[j].key.id
            \/ s[i].key.id = s[j].key.id /\ s[i].key.begin <= s[j].key.begin

\* What a producer hands over is eventually handled, the signal is never lost; unless a test
\* of a debug build stopped the task. (TaskToTaskDeque: have_new_datum, producer_not_finished.)
EveryUpdateHandled ==
    \A u \in Updates :
        (u \in sent) ~> \/ u \in sent /\ u \notin ToSet(m_new_data)
                        \/ cw_debug /\ run_state = "stopped"
================================================================================
