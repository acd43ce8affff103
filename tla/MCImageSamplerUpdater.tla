------------------------ MODULE MCImageSamplerUpdater ------------------------
EXTENDS ImageSamplerUpdater
D(id, fill_index, size, n) == [id |-> id, fill_index |-> fill_index, size |-> size, descriptor |-> n]
R(id, begin, end, texture) == [id |-> id, begin |-> begin, end |-> end, texture |-> texture]
\* Only the last id has several fill indexes.
MCDescriptors == {D(1, -1, 2, 1), D(2, 0, 3, 2), D(2, 1, 3, 3), D(2, 1, 3, 4)}
MCRequests == {R(2, 0, 1, "t2"), R(2, 0, 1, "t3"), R(2, 1, 2, "t4"), R(2, 2, 3, "t4")}

\* The subranges of requests are equal or disjoint, and a request is for all or for nothing
\* of what shows in a descriptor.
Separate ==
    \A u \in Requests, v \in Updates :
        LET k == FactoryCharacteristicKey(u)
            l == FactoryCharacteristicKey(v)
        IN  Matches(k, l) =>
                IF IsDescriptor(v) THEN k.begin <= l.begin /\ l.end <= k.end ELSE k = l

\* The subranges of a texture are adjacent (at most two), and no other texture replaces one of them.
Contiguous ==
    \A u, v \in Requests : u.id = v.id /\ u.texture = v.texture /\ u.begin # v.begin =>
        /\ u.end = v.begin \/ v.end = u.begin
        /\ \A w \in Requests :
              Matches(FactoryCharacteristicKey(w), FactoryCharacteristicKey(u)) => w.texture = u.texture

\* Only the last id has descriptors with a fill index, unless it is the only descriptor of its id.
LastIdHasFillIndexes ==
    \A c, d, e \in Descriptors : d # e /\ d.id = e.id /\ d.id < c.id => d.fill_index = -1

\* The instance: without the first two a descriptor may match several elements, and without
\* the last the descriptors do not stay sorted (TwoDescriptors).
ASSUME CallersAssumption == Separate /\ Contiguous /\ (Descriptors = MCDescriptors => LastIdHasFillIndexes)
\* Two ids that both have several fill indexes.
TwoDescriptors == {D(1, 0, 2, 1), D(1, 1, 2, 2), D(2, 0, 2, 3)}
TwoRequests == {R(1, 0, 2, "t1")}
================================================================================
