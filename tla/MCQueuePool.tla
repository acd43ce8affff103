----------------------------- MODULE MCQueuePool -----------------------------
EXTENDS QueuePool

CONSTANTS present, c1, c2, c3, t1, t2, w1, w2

Family(flags, count) == [flags |-> flags, count |-> count]

Request(flags, max, priority, combined, cookies) ==
    [flags |-> flags, max |-> max, priority |-> priority, combined |-> combined, cookies |-> cookies]

\* Graphics and presentation are combined when possible (c1) or requested apart (c2).
SomeRequests == <<
    Request({Graphics}, 1, 10, 0, {c1}),
    Request({present}, 1, 8, 1, {c1}),
    Request({Transfer}, 2, 2, 0, {c1}),
    Request({Compute}, 1, 1, 0, {c1}),
    Request({Graphics}, 1, 10, 0, {c2}),
    Request({present}, 1, 8, 0, {c2})>>

\* A dedicated transfer family; two equal ones; no family that says it can transfer; and
\* one without presentation.
SomeDevices == {
    <<Family({Graphics, Compute, Transfer, present}, 4), Family({Transfer}, 2)>>,
    <<Family({Graphics, Compute, present}, 4), Family({Compute}, 2)>>,
    <<Family({Graphics, Compute}, 6)>>}

SomeKeys == {[flags |-> {Transfer}, cookie |-> c1], [flags |-> {Compute}, cookie |-> c1]}

\* The second window has a cookie that nothing was requested for.
SomeWindows ==
    w1 :> [flags |-> {Graphics, present}, cookie |-> c2] @@
    w2 :> [flags |-> {Graphics}, cookie |-> c3]

\* What the proof of QueuesExclusive assumes of the division of the queues.
ASSUME DivisionAssumption ==
    \A d \in Devices : IsCompatible(d) =>
        \A c \in BestConfigurations(d) : Divided(d, QueueReplies(c))
=============================================================================
