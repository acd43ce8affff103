---------------------------- MODULE QueueFamilies ----------------------------
(***************************************************************************)
(* How the queues of a device are divided over the queue requests of the   *)
(* application (LogicalDevice.cxx), and which reply serves a request key.  *)
(* A device is a sequence of queue families, each with its flags and the   *)
(* number of its queues; presentation support is one of the flags.  A      *)
(* request may be combined with the previous one (combined = its index, or *)
(* 0).  Priorities are in tenths; penalties are scaled to integers, exact  *)
(* for up to six queues, where the code uses a float.  Every configuration *)
(* of minimal penalty is a possible outcome: the code keeps the first.     *)
(***************************************************************************)
EXTENDS Naturals, Integers, Sequences, FiniteSets, FiniteSetsExt, Functions

CONSTANTS
    QueueRequests,      \* a sequence of [flags, max, priority, combined, cookies]
    Transfer, Graphics, Compute    \* queue flags that the code treats specially

ASSUME RequestsAssumption ==
    \A r \in DOMAIN QueueRequests : QueueRequests[r].combined \in {0, r - 1}

GraphicsOrCompute == {Graphics, Compute}

RequestIndices == DOMAIN QueueRequests

Supported(device) == UNION {device[f].flags : f \in DOMAIN device}

Unsupported(device) ==
    UNION {QueueRequests[r].flags : r \in RequestIndices} \ Supported(device)

\* Transfers may be done by a graphics or compute queue when no family offers transfers.
AcceptForTransfer(device) ==
    Unsupported(device) = {Transfer} /\ Supported(device) \cap GraphicsOrCompute # {}

FamiliesByRequest(device, r) ==
    {f \in DOMAIN device :
        LET missing == QueueRequests[r].flags \ device[f].flags
        IN  \/ missing = {}
            \/ /\ missing = {Transfer}
               /\ AcceptForTransfer(device)
               /\ QueueRequests[r].flags \cap GraphicsOrCompute = {}
               /\ device[f].flags \cap GraphicsOrCompute # {}}

IsCompatible(device) ==
    /\ Unsupported(device) = {} \/ AcceptForTransfer(device)
    /\ \A r \in RequestIndices : FamiliesByRequest(device, r) # {}

\* Zero means: as many as possible.
MaxNumberOfQueues(device, r) ==
    IF QueueRequests[r].max # 0
    THEN QueueRequests[r].max
    ELSE Max({device[f].count : f \in FamiliesByRequest(device, r)})

Sum(h, S) == FoldFunctionOnSet(+, 0, h, S)

\* At most this many queues are handed out for a request by this family.
Limit(device, r, f) == Min({device[f].count, MaxNumberOfQueues(device, r)})

MayCombine(family, r) == QueueRequests[r].combined # 0 /\ family[r] = family[r - 1]

\* A configuration: the family of each request and the number of queues handed out,
\* zero when the request is combined with the previous one.
Configurations(device) ==
    LET Fits(c) ==
            /\ \A r \in RequestIndices :
                  /\ c.handed[r] =< Limit(device, r, c.family[r])
                  /\ c.handed[r] = 0 => MayCombine(c.family, r)
            /\ \A f \in DOMAIN device :
                  Sum(c.handed, {r \in RequestIndices : c.family[r] = f}) =< device[f].count
        Families == {family \in [RequestIndices -> DOMAIN device] :
                        \A r \in RequestIndices : family[r] \in FamiliesByRequest(device, r)}
        Largest == Max({MaxNumberOfQueues(device, r) : r \in RequestIndices})
    IN  {c \in [family : Families, handed : [RequestIndices -> 0 .. Largest]] : Fits(c)}

PenaltyOf(device, c, r) ==
    LET request == QueueRequests[r]
        R == MaxNumberOfQueues(device, r)
        Missing(H) == IF H < R THEN (60 * request.priority * (R - H)) \div H ELSE 0
    IN  IF c.handed[r] > 0
        THEN Missing(c.handed[r])
        ELSE Missing(c.handed[request.combined]) - 24 * QueueRequests[request.combined].priority

Penalty(device, c) ==
    Sum([r \in RequestIndices |-> PenaltyOf(device, c, r)], RequestIndices)

BestConfigurations(device) ==
    LET configurations == Configurations(device)
        lowest == Min({Penalty(device, c) : c \in configurations})
    IN  {c \in configurations : Penalty(device, c) = lowest}

\* Where the queues of a reply start, in its family.
StartIndex(c, r) ==
    Sum(c.handed, {q \in RequestIndices : q < r /\ c.family[q] = c.family[r]})

QueueReplies(c) ==
    [r \in RequestIndices |->
        [family   |-> c.family[r],
         number   |-> c.handed[r],
         flags    |-> QueueRequests[r].flags,
         combined |-> IF c.handed[r] = 0 THEN QueueRequests[r].combined ELSE 0,
         cookies  |-> QueueRequests[r].cookies,
         start    |-> StartIndex(c, r)]]

\* The replies of a family are disjoint ranges of the queues that it has.
Divided(device, replies) ==
    \A r \in RequestIndices :
        /\ replies[r].start \in Nat /\ device[replies[r].family].count \in Nat
        /\ replies[r].start + replies[r].number <= device[replies[r].family].count
        /\ \A q \in RequestIndices \ {r} : replies[q].family = replies[r].family =>
              \/ replies[q].start + replies[q].number <= replies[r].start
              \/ replies[r].start + replies[r].number <= replies[q].start

--------------------------------------------------------------------------------

\* The flags asked of a reply, with those of the replies that were combined with it.
CombinedQueueFlags(replies, key, r) ==
    UNION {replies[q].flags : q \in {q \in DOMAIN replies :
        /\ key.cookie \in replies[q].cookies
        /\ q = r \/ replies[q].combined = r}}

SupportingReplies(device, replies, key) ==
    {r \in DOMAIN replies :
        LET flags == device[replies[r].family].flags
        IN  /\ replies[r].combined = 0
            /\ \/ key.flags \subseteq flags
               \/ /\ Transfer \notin Supported(device)
                  /\ key.flags \ {Transfer} \subseteq flags
                  /\ flags \cap GraphicsOrCompute # {}}

RequestedReplies(device, replies, key) ==
    {r \in SupportingReplies(device, replies, key) :
        key.flags \subseteq CombinedQueueFlags(replies, key, r)}

\* Nothing was requested with this combination of flags: no queue, and no error.
NoSuchCombination(device, replies, key) ==
    /\ SupportingReplies(device, replies, key) # {}
    /\ RequestedReplies(device, replies, key) = {}
    /\ Cardinality(key.flags) > 1
================================================================================
