CONSTANTS
    Transfer = transfer
    Graphics = graphics
    Compute = compute
    present = present
    c1 = c1
    c2 = c2
    c3 = c3
    t1 = t1
    t2 = t2
    w1 = w1
    w2 = w2
    NoThread = NoThread
    MaxRequests = 2
    PoolThreads = {t1, t2}
    QueueRequests <- SomeRequests
    Devices <- SomeDevices
    Keys <- SomeKeys
    WindowKey <- SomeWindows

SPECIFICATION FairSpec

INVARIANTS OnePoolPerKey QueuesExclusive NothingLeftBehind
PROPERTIES EveryRequestServed
CHECK_DEADLOCK FALSE
