CONSTANTS
    p1 = p1
    p2 = p2
    c1 = c1
    c2 = c2
    w1 = w1
    Threads <- MCThreads
    Calls <- MCCalls
    MaxItems = 2
    NotifyUnderLock = FALSE
    MaxSends = 2
    SemThreads <- MCThreads
    Enqueuers <- MCEnqueuers
    Dequeuers <- MCDequeuers
    BulkCounts = {1, 2}
    MaxCounted = 3
    PlainConsumers = {c1}
    TokenConsumers = {w1}
    CallSizes <- MCCallSizes
    Quota = 2
    MaxProducers = 3
    LagPeriod = 6
    FlushCallers = {u1, u2}
    MaxFlushers = 2
    MaxRegistryCalls = 4
    SubqueueSize = 1
SPECIFICATION MCSpec
INVARIANTS
    QueueSafe
    PermitsAccounted
    
    OneFlusher
PROPERTIES
    RefinesChannel
    WaitersServed
    SleepersServed
    
    FlusherProgress
CHECK_DEADLOCK FALSE
