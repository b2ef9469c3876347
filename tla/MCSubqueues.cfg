CONSTANTS
    o1 = o1
    o2 = o2
    Blank = Blank
    Objects <- MCObjects
    Items = {d1, d2}
    Capacities <- MCCapacities
    SizeMod = 8
    MaxLost = 2
    PoolThreads = {v1, v2, v3}
    PoolSize = 2
    HeapSize = 1
    W = 16
    B = 2
    QueueBlocks = {v1, v2, v3}
    Consumers = {d1, d2}
    BulkSizes = {1, 3}
    LastIndex = 5
    IndexSizes <- MCIndexSizes
    IndexCapacities <- MCIndexSizes
    PartialFailures = FALSE
    HashThreads = {v1, v2, v3}
    TokenThreads = {k1}
    HashOf <- MCHashOf
    HashCapacity = 2
    MaxTables = 3
    MaxLives = 4
SPECIFICATION MCSpec
INVARIANTS
    BlocksAccounted
    ClaimsAreItems
    DestructorsFreeAll
    OneProducerEach
PROPERTIES
    RefinesFifo
SYMMETRY Symmetric
CHECK_DEADLOCK FALSE
