CONSTANTS
    c1 = c1
    c2 = c2
    owner = owner
    logger = logger
    low = low
    high = high
    Clients <- MCClients
    Owner = owner
    Loggers <- MCLoggers
    Levels <- OneLevel
    FlushLevels <- FlushOff
    ThreadsNum = 1
    MaxCalls <- TwoCalls
    Blocks = 3
    BlockSize = 2
SPECIFICATION Spec
INVARIANTS
    DestroyedWhenDrained
CHECK_DEADLOCK FALSE
