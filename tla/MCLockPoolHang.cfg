CONSTANTS
    c1 = c1
    c2 = c2
    owner = owner
    logger = logger
    low = low
    high = high
    Clients <- MCClients
    Owner = owner
    Loggers <- MCLoggers
    Levels <- BothLevels
    FlushLevels <- FlushHigh
    ThreadsNum = 1
    QueueSize = 2
    MaxCalls <- OneCall
SPECIFICATION FairSpec
PROPERTIES
    FlushLevelFlushes
CHECK_DEADLOCK FALSE
