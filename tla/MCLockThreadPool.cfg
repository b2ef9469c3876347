CONSTANTS
    c1 = c1
    c2 = c2
    owner = owner
    logger = logger
    low = low
    high = high
    Clients <- MCClients
    Owner = owner
    Loggers <- MCLoggers
    Levels <- OneLevel
    FlushLevels <- FlushOff
    ThreadsNum = 1
    QueueSize = 2
    MaxCalls <- ThreeAndTwo
SPECIFICATION FairSpec

    
PROPERTIES
    PoolServes
CHECK_DEADLOCK FALSE
