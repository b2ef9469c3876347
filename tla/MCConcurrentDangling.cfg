CONSTANTS
    c1 = c1
    c2 = c2
    owner = owner
    logger = logger
    low = low
    high = high
    Owner = owner
    Loggers <- MCLoggers
    Clients <- OneClient
    Levels <- OneLevel
    FlushLevels <- FlushOff
    ThreadsNum = 1
    MaxCalls <- TwoCalls
    UseTLS = TRUE
    UsedBefore <- OneClient
SPECIFICATION FairSpec
PROPERTIES
    FlushReturns
CHECK_DEADLOCK FALSE
