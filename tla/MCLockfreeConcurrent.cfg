CONSTANTS
    c1 = c1
    c2 = c2
    owner = owner
    logger = logger
    low = low
    high = high
    Owner = owner
    Loggers <- MCLoggers
    Clients <- TwoClients
    Levels <- TwoLevels
    FlushLevels <- FlushHigh
    ThreadsNum = 2
    MaxCalls <- TwoCalls
    UseTLS = TRUE
    UsedBefore <- SecondClient
SPECIFICATION Spec
INVARIANTS
    
    Delivered
    
CHECK_DEADLOCK FALSE
