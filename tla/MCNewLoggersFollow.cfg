CONSTANTS
    t1 = t1
    t2 = t2
    lock = lock
    lockfree = lockfree
    Threads <- MCThreads
    Names <- MCNames
    PoolTypes <- MCTypes
    Fields <- MCFields
    Levels = {1, 2}
    Default = "default_logger"
    MaxLoggers = 3
    MaxPools = 2
    MaxCalls = 2
    Callers = {t1, t2}
    Loggers = {"a", "b"}
    SinksOf <- MCSinksOf
    Patterns = {"%+", "p", "q"}
    Formatters = {"f"}
    MaxFormatCalls = 3
    Sizes = {1, 2, 3}
    max_file_size_ = 2
    max_file_num_ = 3
    MaxMessages = 4
    MaxFailures = 2
    MaxSinks = 3
    Users = {t1, t2}
    Paths <- MCPaths
    Present <- MCPresent
    try_times = 2
    MaxMade = 3
    MaxDenied = 1
    MaxOutputs = 2
SPECIFICATION MCSpec
SYMMETRY MCSymmetry
INVARIANTS
    NewLoggersFollow
CHECK_DEADLOCK FALSE
