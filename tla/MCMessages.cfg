CONSTANTS
    t1 = t1
    t2 = t2
    o1 = o1
    o2 = o2
    Threads <- MCThreads
    SinkLevels <- MCSinkLevels
    Levels = {1, 2}
    Capacities = {1, 2}
    MaxMessages = 3
    MaxCalls = 2
    MaxThrows = 1
    SinkKinds <- PlainThenColor
    Fields <- TextAndDate
    CustomFlags = {"v"}
    Patterns <- MCPatterns
    Letters <- MCLetters
    UserFlags = {"v"}
    MaxLetters = 5
    Messages <- MCMessagesOf
    MaxSpaces = 6
    SizeMod = 128
    IntMod = 32
    Nothing = Nothing
    IntBits = 5
    ShortText = 5
    Frames <- MCFrames
    ArgumentLists <- MCArguments
    Numbers <- MCNumbers
    Bytes = {97, 159, 169, 195, 224, 228, 237, 240}
    MaxBytes = 4
    Objects = {o1, o2}
    LoggerNames <- MCNames
    MessageTexts <- MCTexts
    InlineSize = 3
    Reporters = {"r1", "r2", "r3"}
    MaxReports = 2
    Writers = {t1, t2}
    LevelColors = {"red", "blue"}
    MaxLines = 3
    MaxRefused = 1
SPECIFICATION MCSpec
SYMMETRY MCSymmetry
INVARIANTS
    BacktraceFaithful
    EverySinkServed
    AnalysisFaithful
    SinksFormatAlike
    LinesAsPattern
    FieldsRead
    TextConverted
    MessagesKeepTheirText
    
    
CHECK_DEADLOCK FALSE
