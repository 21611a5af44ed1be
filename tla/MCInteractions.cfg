SPECIFICATION FairSpec
CONSTANTS
    viewFileMaxLines = 2
    viewFileMaxBytes = 2
    MaxTurns = 2
    rateLimitMaxRetries = 1
    MaxConnects = 2
    MaxInteractions = 3
    MaxEvents = 3
    InitialFiles <- MCFiles
    Paths <- MCPaths
    Contents <- MCContents
    Windows <- MCWindows
    Edits <- MCEdits
INVARIANTS
    TypeOK
    ChainIsClean
    ParsedAsMeant
    AnsweredInFull
    ViewIsFaithful
PROPERTIES
    EditIsWhole
    ConnectEnds
CHECK_DEADLOCK FALSE
