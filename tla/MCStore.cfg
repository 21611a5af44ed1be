SPECIFICATION SSpec
CONSTANTS
    NSessions = 3
    TaskId <- MCTaskId
    LeftAt <- MCLeftAt
    PageSize = 2
    StartTime = 2
    BatchSize = 2
    Period = 1
    MaxTime = 3
    MaxWrites = 3
    Starts <- MCStarts
INVARIANTS
    TypeOK
    ListedOnce
    NoneStranded
    NoOrphans
PROPERTY
    SweepSparesTheContinued
CHECK_DEADLOCK FALSE
