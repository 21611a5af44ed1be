SPECIFICATION Spec
CONSTANTS
    Host = {1, 2}
    MaxProcs = 3
    MaxLaunches = 2
    MaxFaults = 1
    Replies <- MCReplies
INVARIANTS
    TypeOK
    OneServer
    NamedWhileServing
    TurnIsWhole
PROPERTY
    StopEnds
CHECK_DEADLOCK FALSE
