SPECIFICATION FairSpec
CONSTANTS
    a = a
    b = b
    x = x
    client = client
    none = none
    Agent <- TwoAgents
    Client <- client
    Owner <- a
    ID <- AllIDs
    ValidIDs <- TwoAgents
    NoID <- none
    Listings <- MCListings
    MaxMoves = 2
    MaxFaults = 1
INVARIANTS
    TypeOK
    ReplyFindsItsCaller
    ResumeEqualsLive
    OrderOfRecord
    TornDown
    RowTellsTheOutcome
    AnswerIsOnRecord
PROPERTIES
    ChainComesToRest
\* A behaviour ends when its client has nothing more to ask.
CHECK_DEADLOCK FALSE
