SPECIFICATION FairSpec
CONSTANTS
    p1 = p1
    p2 = p2
    r1 = r1
    r2 = r2
    r3 = r3
    NoPod = NoPod
    Pod <- TwoPods
    Request <- TwoRequests
    MaxHops = 1
    MaxFaults = 0
    MaxRestarts = 0
PROPERTIES
    CanceledIsFinal
\* A behaviour ends when its requests are served.
CHECK_DEADLOCK FALSE
