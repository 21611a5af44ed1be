SPECIFICATION Spec
CONSTANTS
    p1 = p1
    p2 = p2
    r1 = r1
    r2 = r2
    r3 = r3
    NoPod = NoPod
    Pod <- TwoPods
    Request <- ThreeRequests
    MaxHops = 1
    MaxFaults = 1
    MaxRestarts = 1
SYMMETRY Symmetry
INVARIANTS
    AtMostOneLateHop
PROPERTIES
    StateNeverGoesBack
    NeverTakenFromTheLiving
\* A behaviour ends when its requests are served.
CHECK_DEADLOCK FALSE
