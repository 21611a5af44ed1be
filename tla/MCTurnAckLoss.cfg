SPECIFICATION Spec
CONSTANTS
    s1 = s1
    s2 = s2
    o1 = o1
    o2 = o2
    StepID <- MCStepID
    Output <- MCOutput
    NoStep = NoStep
    NoOutput = NoOutput
    Failed = Failed
    MaxFaults = 4
    AckLoss = TRUE
INVARIANTS
    RetryMeansUncommitted
\* A conversation ends when no further message is sent.
CHECK_DEADLOCK FALSE
