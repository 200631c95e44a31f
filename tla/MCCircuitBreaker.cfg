CONSTANTS
    g1 = g1  g2 = g2
    Callers <- TwoCallers
    NumBuckets = 3
    MinCalls = 4
    StableAt = 5
    Permits = 2
    Wait = 2
    MaxTotal = 2
    TimerRuns = TRUE
CHECK_DEADLOCK FALSE
SPECIFICATION Spec
PROPERTIES ClosedIsJustified OpenLastsItsWait
