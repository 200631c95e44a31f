CONSTANTS
    g1 = g1  g2 = g2
    Callers <- TwoCallers
    NumBuckets = 10
    MinCalls = 5
    StableAt = 20
    Permits = 1
    Wait = 2
    MaxTotal = 24
    TimerRuns = FALSE
CHECK_DEADLOCK FALSE
SPECIFICATION FairSpec
PROPERTIES RecoversWithTheUpstream
