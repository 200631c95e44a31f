CONSTANTS
    q1 = q1
    q2 = q2
    Requests <- MCRequests
    Limits = {1, 2}
    LogBuffer = 1
    AuthEnabled = TRUE
    MaxCrashes = 1
CHECK_DEADLOCK FALSE
SPECIFICATION FairSpec
INVARIANTS NeverOverloaded MeasuredOnce StateFileIsWhole
PROPERTIES ShutdownEnds
