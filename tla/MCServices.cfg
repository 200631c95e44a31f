CONSTANTS
    r1 = r1  r2 = r2  k1 = k1  k2 = k2  m1 = m1  m2 = m2
    Requests <- MCRequests
    Keys <- MCKeys
    Models <- MCModels
    Amounts = {1, 2}
    Quota = 2
    MaxRecords = 3
    MaxFaults = 2
    LastDay = 2

    f1 = f1  f2 = f2  f3 = f3
    Fingerprints <- MCFingerprints
    MaxProfiles = 2
    Rpm = 6
    Token = 2
    Reserve = 3
    Refill = 1
    TriggerReq = 1
    IdleAfter = 1
    CapPercent = 30
    MaxWarmPerTick = 2
    Prompts = {1, 2}
    MaxReal = 3
    MaxWarm = 2
    MaxClock = 4

    ShortBuckets = 2
    LongBuckets = 3
    BucketSize = 2
    EvalEvery = 2
    PagePercent = 60
    TicketPercent = 30
    MaxNow = 12
    MaxRecorded = 4

    Count = 3
    Weight <- MCWeight
    Priority <- MCPriority
    Price <- MCPrice
    Latencies = {60}
    MaxRounds = 2
    MaxTurns = 1
CHECK_DEADLOCK FALSE
SPECIFICATION MCSpec
SYMMETRY Symmetry
INVARIANTS
    AggregatesAgree LossIsBounded OvershootIsBounded
    KeepsTheMostRecent ReserveIsForRealRequests
    SloWindowsHold
    PreferenceHolds HealthIsNewest
