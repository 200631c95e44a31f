CONSTANTS
    c1 = c1  c2 = c2  c3 = c3  k1 = k1  k2 = k2  ok = ok  err = err
    Callers <- MCCallers
    Keys <- MCKeys
    Outcomes <- MCOutcomes
    TimedOut = TimedOut
    Nobody = Nobody
    Nothing = Nothing
    FnMayPanic = TRUE

    e1 = e1  e2 = e2  e3 = e3
    CacheKeys <- MCCacheKeys
    MaxSize = 2
    TTLs = {1, 3}
    MaxTime = 6
CHECK_DEADLOCK FALSE
SPECIFICATION FairMCSpec
INVARIANTS WaitersShareTheResult UndoneCallsStayInTheMap WithinCapacity
PROPERTIES EveryCallReturns ImplementsSingleFlight
           LosesOnlyTheNextToExpire ExpiredEntriesLeave
