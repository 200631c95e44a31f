CONSTANTS
    r1 = r1  r2 = r2  r3 = r3  p1 = p1  p2 = p2  t1 = t1  t2 = t2
    Requests <- MCRequests
    Providers <- MCProviders
    Tenants <- MCTenants
    Contents <- OneContent
    Quota = 1
    MayExpire = FALSE
    MayBreak = TRUE
CHECK_DEADLOCK FALSE
SPECIFICATION FairSpec
PROPERTIES EveryRequestIsAnswered
