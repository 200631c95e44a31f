CONSTANTS
    a = a  b = b  r1 = r1  r2 = r2
    Providers <- MCProviders
    Requests <- MCRequests
    Keys = {"k1", "k2"}
    Walk <- MCWalk
    MaxWeight = 2
    Priority <- MCPriority
    OverNum = 1
    OverDen = 2
    Failing <- MCFailing
    MaxChanges = 2
    InitialWeight <- MCInitialWeight
    NoKey = NoKey
    NoProvider = NoProvider
SPECIFICATION FairSpec
INVARIANTS LoadsAreCounted
PROPERTIES PicksAreRecent OnlyNecessaryMoves RingFollowsPool
