CONSTANTS
    r1 = r1  r2 = r2
    Requests <- MCRequests
    Clients = {"c"}
    Keys = {"k"}
    Models = {"m"}
    Ask <- MCAsk
    Unit = 2
    ClientRate = 1
    ClientBurst = 1
    StaleAfter = 2
    StartLimits <- MCStartLimits
    AdminLimits <- MCAdminLimits
    MaxChanges = 1
SPECIFICATION FairLimitsSpec
PROPERTIES ImplementsTokenBuckets FittingRequestsPass
