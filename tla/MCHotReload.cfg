CONSTANTS
    p = p  q = q
    Names <- MCNames
    ApiKeys = {1, 2, 3}
    Unbuildable = {3}
    InitialKey = 1
    Bodies <- MCBodies
    MaxEdits = 2
    MaxAdmin = 1
SPECIFICATION FairReloadSpec
INVARIANTS ServedAsRemembered
PROPERTIES FollowsTheFile
