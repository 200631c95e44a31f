CONSTANTS
    c1 = c1  c2 = c2  e1 = e1  e2 = e2
    Callers <- MCCallers
    Editors <- MCEditors
    Configs <- MCConfigs
    MaxConcurrency <- MCMaxConcurrency
    Buildable = {"one", "unlimited"}
    Ops = {"add", "edit", "remove"}
    Last = 3
CHECK_DEADLOCK FALSE
SPECIFICATION FairSpec
INVARIANTS SlotsAreHeld LimitsFitTheInstance
PROPERTIES WaitersAreServed
