\* The same openings; nobody closes the one of the tick.
SPECIFICATION FairSpec
CONSTANTS
    Allocs = {a1, a2}
    PoolOpened = {a2}
    Closable = {a2}
    MaxCrashes = 1
PROPERTIES ClaimSettles
CHECK_DEADLOCK FALSE
