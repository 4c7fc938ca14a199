SPECIFICATION Spec
CONSTANTS
    Allocs = {a1}
    PoolOpened = {a1}
    Closable = {}
    MaxCrashes = 0
PROPERTIES SweepSparesEveryTracked
CHECK_DEADLOCK FALSE
