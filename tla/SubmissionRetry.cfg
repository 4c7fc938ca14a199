SPECIFICATION Spec
CONSTANTS
    Allocs = {a1}
    PoolOpened = {}
    Closable = {}
    MaxCrashes = 0
INVARIANTS FailedIsSafeToRetry
CHECK_DEADLOCK FALSE
