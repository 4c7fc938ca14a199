SPECIFICATION Spec
CONSTANTS
    Allocs = {a1}
    PoolOpened = {}
    Closable = {a1}
    MaxCrashes = 0
INVARIANTS NoJobLeaks
CHECK_DEADLOCK FALSE
