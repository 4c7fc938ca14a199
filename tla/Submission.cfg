\* One opening of the tick beside one of the AEDT pool thread, both of which
\* somebody may close meanwhile.
SPECIFICATION Spec
CONSTANTS
    Allocs = {a1, a2}
    PoolOpened = {a2}
    Closable = {a1, a2}
    MaxCrashes = 1
INVARIANTS TypeOK JobIsDiscoverable UnownedJobIsAccounted
PROPERTIES SweepSparesTracked
CHECK_DEADLOCK FALSE
