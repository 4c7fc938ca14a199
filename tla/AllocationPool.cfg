SPECIFICATION FairSpec
CONSTANTS
    Allocs = {a1}
    NoAlloc = NoAlloc
    Tasks = {t1}
    NoTask = NoTask
    Procs = {tick, web}
    NoProc = NoProc
    Tick = tick
    SameNode = {}
    Fea = {}
    Total <- OneCpu
    Demand <- OneCpuEach
    MaxCrashes = 1
INVARIANT ScancelSparesClaims
PROPERTIES ClosingSettles DeadJobIsReleased
CHECK_DEADLOCK FALSE
