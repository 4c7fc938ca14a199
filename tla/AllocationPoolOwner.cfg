SPECIFICATION Spec
CONSTANTS
    Allocs = {a1}
    NoAlloc = NoAlloc
    Tasks = {t1}
    NoTask = NoTask
    Procs = {tick, web}
    NoProc = NoProc
    Tick = tick
    SameNode = {}
    Fea = {}
    Total <- OneCpu
    Demand <- OneCpuEach
    MaxCrashes = 0
PROPERTIES ClosedGetsNoOwner
CHECK_DEADLOCK FALSE
