SPECIFICATION Spec
CONSTANTS
    Tasks = {t1}
    NoTask = NoTask
    Strict = {t1}
    Fea = {t1}
    SameNode = {t1}
    Pinned = {t1}
    Timed = {t1}
    MaxToken = 2
    MaxPressure = 2
    MaxRestarts = 1
INVARIANTS TypeOK NoUnaccountedDuplicate QueuedIsAtRest RunningNamesItsWorker
PROPERTIES RejectedNeverCounts
CHECK_DEADLOCK FALSE
