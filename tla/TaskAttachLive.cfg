SPECIFICATION FairSpec
CONSTANTS
    Tasks = {t1}
    NoTask = NoTask
    Strict = {}
    Fea = {}
    SameNode = {}
    Pinned = {}
    Timed = {t1}
    MaxToken = 2
    MaxPressure = 1
    MaxRestarts = 1
PROPERTIES AttemptEnds
CHECK_DEADLOCK FALSE
