SPECIFICATION Spec
CONSTANTS
    Tasks = {t1}
    NoTask = NoTask
    Strict = {t1}
    Fea = {}
    SameNode = {}
    Pinned = {}
    Timed = {}
    MaxToken = 2
    MaxPressure = 2
    MaxRestarts = 0
PROPERTIES StrictReleaseAfterKill
CHECK_DEADLOCK FALSE
