SPECIFICATION Spec
CONSTANTS
    Tasks = {t1}
    NoTask = NoTask
    Strict = {}
    Fea = {t1}
    SameNode = {}
    Pinned = {}
    Timed = {t1}
    MaxToken = 2
    MaxPressure = 2
    MaxRestarts = 0
PROPERTIES TimeoutHitsItsOwnAttempt
CHECK_DEADLOCK FALSE
