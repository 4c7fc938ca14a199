\* Two tasks that compete for the one seat that is not reserved, and a spare
\* host that takes both seats.
SPECIFICATION Spec
CONSTANTS
    Tasks = {t1, t2, h1}
    Hosts = {h1}
    Exempt = {h1}
    Cost <- MCCost
    Total = 2
    Reserve = 1
    Settlement = 1
    Interval = 1
    MaxAge = 0
    MaxAttempts = 2
    MaxTime = 1
    FaultMixes = {{"restart", "cancel"}, {"restart", "ssh"}, {"ssh", "kill", "requeue"}, {"restart", "requeue", "kill"}, {"query"}}
INVARIANTS LiveIsAccounted SeatsNotOversold
SYMMETRY Symmetry
CHECK_DEADLOCK FALSE
