SPECIFICATION Spec
CONSTANTS
    Tasks = {t1, h1}
    Hosts = {h1}
    Exempt = {h1}
    Cost <- MCCost
    Total = 2
    Reserve = 1
    Settlement = 1
    Interval = 1
    MaxAge = 1
    MaxAttempts = 2
    MaxTime = 2
    FaultMixes = {{"cancel"}}
PROPERTY LaunchedClaimsSettle
CHECK_DEADLOCK FALSE
