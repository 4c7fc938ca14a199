SPECIFICATION FairSpec
CONSTANTS
    MaxAlloc = 2
    MaxSession = 2
    MaxWant = 2
    PerNode = 2
    ScaleStep = 1
    Scenarios <- MCScenarios
PROPERTY PoolConverges
