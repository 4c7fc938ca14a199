SPECIFICATION FairSpec
CONSTANTS
    Procs = {p1, p2, p3}
    None = None
    ProbeThreshold = 2
    TunnelChecks = 2
    ListenThreshold = 2
    MaxGen = 2
    FaultMixes <- MCFaultMixes
PROPERTIES UpIsOurs OthersAreSpared UrlIsWithdrawn RelayComesUp
