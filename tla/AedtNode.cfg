\* One host, two clients.  Every behaviour meets one of the mixes of faults.
SPECIFICATION FairSpec
CONSTANTS
    Leases = {l1, l2}
    FaultMixes = {{"lost", "desktop"}, {"silence"}, {"stop", "stuck", "start"},
                  {"silent_client"}, {"close", "lost"}, {"killed"}, {"client_dies"}, {"outage", "desktop"}}
INVARIANTS ReleasedIsClosed ReportedIsGone
PROPERTIES HealthySolveSurvives DrainEnds
CHECK_DEADLOCK FALSE
