SPECIFICATION Spec
CONSTANTS
    b1 = b1
    b2 = b2
    b3 = b3
    b4 = b4
    d1 = d1
    d2 = d2
    p1 = p1
    c1 = c1
    c2 = c2
    c3 = c3
    Bulk <- MCBulk
    Detail <- MCDetail
    Plain <- MCPlain
    Control <- MCControl
    Workers = 3
    MaxRequests = 3
    MaxBulk = 1
    MaxDetail = 1
    RelaySlots = 2
    ChannelSlots = 1
    Nobody = Nobody
    Scenarios <- MCCrowd
INVARIANT NodesAreTakenIn
CHECK_DEADLOCK FALSE
