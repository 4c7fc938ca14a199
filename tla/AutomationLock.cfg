SPECIFICATION FairSpec
CONSTANTS
    main = main  closer = closer  probe = probe  other = other
    ih = ih  ip = ip  id = id
    h = h  d = d
    n1 = n1  n2 = n2
    None = None
    Threads = {main, closer, probe, other}
    Instances = {ih, ip, id}
    Processes = {h, d}
    Nodes = {n1, n2}
    InstanceOf <- MCInstanceOf
    ProcessOf <- MCProcessOf
    NodeOf <- MCNodeOf
    MaxDepth = 2
INVARIANTS TypeOK RestIsFree
PROPERTIES OneAtATime SomeoneGetsIn
CHECK_DEADLOCK FALSE
