\* A Desktop is quarantined by a failed cleanup; its own native-suspect report
\* lifts the quarantine, and the next heartbeat offers it again.
SPECIFICATION Spec
CONSTANTS
    Leases = {l1, l2}
    Pinned = {}
    Exclusive = {}
    Family <- OneFamily
    Sessions = {s1}
    Allocs = {a1}
    Node <- OneNode
    NoSession = NoSession
    Slots = 2
    Target = 2
    FaultMixes = {{"native", "cleanup"}}
INVARIANT QuarantineOutlivesSuspicion
CHECK_DEADLOCK FALSE
