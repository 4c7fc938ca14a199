SPECIFICATION Spec
CONSTANTS
    Leases = {l1, l2}
    Pinned = {l1, l2}
    Exclusive = {}
    Family <- OneFamily
    Sessions = {s1}
    Allocs = {a1}
    Node <- OneNode
    NoSession = NoSession
    Slots = 2
    Target = 2
    FaultMixes = {{"reserved"}}
INVARIANT ReleaseIsTwoPhase
CHECK_DEADLOCK FALSE
