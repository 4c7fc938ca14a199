\* A cohort of two and a client without reservation, which is given the Desktop
\* while the pipeline of a failed member of the cohort still runs.
SPECIFICATION Spec
CONSTANTS
    Leases = {l1, l2, l3}
    Pinned = {l1, l2}
    Exclusive = {}
    Family <- OneFamily
    Sessions = {s1}
    Allocs = {a1}
    Node <- OneNode
    NoSession = NoSession
    Slots = 2
    Target = 2
    FaultMixes = {{"reserved"}}
INVARIANT EverySolveIsSerial
CHECK_DEADLOCK FALSE
