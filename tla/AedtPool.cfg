\* Two clients, one Desktop.  Every behaviour meets one of the mixes of circumstances.
SPECIFICATION Spec
CONSTANTS
    Leases = {l1, l2}
    Pinned = {l1, l2}
    Exclusive = {}
    Family <- OneFamily
    Sessions = {s1}
    Allocs = {a1}
    Node <- OneNode
    NoSession = NoSession
    Slots = 2
    Target = 2
    FaultMixes = {{"reserved", "task_ends"}, {"reserved", "operator", "one_slot"}, {"silent_client"}, {"silent_client", "one_slot"}, {"silence", "one_slot"}, {"crash"}, {"suspect", "cleanup"}, {"solver"}, {"native", "cleanup", "one_slot"}, {"storage"}, {"age"}, {"excess"}, {"deadline"}, {"quiet"}, {"switch"}}
INVARIANTS PermitIsCurrent SerialSolve SlotsNotOversold BarrierHolds UnclosedNotReused ClosedIsEmpty
PROPERTIES PermitsAreTurns CohortSealsWhole
SYMMETRY Symmetry
CHECK_DEADLOCK FALSE
