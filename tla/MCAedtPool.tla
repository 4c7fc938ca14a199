----------------------------- MODULE MCAedtPool -----------------------------
EXTENDS AedtPool, TLC

OneNode == [s \in Sessions |-> CHOOSE a \in Allocs : TRUE]
OneFamily == [l \in Leases |-> "q"]
Symmetry == Permutations(Leases)
=============================================================================
