-------------------------- MODULE MCAllocationPool --------------------------
(***************************************************************************)
(* Instances of AllocationPool for TLC: one allocation of one CPU, tasks   *)
(* of one CPU each, and the tick with one thread beside it.                *)
(***************************************************************************)
EXTENDS AllocationPool, TLC

OneCpu == [a \in Allocs |-> 1]
OneCpuEach == [t \in Tasks |-> 1]
Symmetry == Permutations(Tasks)
=============================================================================
