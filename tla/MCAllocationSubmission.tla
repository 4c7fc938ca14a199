----------------------- MODULE MCAllocationSubmission -----------------------
(***************************************************************************)
(* Instances of AllocationSubmission for TLC: an opening of the tick       *)
(* beside one of the AEDT pool thread, or one opening alone.               *)
(***************************************************************************)
EXTENDS AllocationSubmission
=============================================================================
