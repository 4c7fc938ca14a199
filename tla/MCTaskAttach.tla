---------------------------- MODULE MCTaskAttach ----------------------------
(***************************************************************************)
(* Instances of TaskAttach for TLC.  One task that is everything at once   *)
(* (strict, FEA, same-node, pinned, timed) meets every writer of its row.  *)
(***************************************************************************)
EXTENDS TaskAttach
=============================================================================
