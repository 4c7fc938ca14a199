------------------------------ MODULE MCAedtNode ------------------------------
(* AedtNode for TLC: model values for the leases, and the mixes of faults.   *)
EXTENDS AedtNode
===============================================================================
