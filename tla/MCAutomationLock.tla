-------------------------- MODULE MCAutomationLock --------------------------
(* AutomationLock for TLC: a host process h with two threads that share one *)
(* lock object and a probe thread with its own, and a client d on another   *)
(* node, whose record lock the host's flock cannot see.                     *)
EXTENDS AutomationLock, TLC

CONSTANTS main, closer, probe, other, ih, ip, id, h, d, n1, n2

MCInstanceOf == main :> ih @@ closer :> ih @@ probe :> ip @@ other :> id
MCProcessOf == ih :> h @@ ip :> h @@ id :> d
MCNodeOf == h :> n1 @@ d :> n2
=============================================================================
