---------------------------- MODULE DesktopLock ----------------------------
(* What SessionAutomationLock promises its callers: at any time at most    *)
(* one thread of the cluster is inside the native automation of one        *)
(* Desktop, and a thread leaves when it releases the lock or dies.         *)
CONSTANT Threads
VARIABLE inside

Init == inside = {}

Enter(t) == inside = {} /\ inside' = {t}
Leave(t) == t \in inside /\ inside' = inside \ {t}

Next == \E t \in Threads : Enter(t) \/ Leave(t)

Spec == Init /\ [][Next]_inside
============================================================================
