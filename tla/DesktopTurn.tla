---------------------------- MODULE DesktopTurn -----------------------------
(***************************************************************************)
(* What the solve permit promises: a Desktop is a resource with one turn.  *)
(* A turn is taken only while the Desktop is free and ends before the next *)
(* one begins; it is never handed over or shared.  Several Desktops may    *)
(* move in one step, because one transaction of the pool service may end   *)
(* the leases of several of them.                                          *)
(***************************************************************************)
CONSTANTS Leases, Sessions

VARIABLE turn           \* turn[s]: whose native pipeline s may be running

Free(s) == turn[s] = {}

Take(s) == Free(s) /\ \E l \in Leases : turn'[s] = {l}
Leave(s) == ~Free(s) /\ turn'[s] = {}
Keep(s) == turn'[s] = turn[s]

Init == turn = [s \in Sessions |-> {}]

Next == \A s \in Sessions : Take(s) \/ Leave(s) \/ Keep(s)

Spec == Init /\ [][Next]_turn
=============================================================================
