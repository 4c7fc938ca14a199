----------------------------- MODULE MCWebFront -----------------------------
(* WebFront for TLC: what comes and what goes wrong together.                *)
EXTENDS WebFront

CONSTANTS b1, b2, b3, b4, d1, d2, p1, c1, c2, c3

MCBulk == {b1, b2, b3, b4}
MCDetail == {d1, d2}
MCPlain == {p1}
MCControl == {c1, c2, c3}
MCScenarios ==
    {[load |-> {b1, b2, b3, b4, c1}, faults |-> {"hang", "raise"}],
     [load |-> {b1, b2, b3, d1}, faults |-> {"raise", "cancel"}],
     [load |-> {b1, d1, d2, p1, c1}, faults |-> {"hang", "timeout"}],
     [load |-> {b1, b2, p1, c1}, faults |-> {"cancel", "tunnel", "bad"}],
     [load |-> {c1, c2, c3}, faults |-> {"tunnel", "thread"}],
     [load |-> {c1, c2, c3}, faults |-> {"thread", "bad", "timeout"}]}
MCCrowd == {[load |-> {b1, b2, b3, c1}, faults |-> {}]}
=============================================================================
