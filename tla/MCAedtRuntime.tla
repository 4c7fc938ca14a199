--------------------------- MODULE MCAedtRuntime ---------------------------
(* AedtRuntime for TLC: what goes wrong together, and for which demand.     *)
EXTENDS AedtRuntime

With(f, d) == [faults |-> f, demand |-> d]
MCScenarios ==
    { With({"hard"}, <<2>>),  With({"relay"}, <<2>>),  With({"host"}, <<2>>),  With({}, <<2, 1>>),
      With({"crash"}, <<1, 0, 1>>),  With({"held"}, <<1>>),
      With({"slow"}, <<1>>),  With({"host", "crash"}, <<1>>),  With({"kill", "hard"}, <<1>>),
      With({"quota", "crash"}, <<1>>),  With({"attach", "relay"}, <<1>>) }
=============================================================================
