------------------------- MODULE MCControlPlaneRelay -------------------------
(* ControlPlaneRelay for TLC: what goes wrong together.                      *)
EXTENDS ControlPlaneRelay

MCFaultMixes ==
    {{"crash", "config", "race"}, {"crash", "config", "late"}, {"crash", "ssh", "config"},
     {"crash", "relay", "slow"}, {"ssh", "late", "race"}, {"ssh", "outage", "db", "db again"},
     {"listener", "db", "config"}, {"listener", "race"}, {"listener", "ssh"}}
==============================================================================
