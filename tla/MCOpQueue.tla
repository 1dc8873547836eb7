----------------------------- MODULE MCOpQueue -----------------------------
(***************************************************************************)
(* Values of OpQueue's constants for TLC: turning a scanner or advertiser  *)
(* on and off, changing what it does while it is on, and resetting it.     *)
(***************************************************************************)
EXTENDS OpQueue

Targets == [enable |-> {"on"}, disable |-> {"off"}, change |-> {"changed"}, reset |-> {"off"}]
From    == [enable  |-> {"off"}, disable |-> {"on", "changed"},
            change  |-> {"on"},  reset   |-> {"off", "on", "changed"}]
OpNames == DOMAIN Targets
=============================================================================
