----------------------------- MODULE MCRelayLoad -----------------------------
(* Instances of the relay task under load.                                  *)
EXTENDS RelayLoad

CONSTANTS d1, d2

AllDue == [d \in Drones |-> MaxPeriod]
==============================================================================
