--------------------------- MODULE MCBrokerDaemon ---------------------------
(* Instances of BrokerDaemon for TLC. *)
EXTENDS BrokerDaemon

NoFaults   == {}
SafeFaults == {"append", "audit", "busy"}
AllFaults  == {"append", "audit", "busy", "cache"}
=============================================================================
