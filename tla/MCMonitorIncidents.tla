------------------------- MODULE MCMonitorIncidents -------------------------
(* Small instances of MonitorIncidents for TLC. *)
EXTENDS MonitorIncidents
=============================================================================
