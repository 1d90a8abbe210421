-------------------------- MODULE MCEventInserter --------------------------
(* Small instances of EventInserter for TLC. *)
EXTENDS EventInserter

CONSTANTS e1, e2, e4
=============================================================================
