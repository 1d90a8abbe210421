--------------------------- MODULE MCEmailOutbox ---------------------------
(* One recipient of a report and one candidate of the other scans.         *)
EXTENDS EmailOutbox
============================================================================
