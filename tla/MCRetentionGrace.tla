-------------------------- MODULE MCRetentionGrace --------------------------
(* Three plans and two tables.                                             *)
EXTENDS RetentionGrace
============================================================================
