-------------------------- MODULE MCSessionReplay --------------------------
(***************************************************************************)
(* SessionReplay for TLC: a recorder that may stop, navigate and fail a    *)
(* few times, and a backend with two tasks.                                *)
(***************************************************************************)
EXTENDS SessionReplay

CONSTANTS t1, t2
=============================================================================
