------------------------- MODULE MCVisitorIdentity -------------------------
(* Small instances of VisitorIdentity for TLC. *)
EXTENDS VisitorIdentity, TLC

CONSTANTS r1, r2

Interchangeable == Permutations(Requests)
=============================================================================
