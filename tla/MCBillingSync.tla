--------------------------- MODULE MCBillingSync ---------------------------
(* Small instances of BillingSync for TLC. *)
EXTENDS BillingSync, TLC

CONSTANTS h1, h2

Interchangeable == Permutations(Handlers)
=============================================================================
