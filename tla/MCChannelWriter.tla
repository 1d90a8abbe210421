--------------------------- MODULE MCChannelWriter ---------------------------
(* Small instances of ChannelWriter for TLC. *)
EXTENDS ChannelWriter

CONSTANTS w1, w2
=============================================================================
