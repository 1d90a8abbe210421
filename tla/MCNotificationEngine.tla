------------------------ MODULE MCNotificationEngine ------------------------
(* Small instances of NotificationEngine for TLC. *)
EXTENDS NotificationEngine, TLC

Interchangeable == Permutations(Keys) \cup Permutations(Integrations)
=============================================================================
