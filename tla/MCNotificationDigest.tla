------------------------ MODULE MCNotificationDigest ------------------------
(* Instances of NotificationDigest for TLC.                                *)
EXTENDS NotificationDigest, TLC

Symmetry == Permutations(Note) \cup Permutations(Session) \cup Permutations(Worker)
=============================================================================
