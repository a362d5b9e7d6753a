------------------------ MODULE MCNotificationStream ------------------------
(* Instances of NotificationStream for TLC. Tabs are interchangeable.      *)
EXTENDS NotificationStream, TLC

Symmetry == Permutations(Tabs)
=============================================================================
