------------------------ MODULE MCNotificationRelay -------------------------
(* Instances of NotificationRelay for TLC.                                 *)
EXTENDS NotificationRelay, TLC

PodSymmetry == Permutations(Pods)
=============================================================================
