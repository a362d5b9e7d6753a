--------------------------- MODULE MCOutboxRelay ----------------------------
(* Instances of OutboxRelay for TLC: pods are interchangeable, rows are    *)
(* not (their number is the fetch order).                                  *)
EXTENDS OutboxRelay, TLC

PodSymmetry == Permutations(Pods)
=============================================================================
