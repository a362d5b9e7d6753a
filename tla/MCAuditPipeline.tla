-------------------------- MODULE MCAuditPipeline ---------------------------
(* Instances of AuditPipeline for TLC. Consumers are interchangeable, and  *)
(* so are events.                                                          *)
EXTENDS AuditPipeline, TLC

Symmetry == Permutations(Consumers) \cup Permutations(Events)
=============================================================================
