SPECIFICATION Spec
CONSTANTS
  Rows = {1, 2}
  Pods = {p1, p2}
  NoPod = NoPod
  MaxAttempts = 2
  BatchSize = 2
  MaxFaults = 2
SYMMETRY PodSymmetry
INVARIANTS
  DuplicatesNeedFaults
  PostCommitOnce
PROPERTY
  ContractSpec
