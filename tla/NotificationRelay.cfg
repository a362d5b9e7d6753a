SPECIFICATION NSpec
CONSTANTS
  Rows = {1, 2}
  Pods = {p1, p2}
  NoPod = NoPod
  MaxAttempts = 2
  BatchSize = 2
  MaxFaults = 1
  HashKeyed = {}
  MaxErrors = 1
SYMMETRY PodSymmetry
INVARIANT
  InboxThenPush
