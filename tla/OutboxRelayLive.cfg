SPECIFICATION FairSpec
CONSTANTS
  Rows = {1}
  Pods = {p1, p2}
  NoPod = NoPod
  MaxAttempts = 2
  BatchSize = 1
  MaxFaults = 2
PROPERTIES
  EveryRowSettles
  WakeHonoured
