\* Properties TLC refutes: exactly one of them is to be active, the second with
\* HashKeyed = {1} and MaxErrors = 0.
SPECIFICATION NSpec
CONSTANTS
  Rows = {1}
  Pods = {p1}
  NoPod = NoPod
  MaxAttempts = 2
  BatchSize = 2
  MaxFaults = 0
  HashKeyed = {}
  MaxErrors = 1
INVARIANT SentIsAnnounced
\* INVARIANT KeyFlowsThrough
