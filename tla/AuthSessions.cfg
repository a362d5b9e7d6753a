SPECIFICATION SessionsSpec
CONSTANTS
  SessionIds = {s1, s2}
  Devices = {c1}
  ResetTokens = {t1, t2}
  MaxPasswords = 2
  ValkeyFails = TRUE
SYMMETRY SessionSymmetry
CHECK_DEADLOCK FALSE
INVARIANTS
  OneLivePerFamily
  DetectedFamiliesStayDead
  ResetEndsLogins
