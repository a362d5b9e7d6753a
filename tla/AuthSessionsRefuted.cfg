\* Properties TLC refutes: exactly one of them is to be active. The last three
\* need two devices, Devices = {c1, c2}; the last of all also ResetTokens = {}
\* and MaxPasswords = 0.
SPECIFICATION SessionsSpec
CONSTANTS
  SessionIds = {s1, s2, s3}
  Devices = {c1}
  ResetTokens = {t1}
  MaxPasswords = 2
  ValkeyFails = FALSE
SYMMETRY SessionSymmetry
CHECK_DEADLOCK FALSE
INVARIANT ResetEndsSessions
\* INVARIANT MethodPreserved
\* INVARIANT OnlyRememberedAreLong
\* INVARIANT ResetEndsLogins
\* INVARIANT TokensUsedOnce
\* INVARIANT OneLivePerFamily
