\* Properties TLC refutes, each in place of the two below and without the
\* SYMMETRY: INVARIANT CutOffCanLogin, INVARIANT TenantsHaveMembers,
\* PROPERTY LoginPicksMostRecent, PROPERTY PlatformAdminsAreElevated.
SPECIFICATION AccountsSpec
CONSTANTS
  People = {u1, u2}
  PlatformAdmins = {u2}
  Tenants = {home, t1, t2}
  Home = home
  Visitors = {c1, c2}
  MaxCuts = 1
SYMMETRY AccountSymmetry
CHECK_DEADLOCK FALSE
INVARIANTS AdminsAreFounders RegisteredCanLogin
