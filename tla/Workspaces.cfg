\* Properties TLC refutes, each in place of the two below: INVARIANT
\* RedeemedOnce, INVARIANT MembersHaveKeycards, PROPERTY RedeemingActivates.
SPECIFICATION MCSpec
CONSTANTS
  Users = {u1, u2}
  Invitations = {i1, i2, i3}
  Clients = {c1, c2}
SYMMETRY Symmetry
CHECK_DEADLOCK FALSE
INVARIANTS
  RedeemersAreMembers
  SequentialRedeem
