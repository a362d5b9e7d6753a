\* Properties TLC refutes: exactly one of them is to be active.
SPECIFICATION MCSpec
CONSTANTS
  todo = todo
  doing = doing
  done = done
  Items = {i1}
  StatusIds = {todo, doing, done}
  AnyStatus = AnyStatus
  Transitions <- Chain
  Clients = {c1, c2}
  MaxNumber = 1
  MaxEntries = 3
SYMMETRY Symmetry
CHECK_DEADLOCK FALSE
INVARIANT LogReplays
\* PROPERTY StatusFollowsTransitions
\* PROPERTY ArchivedIsReadOnly
