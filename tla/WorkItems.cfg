SPECIFICATION MCSpec
CONSTANTS
  todo = todo
  doing = doing
  done = done
  Items = {i1, i2}
  StatusIds = {todo, doing}
  AnyStatus = AnyStatus
  Transitions <- OneWay
  Clients = {c1, c2}
  MaxNumber = 2
  MaxEntries = 2
SYMMETRY Symmetry
CHECK_DEADLOCK FALSE
INVARIANTS
  KeysUnique
  SequentialLog
PROPERTIES
  SequentialRequests
