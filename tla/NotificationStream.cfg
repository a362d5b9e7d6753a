SPECIFICATION Spec
CONSTANTS
  Tabs = {t1, t2}
  Connections = 2
  MaxNotifications = 2
  ReplayLimit = 2
  MaxFaults = 1
SYMMETRY Symmetry
CHECK_DEADLOCK FALSE
INVARIANTS
  InStep
  PushesArrive
