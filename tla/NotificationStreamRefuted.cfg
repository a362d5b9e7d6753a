\* Properties TLC refutes: exactly one of them is to be active.
SPECIFICATION Spec
CONSTANTS
  Tabs = {t1, t2, t3}
  Connections = 2
  MaxNotifications = 2
  ReplayLimit = 2
  MaxFaults = 1
SYMMETRY Symmetry
CHECK_DEADLOCK FALSE
INVARIANT SharedSubscription
\* INVARIANT SubscribeSucceeds
\* INVARIANT ClosedStreamsLeaveNothing
\* INVARIANT NothingMissedOnReconnect
