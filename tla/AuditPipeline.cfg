\* A property TLC refutes, in place of those below: INVARIANT
\* NoDeleteWithoutEntry.
SPECIFICATION FairSpec
CONSTANTS
  MaxReceives = 2
  MaxAttempts = 2
  Foreign = Foreign
  NoMessage = NoMessage
  BatchSize = 2
  Events = {e1}
  MaxCopies = 1
  Consumers = {c1, c2}
  MaxFaults = 2
INVARIANT
  OnlyFailedWritesLose
PROPERTY
  SentEventsAreLogged
