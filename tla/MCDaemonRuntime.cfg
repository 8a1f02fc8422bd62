CONSTANTS
  Client = {c1, c2, c3, c4}
  Foreign = {c4}
  MAX_CONCURRENT_CLIENTS = 2
SPECIFICATION Spec
INVARIANTS
  TypeOK
  PermitsAreThreads
PROPERTIES
  EveryClientIsHandled
  EndOfListenerEndsProcess
CHECK_DEADLOCK FALSE
