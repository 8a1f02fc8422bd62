CONSTANTS
  Daemon = {d1, d2, d3}
  MaxInodes = 3
SPECIFICATION BrokerSpec
INVARIANTS
  BrokerTypeOK
  OneServes
  ServingIsReachable
PROPERTIES
  StaleIsReclaimed
  OthersAreNotRemoved
  ServedIfOneServes
CHECK_DEADLOCK FALSE
