CONSTANTS
  Daemon = {service, manual}
  Service = service
  MaxInodes = 2
SPECIFICATION DeploymentSpec
INVARIANTS
  DeploymentTypeOK
  UninstallLeavesNothing
PROPERTIES
  VouchesForFreshSocket
  NothingIsRestarted
  ServiceIsReachable
CHECK_DEADLOCK FALSE
