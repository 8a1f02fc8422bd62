CONSTANTS
  Daemon = {service}
  Service = service
  MaxInodes = 3
SPECIFICATION DeploymentSpec
PROPERTY AcceptedSocketIsFresh
CHECK_DEADLOCK FALSE
