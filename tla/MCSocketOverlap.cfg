CONSTANTS
  Daemon = {d1, d2}
  MaxInodes = 3
SPECIFICATION Spec
INVARIANT AtMostOneServes
CHECK_DEADLOCK FALSE
