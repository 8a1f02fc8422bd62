CONSTANTS
  Origin <- MCOrigin
  MAX_FILE_BYTES = 2
  Undefined = Undefined
  Invalid = Invalid
  FileSize = {1, 2, 3}
  Candidate <- MCCandidate
  Foreign = "elsewhere"
  Unread = Unread
  None = None
  MaxChanges = 2
SPECIFICATION Spec
INVARIANTS
  TypeOK
  DecidedByAPolicyInForce
  AskedWithinBounds
PROPERTY
  AnsweredAndOverwritten
CHECK_DEADLOCK FALSE
