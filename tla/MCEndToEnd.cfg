CONSTANTS
  Origin = {"localhost", "loopback"}
  MAX_FILE_BYTES = 2
  Undefined = Undefined
  Invalid = Invalid
  Input = {i1}
  File = {plain, secret}
  Secret = {secret}
  NoFile = NoFile
  None = None
  Unmapped = Unmapped
  MaxOps = 2
  FileSize = {0, 2}
  SizeOf <- MCSizeOf
  Candidate <- MCCandidate
  Foreign = "elsewhere"
  Unread = Unread
  MaxChanges = 1
SPECIFICATION Spec
INVARIANTS
  SecretStaysOut
  WorkerIsAsSupposed
CHECK_DEADLOCK FALSE
