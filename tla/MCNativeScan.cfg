CONSTANTS
  Byte <- MCByte
  RULES <- MCRULES
  RuleId <- MCRuleId
  NoRule = NoRule
  MAX_FILE_BYTES = 3
  BadBase64 = BadBase64
  None = None
  Pending = Pending
  Protocol <- MCProtocol
  PROTOCOL_VERSION = 1
  File <- MCFile
  ScanId = ScanId
  RAW_CHUNK_BYTES = 2
  SocketFrames = 2
SPECIFICATION Spec
INVARIANTS
  TypeOK
  PipelineIsTheUpload
  LockStep
  EveryFrameIsTaken
PROPERTIES
  PromiseKept
  CleanedUp
CHECK_DEADLOCK FALSE
