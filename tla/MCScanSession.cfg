CONSTANTS
  Byte <- MCByte
  RULES <- MCRULES
  RuleId <- MCRuleId
  NoRule = NoRule
  Identifier <- MCIdentifier
  ValidIdentifier <- MCValidIdentifier
  MAX_FILE_BYTES = 3
  DeclaredSize <- MCDeclaredSize
  Offset <- MCOffset
  ChunkData <- MCChunkData
  BadBase64 = BadBase64
  Protocol <- MCProtocol
  PROTOCOL_VERSION = 1
  MaxFrames = 6
  None = None
  a = a
  b = b
  invalid = invalid
SYMMETRY MCSymmetry
SPECIFICATION Spec
INVARIANTS
  TypeOK
  VerdictIsAboutTheDeclaredFile
  AnswersFollowRequests
  BufferIsTheUpload
CHECK_DEADLOCK FALSE
