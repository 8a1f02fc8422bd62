CONSTANTS
  Input = {i1}
  File = {f1}
  NoFile = NoFile
  None = None
  Unmapped = Unmapped
  MaxOps = 1
SPECIFICATION FairSpec
PROPERTY BytesOverwrittenAfterDecision
CHECK_DEADLOCK FALSE
