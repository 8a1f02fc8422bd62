CONSTANTS
  Input = {i1}
  File = {f1, f2}
  NoFile = NoFile
  None = None
  Unmapped = Unmapped
  MaxOps = 2
SPECIFICATION FairSpec
INVARIANTS
  TypeOK
  RegistriesAgree
  OverlayIsCurrent
  SuppressionIsConsumed
PROPERTIES
  GateKept
  EveryOperationDecides
CHECK_DEADLOCK FALSE
