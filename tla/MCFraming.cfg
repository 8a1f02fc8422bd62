CONSTANTS
  Payload <- MCPayload
  MAX_FRAME_BYTES = 2
  Base = 2
  LengthBytes = 2
  Room = 3
  MaxFrames = 3
SPECIFICATION Spec
INVARIANT
  TypeOK
PROPERTIES
  FramesKept
  FramesFlow
CHECK_DEADLOCK FALSE
