SPECIFICATION ClipSpec
CONSTANTS
  Syncs = {y1, y2}
  MaxCopy = 2
  WireCap = 2
  PendCap = 2
  RawMax = 4
  FrameMax = 2
INVARIANTS
  LargePasteKeepsSession
CHECK_DEADLOCK FALSE
