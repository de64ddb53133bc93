SPECIFICATION Spec
CONSTANTS
  Syncs = {y1, y2}
  MaxCopy = 2
  WireCap = 2
  PendCap = 2
  RawMax = 4
  FrameMax = 2
  Peers = {p, q}
  Ins = {s1, s2}
  Outs = {o1, o2}
  Closers = {"command", "tray"}
  ShakeCap = 1
  Calls = {d1}
  Loops = {r1, r2}
  Rounds = 2
  PingEvery = 1
  WatchEvery = 1
  WatchLimit = 3
  LockEvery = 2
  LockAfter = 3
  AskLimit = 3
  Latency = 1
  MacTakers = {"edge"}
  MacReleasers = {"network"}
  Taps = {c1, c2}
  TapFaults = {"denied", "policy"}
  MacHideCap = 2
  Writers = {t1, t2}
  Devices = {d}
  Ids = {i1}
  AuditCap = 1
  Grace = 2
SYMMETRY LoopSymmetry
INVARIANTS
  TasksTypeOK
  ExclusiveUntilStolen
  RateSlotsBalance
  MacCursorBack
  LoopsStoppable
  SilenceIsNotIdleness
  OneLoopHeld
  LossIsRetried
  ConnectedHasSession
  SettingsSettle
  ClipSettles
PROPERTIES
  InboundNeverSteals
  DisconnectSticks
  RefinesAtomic
CHECK_DEADLOCK FALSE
