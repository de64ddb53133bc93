SPECIFICATION IdleSpec
CONSTANTS
  PingEvery = 1
  WatchEvery = 1
  WatchLimit = 3
  LockEvery = 2
  LockAfter = 3
  AskLimit = 3
  Latency = 1
INVARIANT IdleLockDrops
CHECK_DEADLOCK FALSE
