SPECIFICATION DFairSpec
CONSTANTS
  Ctx = {c1, c2, c3}
  t1 = t1
  t2 = t2
  ObjectKey = {t1, t2}
  ScopedKey = {}
  GlobalKey = {}
  Slot = {1, 2}
  Requests <- TwoDrops
  DowngradeTypes = {}
  AbortStatus = {}
  MaxWriteLockCount = 4
  MaxSearchDepth = 4
  MaxRequests = 5
  NULL = NULL
PROPERTY
  RequestAnswered
CHECK_DEADLOCK FALSE
