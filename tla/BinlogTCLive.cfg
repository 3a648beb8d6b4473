CONSTANTS
  t1 = t1
  t2 = t2
  f1 = f1
  Txn = {t1, t2}
  Empty = {t2}
  Flushers = {f1}
  Failures = {"prepare", "write", "sync"}
  MaxCrashes = 1
  MaxFiles = 2
  None = None
SPECIFICATION FairSpec
PROPERTY CommitReturns
CHECK_DEADLOCK FALSE
