CONSTANTS
  t1 = t1
  t2 = t2
  t3 = t3
  f1 = f1
  Txn = {t1, t2, t3}
  Empty = {}
  Flushers = {f1}
  Failures = {"prepare", "write"}
  MaxCrashes = 2
  MaxFiles = 2
  None = None
SPECIFICATION Spec
INVARIANT LogsConsistent
INVARIANT PrefixCommitted
PROPERTY AtomicCommitSpec
CHECK_DEADLOCK FALSE
SYMMETRY TxnSymmetry
