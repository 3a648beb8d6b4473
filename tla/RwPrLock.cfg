SPECIFICATION FairSpec
CONSTANTS
  Thread = {t1, t2, t3}
  MaxOps = 2
  None = None
INVARIANTS
  Exclusion
  NoLostWakeup
  DestroySafe
PROPERTY
  WriterServed
CHECK_DEADLOCK FALSE
