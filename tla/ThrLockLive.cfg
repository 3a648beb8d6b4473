SPECIFICATION FairSpec
CONSTANTS
  Thread = {t1, t2, t3}
  Table = {1, 2}
  WithCheckStatus = {}
  Requests <- Statements
  DelayedTypes = {10, 11}
  upgraded_insert_lock = 11
  max_write_lock_count = 1
  Aborts = {}
INVARIANT
  OldLockIsStronger
PROPERTY
  Served
