SPECIFICATION Spec
CONSTANTS
  Thread = {t1, t2, t3}
  Table = {1}
  WithCheckStatus = {1}
  Requests <- AllTypes
  DelayedTypes = {10, 11}
  upgraded_insert_lock = 11
  max_write_lock_count = 1
  Aborts = {"kill", "timeout", "ddl"}
SYMMETRY Symmetry
INVARIANTS
  Exclusion
  NoForgottenWaiter
  ListsConsistent
