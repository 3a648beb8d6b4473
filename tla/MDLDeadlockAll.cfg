SPECIFICATION DSpec
CONSTANTS
  Ctx = {c1, c2, c3}
  t1 = t1
  t2 = t2
  ObjectKey = {t1, t2}
  ScopedKey = {}
  GlobalKey = {}
  Slot = {1, 2}
  Requests <- AlterAndDrop
  DowngradeTypes = {"SNRW"}
  AbortStatus = {"KILLED"}
  MaxWriteLockCount = 1
  MaxSearchDepth = 4
  MaxRequests = 5
  NULL = NULL
INVARIANTS
  TypeOK
  GrantedCompatible
  SlotMatchesQueue
  NoOrphanTicket
  NoForgottenWaiter
  QueuesConsistent
  PathIsReal
  NoMissedDeadlock
PROPERTY
  Spec
SYMMETRY Symmetry
CHECK_DEADLOCK FALSE
