CONSTANTS
  h1 = h1
  Scenarios <- Both
  MayKill = TRUE
SPECIFICATION Spec
CHECK_DEADLOCK FALSE
INVARIANTS
  SavepointKeepsLocks
  TicketsAccounted
  AllOrNothing
  LockedTablesProtected
  NoExclusiveLeft
