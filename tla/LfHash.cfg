SPECIFICATION FairSpec
CONSTANTS
  Threads = 2
  Nodes = 3
  Key = {0, 3, 4}
  Bits = 2
  LF_PURGATORY_SIZE = 2
  Start = {0, 4}
  Programs <- AllPrograms
  MaxOOM = 1
INVARIANTS
  NodesSafe
PROPERTY
  LinearizableSet
  CallReturns
CHECK_DEADLOCK FALSE
