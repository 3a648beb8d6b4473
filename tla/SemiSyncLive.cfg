SPECIFICATION FairSpec
CONSTANTS
  NULL = NULL
  Ulong = 8
  Sessions = {s1, s2}
  Slaves = {d1, d2}
  MaxPos = 2
  Wrap = 9
  WaitNoSlave = {TRUE, FALSE}
  Timeouts = TRUE
  MaxToggles = 0
  MaxDrops = 1
  MaxResets = 0
PROPERTY
  CommitReturns
  SwitchesBackOn
CHECK_DEADLOCK FALSE
