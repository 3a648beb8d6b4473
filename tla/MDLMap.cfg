SPECIFICATION FairSpec
CONSTANTS
  Thread = {t1, t2}
  ObjectKey = {k1, k2}
  SchemaKey = {d1}
  StaticKey = {global}
  Addr = {a1, a2, a3}
  CacheSize = 1
  UintMax = 2
  MaxOps = 2
  NULL = NULL
INVARIANTS
  NoUseAfterFree
  RegistryConsistent
  NothingLeaks
PROPERTY
  LookupReturns
CHECK_DEADLOCK FALSE
