SPECIFICATION FairSpec
CONSTANTS
  t1 = t1
  t2 = t2
  t3 = t3
  p1 = p1
  p2 = p2
  a1 = a1
  a2 = a2
  v1 = v1
  v2 = v2
  Threads = {t1, t2, t3}
  Procs = {p1, p2}
  ProcOf <- TwoProcs
  Aliases = {a1, a2}
  Vals = {v1}
  OpsOf <- SharedOps
  FlockWorks = TRUE
  DirAtStart = FALSE
  MaxCalls = 1
  MaxCrashes = 1
  MaxFaults = 1
INVARIANTS
  TypeOK
  NoLostUpdate
  AliasesUnique
PROPERTIES
  OrderKept
  ImplementsMap
  CallsReturn
CHECK_DEADLOCK FALSE
