SPECIFICATION Spec
CONSTANTS
  t1 = t1
  t2 = t2
  t3 = t3
  p1 = p1
  p2 = p2
  a1 = a1
  a2 = a2
  v1 = v1
  v2 = v2
  Threads = {t1, t2}
  Procs = {p1, p2}
  ProcOf <- TwoThreads
  Aliases = {a1}
  Vals = {v1}
  OpsOf <- AllOps
  FlockWorks = TRUE
  DirAtStart = FALSE
  MaxCalls = 1
  MaxCrashes = 1
  MaxFaults = 1
INVARIANTS
  FirstWriteCreatesDirectory
CHECK_DEADLOCK FALSE
