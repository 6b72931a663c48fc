SPECIFICATION FairSpec
CONSTANTS
  t1 = t1
  t2 = t2
  t3 = t3
  p1 = p1
  p2 = p2
  a1 = a1
  a2 = a2
  ghost = ghost
  r1 = r1
  r2 = r2
  top = top
  sub = sub
  pa = pa
  pb = pb
  pt = pt
  NoRoot = NoRoot
  Missing = Missing
  Blank = Blank
  Garbled = Garbled
  Old = Old
  Threads = {t1, t2}
  Procs = {p1}
  ProcOf <- OneProc
  Serves <- ServesAll
  Aliases = {a1, ghost}
  Roots = {r1}
  RootOf <- OwnRoot
  Dirs = {top, sub}
  Paths = {pa, pb}
  DirOf <- TreeDir
  Under <- TreeUnder
  Listed = {pa, pb}
  Existing = {pb}
  MayBeBig <- NoneBig
  LogCap = 1
  Tearing = {"filldoc", "fillindex"}
  MaxCalls = 2
  MaxCrashes = 1
  MaxFaults = 1
INVARIANTS
  TypeOK
  IndexFresh
  AckedLogged
PROPERTIES
  ImplementsLedger
  WritesReturn
CHECK_DEADLOCK FALSE
