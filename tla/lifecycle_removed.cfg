SPECIFICATION Spec
CONSTANTS
  t1 = t1
  t2 = t2
  p1 = p1
  p2 = p2
  a1 = a1
  a2 = a2
  r1 = r1
  r2 = r2
  w1 = w1
  w2 = w2
  x = x
  y = y
  v1 = v1
  v2 = v2
  None = None
  NoEntry = NoEntry
  Threads = {t1, t2}
  Procs = {p1}
  ProcOf <- OneProc
  JobsOf <- Removals
  Aliases = {a1, a2}
  Roots = {r1, r2}
  Places = {w1, w2}
  PlaceOf <- TwoPlaces
  Paths = {x, y}
  Bodies = {v1, v2}
  Blind = {}
  AtFirst = v1
  Drains = TRUE
  PutFails = FALSE
  MaxJobs = 5
  MaxEdits = 2
  MaxStops = 2
  MaxKills = 0
  MaxFaults = 0
INVARIANTS
  SearchesRegistered
  NoGhostChunks
  RegistryCoversStore
  LatestIndexKept
PROPERTIES
  RemovedStaysRemoved
CHECK_DEADLOCK FALSE
