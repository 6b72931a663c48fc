SPECIFICATION Spec
CONSTANTS
  t1 = t1
  t2 = t2
  p1 = p1
  p2 = p2
  a1 = a1
  a2 = a2
  r1 = r1
  r2 = r2
  w1 = w1
  w2 = w2
  x = x
  y = y
  v1 = v1
  v2 = v2
  None = None
  NoEntry = NoEntry
  Threads = {t1, t2}
  Procs = {p1, p2}
  ProcOf <- TwoProcs
  JobsOf <- OneAdder
  Aliases = {a1, a2}
  Roots = {r1, r2}
  Places = {w1}
  PlaceOf <- OnePlace
  Paths = {x, y}
  Bodies = {v1, v2}
  Blind = {v2}
  AtFirst = v1
  Drains = FALSE
  PutFails = TRUE
  MaxJobs = 3
  MaxEdits = 1
  MaxStops = 2
  MaxKills = 1
  MaxFaults = 1
INVARIANTS
  ReindexedIsSearchable
  IndexSurvivesFailure
  RootPathsDistinct
CHECK_DEADLOCK FALSE
