SPECIFICATION Spec
CONSTANTS
  t1 = t1
  t2 = t2
  t3 = t3
  p1 = p1
  p2 = p2
  c1 = c1
  c2 = c2
  v1 = v1
  v2 = v2
  z = z
  w = w
  None = None
  NoFile = NoFile
  Threads = {t1, t2}
  Procs = {p1}
  ProcOf <- OneProc
  ChunkIds = {c1, c2}
  Vectors = {v1, v2, z, w}
  ZeroVectors = {z}
  WrongSize = {w}
  Torn = TRUE
  MaxCalls = 2
  MaxKills = 1
INVARIANTS
  FilesAgree
CHECK_DEADLOCK FALSE
