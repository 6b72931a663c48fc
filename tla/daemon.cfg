\* One daemon, started, stopped and killed in every way its settings allow.
SPECIFICATION FairSpec
CONSTANTS
  Unset = Unset
  BadFile = BadFile
  Invalid = Invalid
  NoProc = NoProc
  NoReq = NoReq
  NoPort = NoPort
  NotNumbers <- MCNotNumbers
  NotPorts <- MCNotPorts
  Loopback <- MCLoopback
  HostOf <- MCHostOf
  Settings <- MCSettings
  Procs = {p1}
  Reqs = {r1, r2}
  MaxStarts = 2
  MaxFaults = 2
  MaxKills = 1
INVARIANTS
  ServesAsTold
  AnsweredIsKept
PROPERTIES
  IndexNeverShrinks
  ExitsWhenTold
  RequestsEnd
CHECK_DEADLOCK FALSE
