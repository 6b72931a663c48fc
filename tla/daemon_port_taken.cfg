\* Two daemons are started, on the same port or on a loopback address.
SPECIFICATION Spec
CONSTANTS
  Unset = Unset
  BadFile = BadFile
  Invalid = Invalid
  NoProc = NoProc
  NoReq = NoReq
  NoPort = NoPort
  NotNumbers <- MCNotNumbers
  NotPorts <- MCNotPorts
  Loopback <- MCLoopback
  HostOf <- MCHostOf
  Settings <- MCSettings
  Procs = {p1, p2}
  Reqs = {r1}
  MaxStarts = 2
  MaxFaults = 0
  MaxKills = 0
INVARIANTS
  LoopbackIsServed
PROPERTIES
  IndexNeverShrinks
CHECK_DEADLOCK FALSE
