\* A daemon told, as documented, to bind to every interface.
SPECIFICATION Spec
CONSTANTS
  Unset = Unset
  BadFile = BadFile
  Invalid = Invalid
  NoProc = NoProc
  NoReq = NoReq
  NoPort = NoPort
  NotNumbers <- MCNotNumbers
  NotPorts <- MCNotPorts
  Loopback <- MCLoopback
  HostOf <- MCHostOf
  Settings <- BindFlag
  Procs = {p1}
  Reqs = {r1, r2}
  MaxStarts = 2
  MaxFaults = 2
  MaxKills = 1
INVARIANTS
  BindIsServed
CHECK_DEADLOCK FALSE
