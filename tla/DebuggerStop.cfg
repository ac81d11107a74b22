\* One debugger session, its stop, and a launch of dm_run beside it.
SPECIFICATION OwnedSpec
CONSTANTS
  c1 = c1  k1 = k1  d1 = d1
  Subjects = {"debugger"}
  Calls = {c1}
  Keys = {k1}
  Dirs = {d1}
  MaxSessions = 1
  FaultyCalls = 1
  FaultSets = {{}}
  b1 = b1  b2 = b2
  Points = {}
  PointFile <- FileOf
  DebugLaunches = 1
  MaxAsked <- AskedOf
  MaxReports <- ReportsOf
  RingSize = 1
INVARIANT OneRuntime
CHECK_DEADLOCK FALSE
