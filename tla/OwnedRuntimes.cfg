\* Profiling: two requests without faults, one with each fault, over two
\* sessions.  Debugging: two breakpoints in two files, two sessions.
SPECIFICATION OwnedSpec
CONSTANTS
  c1 = c1  c2 = c2  k1 = k1  d1 = d1  d2 = d2
  Subjects = {"tracy", "debugger"}
  Calls = {c1, c2}
  Keys = {k1}
  Dirs = {d1, d2}
  MaxSessions = 2
  FaultyCalls = 1
  FaultSets = {{}, {"cleanup"}, {"write"}, {"deadline"}, {"lost"}, {"edit"}, {"standard"}, {"crash"}}
  b1 = b1  b2 = b2
  Points = {b1, b2}
  PointFile <- FileOf
  DebugLaunches = 2
  MaxAsked <- AskedOf
  MaxReports <- ReportsOf
  RingSize = 1
INVARIANTS  JournalOutlivesProcesses
PROPERTIES PublishedOnce 
INVARIANTS SessionFaithful OwnedOnce
SYMMETRY Symmetry
CHECK_DEADLOCK FALSE
