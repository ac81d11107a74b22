SPECIFICATION Spec
CONSTANTS
  Request = {r1, r2}
  MaxSessions = 1
  LaunchKinds = {"standard"}
  Faults = {"cleanup"}
  Path = {}
  Gone = Gone
  Content = {Gone}
  None = None
SYMMETRY Interchangeable
INVARIANT NoStrandedWait
