SPECIFICATION Spec
CONSTANTS
  Request = {r1, r2}
  MaxSessions = 2
  LaunchKinds = {"standard", "tracy"}
  Faults = {}
  Path = {"code"}
  Gone = Gone
  Content = {"v1", Gone}
  None = None
SYMMETRY Interchangeable
PROPERTY TerminalJournalRetained
