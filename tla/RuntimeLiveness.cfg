SPECIFICATION FairSpec
CONSTANTS
  Request = {r1, r2}
  MaxSessions = 2
  LaunchKinds = {"standard", "tracy"}
  Faults = {"persist"}
  Path = {}
  Gone = Gone
  Content = {Gone}
  None = None
PROPERTY ExitIsReported
PROPERTY DescendantsReleased
PROPERTY EveryRequestReturns
