SPECIFICATION Spec
CONSTANTS
  Request = {r1, r2}
  MaxSessions = 2
  LaunchKinds = {"standard", "tracy"}
  Faults = {"cleanup", "create", "spawn", "persist", "cancel", "deadline"}
  Path = {}
  Gone = Gone
  Content = {Gone}
  None = None
SYMMETRY Interchangeable
INVARIANT OwnershipRetained
INVARIANT FinalizedAfterTermination
PROPERTY ReplacementUndisturbed
