\* two dm_compile calls at once, one with defines, then a launch
SPECIFICATION ProvSpec
CONSTANTS
  Builds = {b1, b2}
  BuildKinds = {"dm"}
  Launches = {l1}
  Identities = {i1}
  MaxEvents = 0
  NoRecord = NoRecord
INVARIANT VerifiedBindsInputs
CHECK_DEADLOCK FALSE
