SPECIFICATION SessionsSpec
CONSTANTS
  Request = {r1, r2}
  MaxSessions = 2
  LaunchKinds = {"standard"}
  Faults = {"spawn", "persist"}
  Path = {"code"}
  Gone = Gone
  Content = {"v1", Gone}
  None = None
\* icons: two calls, two files, one entry of the cache
  IconCall = {i1, i2}
  DmiFile = {1, 2}
  DmiContent = {"plain", "wide", "broken"}
  Unsound = {"broken"}
  Demand <- Takes
  Ceiling <- OfOneFile
  Allowance <- OfOneScan
  JobLimits = {1, 2}
  MaxFiles = 1
  CacheEntries = 1
  CacheBytes = 2
  MaxDmiEdits = 1
  NoFile = NoFile
\* two builds of each kind, a launch, and an edit, a restart or a build by others
  Builds = {b1, b2}
  BuildKinds = {"dm", "rift"}
  Launches = {l1}
  Identities = {k1, k2}
  MaxEvents = 1
  NoRecord = NoRecord
SYMMETRY Symmetry
INVARIANT PublishedStatus
INVARIANT NoStrandedWait
INVARIANT AssetsAccounted
INVARIANT VerifiedMeansBuilt
 
