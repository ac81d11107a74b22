SPECIFICATION AnalysisSpec
CONSTANTS
  Request = {r1, r2}
  Source = {dme}
  Config = toml
  Deletable = {dme}
  Settle = 2
  Granularity = 2
  MaxClock = 4
  MaxEdits = 1
  None = None
  Gone = Gone
\* icon states: hues one apart, alphas of 20, five states in a scan
  Opaque = 20
  Threshold = 98
  IconStates <- Pictures
  Members = {1, 2, 3, 4, 5}
  MaxPairs = 4
INVARIANT OneWorker
 
INVARIANT MatchingSound
PROPERTY PublishedInOrder
PROPERTY ParseReturns
CHECK_DEADLOCK FALSE
