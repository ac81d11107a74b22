SPECIFICATION RecordsSpec
CONSTANTS
  Procs = {p1, p2}
  Sessions = {s1, s2}
  Temporaries = {t1}
  Backups = {b1}
  Faults = {}
  TornWrites = FALSE
  Absent = Absent
  Torn = Torn
  None = None
  Authorized <- OwnRoots
  MaxEvents = 1
  ListLimit = 3
\* files: two writers, of an icon or of a trace with its sidecar
  Writer = {w1, w2}
  Image = image
  Trace = trace
  Sidecar = sidecar
  Earlier = Earlier
  NoOutput = NoOutput
\* evidence: two files, of at most two rows and three bytes
  EvPath = {"f1", "f2"}
  EvContents <- EvidenceFiles
  EvCalls <- EvidenceCalls
  EvPart = {"tick", "game_start", "late", "|"}
  GameStart <- GameStarts
  Bar = "|"
  NoClock = NoClock
  MaxEvArtifacts = 2
  MaxEvRuns = 2
  MaxEvRows = 2
  MaxEvFile = 3
  MaxEvTotal = 3
  MaxEvGroups = 1
  MaxEvChanges = 1
\* output: one waiter, three lines in three pieces, one truncation of the file
  Waiter = {v1}
  Awaited = {2}
  LogCapacity = 2
  LogBytes = 3
  LineBytes = 3
  MaxLines = 3
  MaxPieces = 3
  MaxRewrites = 1
INVARIANT EvidenceSound
INVARIANT AbandonedRecovered
INVARIANT OutputsKept
INVARIANT LogFollowed
PROPERTY VerdictStands
PROPERTY RecoveryEnds
