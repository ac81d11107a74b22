SPECIFICATION ServicesSpec
CONSTANTS
  Procs = {p1, p2}
  Names = {n1, n2}
  Docs = {d1, d2}
  Temporaries = {t1}
  Backups = {b1}
  Faults = {"begin", "write", "set_aside", "install", "sync"}
  TornWrites = FALSE
  Absent = Absent
  Torn = Torn
  None = None
  Caller = {c1, c2}
  IdLimit = 3
  MaxPending = 2
  MaxAbandoned = 1
  WireFaults = {"deadline", "rogue"}
  Nothing = Nothing
  Platforms = {"windows", "unix"}
  Streams = {"stdout"}
  WallLimit = 2
  IdleLimit = 1
  DrainLimit = 1
  ChannelSize = 1
  TailSize = 1
  StreamBytes = 2
  ToolFaults = {"spawn", "assign", "job"}
  OwnerFaults = {"late", "spawn", "kill", "scan", "loss"}
  Stops = {s1, s2}
  Timeouts = {1, 3}
  MaxNow = 3
  HasJob = TRUE
  SupFaults = {"spawn", "terminate", "query", "wait"}
  NoSchedule = NoSchedule
  Windows = {w1, w2}
  MaxAttempts = 2
  MaxWindows = 1
  HelperFaults = {"transient", "fatal", "health", "trace"}
  Subjects = {"store", "wire", "tool", "owner", "supervisor", "helper"}
INVARIANTS NoLitter TransactionIsSnapshot OwnResponse FramesWhole RegistryBounded ProcessesReleased ProducerDrained
PROPERTIES AtomicRecords LockReturned LateResponseTolerated HelperLossReturns ProcessesReturn
CHECK_DEADLOCK FALSE
