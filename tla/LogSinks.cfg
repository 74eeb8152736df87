SPECIFICATION Spec
CONSTANTS
  Threads = {t1, t2}
  None = None
  Names = {"", "x"}
  Loggers = {"d", "a"}
  NameOf <- MCNameOf
  First = "d"
  ConfigLevels = {1, 2}
  Settings = {"plain", "json"}
  Tables <- MCTables
  RegistryThreads = {}
  RegistryFlushers = {}
  Queues = {"k", "j"}
  Items = {"x", "y"}
  MaxSize = 2
  MaxOverrun = 1
  Sinks <- MCSinks
  SinkLevel <- MCSinkLevel
  MaxLevel = 2
  Configured <- MCConfigured
  TraceSize = 1
  MaxCalls = 2
  MaxErrors = 1
  Addresses = 2
  Pieces = 2
  TcpMessages = 3
  MaxSockets = 4
  TcpFaults = 2
  MaxChanges = 3
  Clients = {c1, c2}
  UdpMessages = 2
  UdpFaults = 2
  Children = {"k", "j"}
  ChildLevel <- MCChildLevel
  Orders <- MCOrders
  Payloads = {"", "p"}
  MessageLevels = {1, 2}
  SkippedLevel = 1
  MaxSkip = 1
  MaxTime = 2
  FilterMessages = 4
  FilterFaults = 1
  FileSize = 3
  FileCount = 2
  SizeOf <- MCSizeOf
  FileMessages = 7
  FileFaults = 2
  MaxCrashes = 1
  PeriodParts = 2
  DatedCount = 2
  truncate_ = TRUE
  LastTime = 11
  MaxRestarts = 1
  DatedFaults = 1
  MaxLength = 6
  Streams = {"out", "err"}
  Order <- MCOrder
  Buffered = {"out"}
  Colours = {Red}
  Plain = Plain
  Preset = Blue
  Kinds = {"syslog", "journal", "android", "events"}
  Retries = 2
  SystemMessages = 2
  SystemFaults = 3
  Patterns = {{"+"}, {"Y"}, {"z"}, {"v"}, {"Y", "z"}, {"+", "z"}}
  PerSecond = 2
  Refresh = 3
  ClockStart = 20
  ClockStop = 36
  OffsetChange = 28
  Lag = 2
  MaxBack = 8
  MaxPatterns = 2
  Base = 3
  MaxLen = 8
CONSTRAINT Bounds
INVARIANTS   LinesWhole ClockRight FramesReadBack
PROPERTIES QueueKeepsLast   
CHECK_DEADLOCK FALSE
