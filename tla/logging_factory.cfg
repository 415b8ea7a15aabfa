SPECIFICATION Spec
CONSTANTS
  Console = Console
  Archive = Archive
  Debug = Debug
  NoSnapshot = NoSnapshot
  Transports <- AllTransports
  Names <- AllNames
  NameOf <- TheirNames
  LevelOf <- TheirLevels
  Configured <- ConfiguredPool
  Routes <- AuditRoute
  DebugTransports <- DebugConsole
  LoggerNames <- ThreeNames
  GlobalLogLevel = "info"
  MaxPoolSize = 2
  CallLevels = {"debug", "error"}
  SetLevels = {"error"}
  Operations <- SomeOperations
  Env <- Shutdown
  MaxLoggers = 4
  MaxOperations = 0
  MaxDepth = 0
INVARIANTS
  PooledLoggersFresh
  RestoredAfterReset
  PoolKeepsRecent
CHECK_DEADLOCK FALSE
