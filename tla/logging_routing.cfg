SPECIFICATION Spec
CONSTANTS
  Console = Console
  Archive = Archive
  Debug = Debug
  NoSnapshot = NoSnapshot
  Transports <- AllTransports
  Names <- AllNames
  NameOf <- TheirNames
  LevelOf <- TheirLevels
  Configured <- ConfiguredPool
  Routes <- OneRoute
  DebugTransports <- NoTransport
  LoggerNames <- OneName
  GlobalLogLevel = "info"
  MaxPoolSize = 1
  CallLevels = {"debug", "info"}
  SetLevels = {}
  Operations <- AllOperations
  Env <- Faults
  MaxLoggers = 2
  MaxOperations = 2
  MaxDepth = 2
INVARIANTS
  RoutedAsAsked
  FailureIsTold
CHECK_DEADLOCK FALSE
