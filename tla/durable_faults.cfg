SPECIFICATION RuntimeSpec
CONSTANTS
  BufferSize = 1
  MaxRetries = 1
  DropStrategies <- Oldest
  Persist = TRUE
  Unserialisable <- NoEntry
  Flushers = {f1}
  Env <- Hostile
  MaxCalls = 3
  MaxCrashes = 1
INVARIANTS
  SingleFlight
  BacklogInOrder
PROPERTY
  FlushTerminates
CHECK_DEADLOCK FALSE
