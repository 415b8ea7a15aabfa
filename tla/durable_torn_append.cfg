SPECIFICATION Spec
CONSTANTS
  BufferSize = 1
  MaxRetries = 1
  DropStrategies <- Oldest
  Persist = TRUE
  Unserialisable <- NoEntry
  Flushers = {f1}
  Env <- Torn
  MaxCalls = 2
  MaxCrashes = 2
INVARIANT
  AtLeastOnce
CHECK_DEADLOCK FALSE
