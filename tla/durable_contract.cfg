SPECIFICATION Spec
CONSTANTS
  BufferSize = 1
  MaxRetries = 1
  DropStrategies <- AnyStrategy
  Persist = FALSE
  Unserialisable <- NoEntry
  Flushers = {f1, f2}
  Env <- InMemory
  MaxCalls = 3
  MaxCrashes = 0
INVARIANT
  FlushEmptiesQueue
PROPERTIES
  KeepsContract
  LogRespectsBufferSize
CHECK_DEADLOCK FALSE
