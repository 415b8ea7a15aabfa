SPECIFICATION FairSpec
CONSTANTS
  BufferSize = 1
  MaxRetries = 1
  DropStrategies <- Oldest
  Persist = TRUE
  Unserialisable <- FirstEntry
  Flushers = {f1}
  Env <- Calm
  MaxCalls = 3
  MaxCrashes = 1
INVARIANTS
  SpoolCoversBacklog
  AtLeastOnce
  SpoolEmptiesItself
  FlushLeavesNothingPending
PROPERTY
  AcceptedEntriesResolve
CHECK_DEADLOCK FALSE
