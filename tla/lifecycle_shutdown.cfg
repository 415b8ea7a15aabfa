SPECIFICATION FairSpec
CONSTANTS
  Callers = {c1, c2}
  Children = {p1, p2}
  Transports = {t1, t2}
  Env <- Throws
INVARIANTS
  OneShutdown
  ChildrenEndFirst
  FlushBeforeClose
  DrainedMeansClosed
PROPERTY
  ShutdownSettles
CHECK_DEADLOCK FALSE
