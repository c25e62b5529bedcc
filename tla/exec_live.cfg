\* Every call comes back: with a time limit by itself, without one once close() is called.
SPECIFICATION FairSpec
CONSTANTS
  e1 = e1
  e2 = e2
  k1 = k1
  k2 = k2
  Executors = {e1, e2}
  Closers = {k1}
  MaxCalls = 1
  MaxWorkers = 2
PROPERTIES
  CloseReturns
  CloseUnblocks
  ExecuteReturns
CHECK_DEADLOCK FALSE
