\* The message of line 367 against the workers that are alive.
SPECIFICATION Spec
CONSTANTS
  e1 = e1
  e2 = e2
  k1 = k1
  k2 = k2
  Executors = {e1, e2}
  Closers = {}
  MaxCalls = 2
  MaxWorkers = 2
CHECK_DEADLOCK FALSE
INVARIANT UnavailableMeansStopped
