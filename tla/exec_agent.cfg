\* The agents' use: one thread executes, and close() is called by two others (aclose of the
\* runner while the cancelled aexecute thread still runs, and a second caller).
SPECIFICATION Spec
CONSTANTS
  e1 = e1
  e2 = e2
  k1 = k1
  k2 = k2
  Executors = {e1}
  Closers = {k1, k2}
  MaxCalls = 3
  MaxWorkers = 3
SYMMETRY Interchangeable
PROPERTIES
  ImplementsSandbox
CHECK_DEADLOCK FALSE
