\* Two threads execute on one executor while a third closes it.
SPECIFICATION Spec
CONSTANTS
  e1 = e1
  e2 = e2
  k1 = k1
  k2 = k2
  Executors = {e1, e2}
  Closers = {k1}
  MaxCalls = 2
  MaxWorkers = 4
SYMMETRY Interchangeable
INVARIANTS
  TypeOK
  ResponseIsMine
  OneSandbox
  SnapshotSound
  CloseStopsCode
  NoOrphanBeforeClose
  RaisesOnlyWhenForced
PROPERTIES
  BrokenIsFinal
CHECK_DEADLOCK FALSE
