\* Two requests of up to two turns, two batches, each for training or for validation.
SPECIFICATION FairSpec
CONSTANTS
  r1 = r1
  r2 = r2
  Requests = {r1, r2}
  MaxTurns = 2
  MaxBatches = 2
INVARIANTS
  TypeOK
  ValidMeansSubmitted
  TrainedByItsEnd
  LastBlockRuns
  RuntimesClosed
PROPERTIES
  BatchEnds
CHECK_DEADLOCK FALSE
