\* The reward manager of run_rl.sh: its extra info has no accuracy.
SPECIFICATION Spec
CONSTANTS
  GenBatch = 2
  TrainBatch = 2
  N = 2
  MaxGen = 3
  PassLen = 2
  Epochs = 2
  SaveFreq = 2
  TestFreq = 1
  Keep = 2
  InfoKeys <- VerigraphInfo
  MaxLaunches = 3
CHECK_DEADLOCK FALSE
INVARIANT
  ValidationReturns
