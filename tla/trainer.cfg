\* Two prompts a batch with two rollouts each, two groups an update, two passes of two batches,
\* a checkpoint every second step and for every better validation, two of them kept.
SPECIFICATION Spec
CONSTANTS
  GenBatch = 2
  TrainBatch = 2
  N = 2
  MaxGen = 3
  PassLen = 2
  Epochs = 2
  SaveFreq = 2
  TestFreq = 1
  Keep = 2
  InfoKeys <- DapoInfo
  MaxLaunches = 3
INVARIANTS
  TypeOK
  GroupsWhole
  TrackedIsComplete
  NothingTwice
CHECK_DEADLOCK FALSE
