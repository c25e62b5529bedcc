\* Three samples of six kinds, two calls at a time, the weights of run_rl.sh in hundredths.
SPECIFICATION Spec
CONSTANTS
  Count = 3
  Kinds <- MCKinds
  Concurrency = 2
  ProcessWeight = 40
  InferWeight = 15
  FinalWeight = 35
  MissingSubmitPenalty <- MCPenalty
  ClipMin <- MCClipMin
  ClipMax = 80
INVARIANTS
  OwnScore
  MissingIsWorst
CHECK_DEADLOCK FALSE
