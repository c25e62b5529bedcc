\* Three questions, two at a time, one at the model server; three launches.
SPECIFICATION FairSpec
CONSTANTS
  q1 = q1
  q2 = q2
  q3 = q3
  Items = {q1, q2, q3}
  MaxConcurrency = 2
  VllmLimit = 1
  MaxLaunches = 3
INVARIANTS
  TypeOK
  NoErrorOnDisk
  DoneIsSaved
  SandboxesClosed
PROPERTIES
  AnswerSurvives
  LaunchEnds
CHECK_DEADLOCK FALSE
