\* Both agents with four turns and up to three claims.
SPECIFICATION FairSpec
CONSTANTS
  MaxClaims = 3
  MaxTurn = 4
INVARIANTS
  TypeOK
  AnswerFromSandbox
PROPERTIES
  StopsAfterSubmission
  EvidenceFrozen
  LoopEnds
