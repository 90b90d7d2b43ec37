SPECIFICATION FairSpec
CONSTANTS
  Steps = 3
  Listen <- OneStream
  Prints <- BothStreams
  MaxRetries = 1
  EndsLine = TRUE
INVARIANTS
  EachStepOnce
  AnswersFit
PROPERTIES
  AnsweredFirst
CHECK_DEADLOCK FALSE
