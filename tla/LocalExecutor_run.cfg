SPECIFICATION FairSpec
CONSTANTS
  MaxLines = 2
  PipeSize = 1
  Children = TRUE
  Raising = TRUE
  Slow = FALSE
INVARIANTS
  CodeIsTrue
  OutputComplete
PROPERTIES
  Ends
CHECK_DEADLOCK FALSE
