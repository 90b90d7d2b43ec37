SPECIFICATION Spec
CONSTANTS
  a = a
  b = b
  c = c
  d = d
  e = e
  Null = Null
  NoSummary = NoSummary
  Specs <- AllSpecs
  MaxFaults = 2
  MaxBad = 2
INVARIANTS
  GroupsAreSeparate
  CleanupRuns
  WorkerReturned
  ItemsCovered
  VerdictIsTrue
  RowsAgree
CHECK_DEADLOCK FALSE
