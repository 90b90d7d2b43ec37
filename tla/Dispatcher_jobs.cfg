SPECIFICATION FairSpec
CONSTANTS
  j1 = j1
  j2 = j2
  NoJob = NoJob
  Jobs = {j1, j2}
  Plan <- TwoJobs
  MaxWorkers = 2
  MaxRetries = 2
  JobLimit = TRUE
  StageLimit = TRUE
  Watched = TRUE
INVARIANTS
  EveryJobReported
  TimedOutHasCause
  LastRunDecides
PROPERTIES
  KeepsPromise
  Termination
