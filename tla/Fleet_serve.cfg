SPECIFICATION FairSpec
CONSTANTS
  r1 = r1
  w1 = w1
  w2 = w2
  NoRun = NoRun
  NoWorker = NoWorker
  Runs = {r1}
  Workers = {w1, w2}
  Remote = {w1}
  Faults = {"refused", "timeout", "raises", "slow", "killed", "stale"}
  MaxLives = 2
  MaxFaults = 1
INVARIANTS
  OneExecutor
  OrphanHasCause
  ChargeHasCause
  OutcomeShows
PROPERTIES
  RunsSettle
CHECK_DEADLOCK FALSE
