SPECIFICATION Spec
CONSTANTS
  out = out
  err = err
  poller = poller
  Feeders = {out, err, poller}
  Pollers = {poller}
  Readers = {poller}
  Snapshot = {}
  Source <- FileAndSession
  Watchers <- StageWatchers
  Texts <- Cuts
  Contents <- Written
  MaxTexts = 3
  MaxCuts = 1
SYMMETRY Streams
INVARIANTS
  FiresOnce
  CompletesInOrder
  NoFlowOverlooked
  BegunIsMissed
  FailureIsTold
CHECK_DEADLOCK FALSE
