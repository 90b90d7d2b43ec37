SPECIFICATION FairSpec
CONSTANTS
  Threads = {"stage", "poller"}
  Late = {"poller"}
  Limit = 1
  Wait = 2
  Timeout = 2
  Faults = FALSE
  MaxEvents = 3
INVARIANT FollowsToTheEnd
CHECK_DEADLOCK FALSE
