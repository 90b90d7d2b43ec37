SPECIFICATION FairSpec
CONSTANTS
  Threads = {"stage", "poller"}
  Late = {"poller"}
  Limit = 1
  Wait = 2
  Timeout = 2
  Faults = TRUE
  MaxEvents = 3
INVARIANTS
  LogIsOrdered
  NoneMissed
PROPERTIES
  FollowEnds
CHECK_DEADLOCK FALSE
