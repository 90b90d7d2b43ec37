SPECIFICATION DockerFairSpec
CONSTANT
  MaxChunks = 2
INVARIANTS
  ZeroIsAPass
  StartedIsRemoved
  TimeoutHasReason
PROPERTIES
  DockerEnds
CHECK_DEADLOCK FALSE
