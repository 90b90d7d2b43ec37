SPECIFICATION Spec
CONSTANTS
  r1 = r1
  r2 = r2
  r3 = r3
  w1 = w1
  w2 = w2
  c1 = c1
  c2 = c2
  plain = plain
  gpu = gpu
  NoWorker = NoWorker
  NoRequest = NoRequest
  Required <- MCRequired
  Routing <- MCRequired
  Priority <- MCPriority
  Runs = {r1, r2, r3}
  Workers = {w1}
  Callers = {c1}
  Requests = {plain}
  LabelSets <- NoLabels
  Policies <- Fifo
  Capacities = {1}
  Reported = {"healthy"}
  Overlap = FALSE
  ReuseIds = FALSE
  AnonymousClaims = FALSE
  MaxSubmits = 3
SYMMETRY StoreSymmetry
INVARIANT
  LeasesWithinCapacity
