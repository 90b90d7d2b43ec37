SPECIFICATION Spec
CONSTANTS
  r1 = r1
  r2 = r2
  r3 = r3
  w1 = w1
  w2 = w2
  c1 = c1
  c2 = c2
  plain = plain
  gpu = gpu
  NoWorker = NoWorker
  NoRequest = NoRequest
  Required <- MCRequired
  Routing <- MCRequired
  Priority <- MCPriority
  Runs = {r1}
  Workers = {w1}
  Callers = {c1, c2}
  Requests = {plain}
  LabelSets <- NoLabels
  Policies <- Fifo
  Capacities = {2}
  Reported = {"healthy"}
  Overlap = TRUE
  ReuseIds = TRUE
  AnonymousClaims = TRUE
  MaxSubmits = 3
SYMMETRY StoreSymmetry
PROPERTIES
  StatusHasCause
  LeakHasCause
