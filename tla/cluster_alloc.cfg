\* A task that no node accepts.
SPECIFICATION Spec
CONSTANTS
  c1 = c1
  c2 = c2
  Node <- TwoNodes
  Master = 2
  Id = {11, 12}
  Client = {c1}
  At <- OnLast
  NumCpu <- OneCpu
  Filter <- NoJobs
  Tunneled = {}
  Requests <- Pair
  Calls = {}
  MayLeave = {}
INVARIANTS
  FallsToRequester
CHECK_DEADLOCK FALSE
