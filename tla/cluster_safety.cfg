\* A client on an agent of its own, launches of groups and slaves, a node that may crash.
SPECIFICATION Spec
CONSTANTS
  c1 = c1
  c2 = c2
  Node <- TwoNodes
  Master = 2
  Id = {11, 12}
  Client = {c1}
  At <- OnLast
  NumCpu <- OneCpu
  Filter <- AllJobs
  Tunneled = {}
  Requests <- PairOrSlaves
  Calls = {"kill", "wait", "send", "context"}
  MayLeave = {1}
INVARIANTS
  GroupIsWhole
  TablesAreTrue
  RepliesAreAwaited
  ToldIsDead
  KillArrives
PROPERTIES
  NoNeedlessOverload
CHECK_DEADLOCK FALSE
