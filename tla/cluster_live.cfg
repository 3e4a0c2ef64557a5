\* Every call, with an agent that is reached through the master, under fairness.
SPECIFICATION FairSpec
CONSTANTS
  c1 = c1
  c2 = c2
  Node <- TwoNodes
  Master = 2
  Id = {11, 12}
  Client = {c1}
  At <- OnFirst
  NumCpu <- OneCpu
  Filter <- AllJobs
  Tunneled = {3}
  Requests <- PairOrPlaced
  Calls = {"wait", "alive", "find", "size"}
  MayLeave = {}
PROPERTIES
  CallsReturn
  DeadAreForgotten
  FindIsComplete
CHECK_DEADLOCK FALSE
