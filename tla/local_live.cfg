\* Three processes that only run, or one that is called, killed and waited for.
SPECIFICATION FairSpec
CONSTANTS
  c1 = c1
  c2 = c2
  Task = {1, 2, 3}
  Client = {c1, c2}
  NumCpu = 1
  RetCodes <- BasicCodes
  Calls = {"launch", "kill", "wait", "send", "stop"}
  MaxInbox = 1
CONSTRAINT OneCase
PROPERTIES
  NoStarvation
  SleeperWakes
  KillEndsProcess
  WaiterReturns
CHECK_DEADLOCK FALSE
