\* Launches, contexts, kills, waits and the stop, two clients over two processes.
SPECIFICATION Spec
CONSTANTS
  c1 = c1
  c2 = c2
  Task = {1, 2}
  Client = {c1, c2}
  NumCpu = 1
  RetCodes <- KillCodes
  Calls = {"launch", "born", "context", "kill", "wait", "timedwait", "ask", "stop"}
  MaxInbox = 0
SYMMETRY ClientSymmetry
INVARIANTS
  OneWorkerPerProcess
  IteratorsValid
  DeadIsDead
  KilledAtNextCheckpoint
  EnoughThreads
PROPERTIES
  KeepsPromise
CHECK_DEADLOCK FALSE
