\* Three members, two rounds, on one to three agents; indexes 0 and 1 wait for the group.
SPECIFICATION FairSpec
CONSTANTS
  N = 3
  Rounds = 2
  Waiters = {0, 1}
  Setups <- LocalOrSpread
INVARIANTS
  TakesTheRight
  WaitGroupWaits
PROPERTIES
  IsBarrier
  ProgramEnds
CHECK_DEADLOCK FALSE
