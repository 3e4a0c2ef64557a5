\* A receiver that builds queries, two processes that send and broadcast.
SPECIFICATION FairSpec
CONSTANTS
  Proc = {1, 2, 3}
  Receiver = 1
  Serving = {1}
  Reacting = {1}
  Groups <- Pairs
  Slots = 2
  Failed = Failed
  MaxQuery = 3
  MaxSent <- TwoAndOne
INVARIANTS
  QueryIsItsSets
  InOrder
  ReactorFinds
PROPERTIES
  ReceiverWakes
CHECK_DEADLOCK FALSE
