\* Two peers under fairness: the opener sends one message, or the acceptor two.
SPECIFICATION FairSpec
CONSTANTS
  Setups <- OneOrTwo
  Instant = {2}
PROPERTIES
  Delivers
CHECK_DEADLOCK FALSE
