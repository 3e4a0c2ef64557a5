\* Connections of peers and to a master, that hold or may be lost.
SPECIFICATION Spec
CONSTANTS
  Setups <- HoldingOrLosing
  Instant = {2}
INVARIANTS
  SlotHasLink
  HelloFindsLink
  OnlyToKnown
  NothingDropped
PROPERTIES
  KeepsOrder
CHECK_DEADLOCK FALSE
