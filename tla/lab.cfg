\* Two windows, two actions of the user at each.
SPECIFICATION FairSpec
CONSTANTS
  w1 = w1
  w2 = w2
  NoWindow = NoWindow
  Window = {w1, w2}
  MaxPush = 2
INVARIANTS
  OnScreenIsListed
PROPERTIES
  ScriptGetsGui
  
  DestructorReturns
CHECK_DEADLOCK FALSE
