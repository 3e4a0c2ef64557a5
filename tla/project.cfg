SPECIFICATION Spec
CONSTANTS
  m1 = m1
  m2 = m2
  m3 = m3
  m4 = m4
  Root = Root
  NoModel = NoModel
  Model = {m1, m2, m3, m4}
  MaxRemove = 3
  MaxCalc = 1
  MaxRename = 1
SYMMETRY Symmetry
INVARIANTS
  MapsAgree
  TreeShowsProject
PROPERTIES
  RemovesOnlyBelow
CHECK_DEADLOCK FALSE
