SPECIFICATION Spec
CONSTANTS
  Sector = 2
  Conf = 1
  Far = 6
  Short = 4
  Memory = 16
  Lead = 1
  Layouts <- MCLayouts
INVARIANTS
  LoadsWhole
  EndsWhole
PROPERTIES
  LoadEnds
CHECK_DEADLOCK FALSE
