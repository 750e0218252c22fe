SPECIFICATION FairSpec
CONSTANTS
  MaxUnits = 6
  Objects = {"a", "b", "c"}
  Prims = {"p"}
  Works = {"w"}
  Size <- MCSize
  PackSize = 3
  NormalSize = 2
  FreeCount = 2
  MaxUndraw = 2
  Views <- MCViews
  Scenes <- MCScenes
INVARIANTS
  HeapWhole
  PointersRight
  GpuIntact
PROPERTIES
  GetsPackets
