SPECIFICATION Spec
CONSTANTS
  Heap = 16
  Sector = 2
  Streams <- MCStreams
INVARIANTS
  RingWhole
  HeldIntact
  WalksHeaders
  ReadsIntoFree
PROPERTIES
  IsFifo
  Drains
