SPECIFICATION Spec
CONSTANTS
  NR_TASK = 5
  NR_INT_TASK = 2
  NR_SEM = 1
  BootTask = 2
  MaxCount = 1
  CharHalf = 2
  WakeLimit = 1
  SerialVsync = TRUE
  Sends <- Nobody
  Receives <- IntReceives
  Starts <- IntStarts
  Wakes <- IntWakes
  Locks <- Nobody
  Resets <- IntResets
  Sleepers <- IntSleepers
  Quitters <- IntQuitters
  VblTasks <- IntVbl
  VblCallbacks <- Nobody
  Irqs <- IntIrqs
INVARIANTS
  IInv
CHECK_DEADLOCK FALSE
