SPECIFICATION Spec
CONSTANTS
  NR_TASK = 5
  NR_INT_TASK = 3
  NR_SEM = 2
  BootTask = 2
  MaxCount = 2
  CharHalf = 2
  WakeLimit = 1
  SerialVsync = TRUE
  Sends <- Nobody
  Receives <- Nobody
  Starts <- SemStarts
  Wakes <- Nobody
  Locks <- SemLocks
  Resets <- Nobody
  Sleepers <- Nobody
  Quitters <- SemQuitters
  VblTasks <- SemVbl
  VblCallbacks <- SemRefuse
  Irqs <- Nobody
INVARIANTS
  UrgentRuns
  SlotOwner
  SemMutex
CHECK_DEADLOCK FALSE
