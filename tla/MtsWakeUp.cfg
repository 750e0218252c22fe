SPECIFICATION Spec
CONSTANTS
  NR_TASK = 5
  NR_INT_TASK = 1
  NR_SEM = 1
  BootTask = 2
  MaxCount = 1
  CharHalf = 2
  WakeLimit = 1
  SerialVsync = TRUE
  Sends <- Nobody
  Receives <- UpReceives
  Starts <- UpStarts
  Wakes <- UpWakes
  Locks <- Nobody
  Resets <- Nobody
  Sleepers <- UpSleepers
  Quitters <- Nobody
  VblTasks <- UpVbl
  VblCallbacks <- Nobody
  Irqs <- Nobody
INVARIANTS
  SenderIsKnown
CHECK_DEADLOCK FALSE
