SPECIFICATION FrameSpec
CONSTANTS
  NR_TASK = 5
  NR_INT_TASK = 3
  NR_SEM = 1
  BootTask = 2
  MaxCount = 1
  CharHalf = 2
  WakeLimit = 1
  SerialVsync = TRUE
  Sends <- Nobody
  Receives <- Nobody
  Starts <- SemStarts
  Wakes <- Nobody
  Locks <- SemLocks2
  Resets <- Nobody
  Sleepers <- Nobody
  Quitters <- Nobody
  VblTasks <- SemVbl
  VblCallbacks <- Nobody
  Irqs <- Nobody
PROPERTIES
  LockGranted
  VblWakes
CHECK_DEADLOCK FALSE
