SPECIFICATION FairSpec
CONSTANTS
  NR_TASK = 6
  NR_INT_TASK = 1
  NR_SEM = 1
  BootTask = 2
  MaxCount = 1
  CharHalf = 2
  WakeLimit = 1
  SerialVsync = TRUE
  Sends <- MsgSends
  Receives <- MsgReceives
  Starts <- MsgStarts
  Wakes <- Nobody
  Locks <- Nobody
  Resets <- Nobody
  Sleepers <- Nobody
  Quitters <- MsgQuitters
  VblTasks <- Nobody
  VblCallbacks <- Nobody
  Irqs <- Nobody
INVARIANTS
  NoMissedRendezvous
  StartAnswered
PROPERTIES
  MessageFromSender
  
CHECK_DEADLOCK FALSE
