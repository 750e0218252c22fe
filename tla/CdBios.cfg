\* Two requests of any kind on a disk of three sectors, one fault; every second retry
\* seeks back.
CONSTANTS
  Last = 3
  Length <- MCLength
  RetryBack = 1
  RetryCycle = 2
  MaxRequests = 2
  MaxFaults = 1
SPECIFICATION FairSpec
INVARIANTS
  DeliversRight
  IdleIsQuiet
PROPERTIES
  IsReader
  Completes
  StreamEnds
CHECK_DEADLOCK FALSE
