CONSTANTS
  MaxRecords = 3
  Updates = {1}
  QueueCap = 2
  BatchSize = 2
  MaxFiles = 2
  DiskFaults = TRUE
  Interrupts = 1
SPECIFICATION LiveSpec
CHECK_DEADLOCK FALSE
INVARIANTS
  DrainedOnClose
  FailureIsCurrent
PROPERTIES
  RefinesSampledLog
  FailureStops
  StopEnds
  LoggingOnlyEnds
