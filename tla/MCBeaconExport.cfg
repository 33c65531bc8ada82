CONSTANTS
  MaxPackets = 2
  MaxGeneration = 2
  MaxContext = 1
  QueueCap = 2
  Faults = TRUE
SPECIFICATION Spec
CHECK_DEADLOCK FALSE
INVARIANTS
  TypeOK
  Accounted
  PendingExact
  SegmentsPure
  FinalStatus
