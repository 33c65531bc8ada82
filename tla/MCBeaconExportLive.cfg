CONSTANTS
  MaxPackets = 2
  MaxGeneration = 1
  MaxContext = 0
  QueueCap = 2
  Faults = TRUE
SPECIFICATION LiveSpec
CHECK_DEADLOCK FALSE
PROPERTIES
  StopCloses
  CloseCompletes
  OrphanLeaves
