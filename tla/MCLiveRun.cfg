SPECIFICATION Spec
CONSTANTS
  Inventory <- InventoryV
  Selected = "mon0"
  Found <- FoundV
  MaxFaults = 1
  MaxChunks = 1
  PipeRoom = 2
  Window = 2
  Backends = {"core", "direct"}
  MaxInterrupts = 1
CHECK_DEADLOCK FALSE
INVARIANTS
  ConfirmedIsIdle
  CleanExitRestores
  FailureIsolated
  StreamKept
