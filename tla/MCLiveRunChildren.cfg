SPECIFICATION Spec
CONSTANTS
  Inventory <- InventoryV
  Selected = "mon0"
  Found <- FoundV
  MaxFaults = 0
  MaxChunks = 1
  PipeRoom = 2
  Window = 2
  Backends = {"direct"}
  MaxInterrupts = 2
CHECK_DEADLOCK FALSE
INVARIANT ChildrenStopFirst
