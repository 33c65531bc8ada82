SPECIFICATION FairSpec
CONSTANTS
  Modes = {"managed", "standalone"}
  MaxSessions = 2
  MaxEvents = 3
  FullDisk = {1}
INVARIANTS ExitsReported
PROPERTIES ExitsEnd
CHECK_DEADLOCK FALSE
