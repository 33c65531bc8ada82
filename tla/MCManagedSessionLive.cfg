CONSTANTS
  Sessions = {s1}
  NoSession = NoSession
  PipeCap = 1
  Faults = TRUE
SPECIFICATION LiveSpec
PROPERTIES
  StopCompletes
  OrphanExits
