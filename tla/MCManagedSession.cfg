CONSTANTS
  Sessions = {s1, s2}
  NoSession = NoSession
  PipeCap = 1
  Faults = TRUE
SYMMETRY SessionSymmetry
SPECIFICATION Spec
INVARIANTS
  TypeOK
  RadioExclusive
  TerminalAfterRelease
  StoppedIsGenuine
PROPERTIES
  StopReachesNamed
  RefinesLifecycle
