CONSTANTS
  Ticks = 2
  Window = 2
  None = None
  ap1 = ap1
  ap2 = ap2
  Shapes <- HeardShapes
  MaxFrames = 4
  MaxTime = 6
  PipeCap = 1
  Readings = {None, 1}
  MaxSurveys = 1
SPECIFICATION Spec
SYMMETRY AccessPoints
CHECK_DEADLOCK FALSE
INVARIANTS
  SamplesExact
  RowsComplete
  ReplayAgrees
  GraphMatchesLog
