SPECIFICATION Spec
CONSTANTS
  MaxChanges = 1
  MaxRefreshes = 3
PROPERTIES PendingReadsDiscarded
CHECK_DEADLOCK FALSE
