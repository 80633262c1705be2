CONSTANTS
  MaxSegment = 2
  SyncOnAppend = FALSE
  CkptLossy = TRUE
  MaxAppends = 6
  MaxCrashes = 0
  MaxLosses = 1
  MaxFaults = 0
SPECIFICATION Spec
PROPERTIES PruneOnlyApplied
CHECK_DEADLOCK FALSE
