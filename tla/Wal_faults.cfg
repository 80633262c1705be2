CONSTANTS
  MaxSegment = 2
  SyncOnAppend = TRUE
  CkptLossy = FALSE
  MaxAppends = 6
  MaxCrashes = 1
  MaxLosses = 0
  MaxFaults = 2
SPECIFICATION Spec
INVARIANT RefusedNotReplayed
PROPERTIES ImplementsDurableLog
CHECK_DEADLOCK FALSE
