CONSTANTS
  MaxSegment = 2
  SyncOnAppend = FALSE
  CkptLossy = FALSE
  MaxAppends = 4
  MaxCrashes = 0
  MaxLosses = 0
  MaxFaults = 1
SPECIFICATION Spec
PROPERTIES SyncCoversAcked
CHECK_DEADLOCK FALSE
