CONSTANTS
  MaxSegment = 2
  SyncOnAppend = FALSE
  CkptLossy = FALSE
  MaxAppends = 7
  MaxCrashes = 1
  MaxLosses = 1
  MaxFaults = 0
SPECIFICATION Spec
INVARIANTS TypeOK AckedReplayable ReplayInOrder
PROPERTIES PruneOnlyApplied SyncCoversAcked ImplementsDurableLog
CHECK_DEADLOCK FALSE
