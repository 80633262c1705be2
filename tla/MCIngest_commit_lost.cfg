CONSTANTS
  e1 = e1
  e2 = e2
  e3 = e3
  e4 = e4
  Payloads <- MCThree
  BufferSize = 2
  BatchSize = 1
  StoreSyncs = FALSE
  SyncCovers = TRUE
  MaxCrashes = 0
  MaxLosses = 1
  MaxFaults = 0
SPECIFICATION Spec
INVARIANTS AcceptedSurvives
CHECK_DEADLOCK FALSE
