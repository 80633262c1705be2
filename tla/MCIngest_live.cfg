CONSTANTS
  e1 = e1
  e2 = e2
  e3 = e3
  e4 = e4
  Payloads <- MCThree
  BufferSize = 1
  BatchSize = 2
  StoreSyncs = FALSE
  SyncCovers = FALSE
  MaxCrashes = 1
  MaxLosses = 0
  MaxFaults = 1
SPECIFICATION FairSpec
PROPERTIES AcceptedIsStored StopReturns
CHECK_DEADLOCK FALSE
