CONSTANTS
  e1 = e1
  e2 = e2
  e3 = e3
  e4 = e4
  Payloads <- MCFour
  BufferSize = 2
  BatchSize = 2
  StoreSyncs = TRUE
  SyncCovers = TRUE
  MaxCrashes = 2
  MaxLosses = 1
  MaxFaults = 1
SPECIFICATION Spec
SYMMETRY Symmetry
INVARIANTS AcceptedSurvives RefusedNeverStored SlotGuaranteed PublishedStored Inv
PROPERTIES CheckpointBehindSync ServesRecovered
CHECK_DEADLOCK FALSE
