CONSTANTS
  Payloads <- MCThree
  Lines = 2
  HandlersFinish = TRUE
  DeadLetterWorks = TRUE
  LinesAtStop = FALSE
  MaxRestarts = 2
  MaxForgets = 1
  MaxCutOffs = 1
  MaxFaults = 1
SPECIFICATION FairSpec
INVARIANTS TypeOK SpooledNotLost OneCopyPerMemory OldestFirst
PROPERTIES DeliveredInTheEnd
CHECK_DEADLOCK FALSE
