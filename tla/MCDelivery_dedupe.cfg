CONSTANTS
  Payloads <- MCTwo
  Lines = 2
  HandlersFinish = FALSE
  DeadLetterWorks = TRUE
  LinesAtStop = FALSE
  MaxRestarts = 0
  MaxForgets = 0
  MaxCutOffs = 1
  MaxFaults = 0
SPECIFICATION Spec
INVARIANTS SpooledNotLost
CHECK_DEADLOCK FALSE
