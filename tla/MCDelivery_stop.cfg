CONSTANTS
  Payloads <- MCTwo
  Lines = 2
  HandlersFinish = TRUE
  DeadLetterWorks = TRUE
  LinesAtStop = TRUE
  MaxRestarts = 1
  MaxForgets = 0
  MaxCutOffs = 0
  MaxFaults = 0
SPECIFICATION Spec
INVARIANTS SpooledNotLost
CHECK_DEADLOCK FALSE
