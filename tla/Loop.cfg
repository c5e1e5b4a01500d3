SPECIFICATION LiveSpec
CONSTANTS
  Record = {1, 2, 3}
  Refill = {4}
  MaxPass = {1, 2, 5}
  BodySteps = 2
INVARIANTS LoopOK
PROPERTY LoopEnds
CHECK_DEADLOCK FALSE
