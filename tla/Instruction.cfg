SPECIFICATION LiveSpec
CONSTANTS
  n = n
  Names = {n}
  MaxTurns = 3
  MaxCalls = 2
  MaxActs = 1
INVARIANTS InstructionOK ReportMeans ReportGetsThrough
PROPERTIES StopIsFinal InstructionEnds
CHECK_DEADLOCK FALSE
