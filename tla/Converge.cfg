SPECIFICATION ConvergeSpec
CONSTANTS
  NoProc = NoProc
  a = a
  b = b
  c = c
  d = d
  Steps = {1, 2, 3}
  Lost = {3}
  Proc <- MCProc
  First <- MCFirst
  MaxRounds = 3
  RerecordRuns = 2
INVARIANTS ConvergeOK ConvergedMeans StoreAsItWas
PROPERTY NewProcedure
CHECK_DEADLOCK FALSE
