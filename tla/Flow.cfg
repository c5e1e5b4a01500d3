SPECIFICATION Spec
CONSTANTS
  None = None
  chk = chk
  walk = walk
  look = look
  new = new
  Flow <- MCFlow
  Procs <- MCProcs
  Fresh <- MCFresh
  Length <- MCLength
  Acts <- MCActs
  Detours <- MCDetours
  Stores <- MCStores
  MaxAttempts = 2
INVARIANTS RunnerOK BankedOnce SuccessMeans
PROPERTY NotRestarted
CHECK_DEADLOCK FALSE
