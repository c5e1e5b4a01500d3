SPECIFICATION SessionLiveSpec
CONSTANTS
  None = None
  j1 = j1
  j2 = j2
  x = x
  s1 = s1
  s2 = s2
  Cmd <- MCCmd
  Stops = {x}
  Jobs = {j1, j2}
  Want <- MCWant
  Keep = 0
INVARIANTS SessionsOK FaultsNeedRace
PROPERTY CommandEnds
CHECK_DEADLOCK FALSE
