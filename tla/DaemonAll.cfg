SPECIFICATION LiveSpec
CONSTANTS
  d1 = d1
  d2 = d2
  k1 = k1
  v1 = v1
  s1 = s1
  None = None
  Do = {d1, d2}
  Look = {k1}
  Shot = {v1}
  Stop = {s1}
  Hung = {k1}
  MaxRequests = 3
  MaxSteps = 1
INVARIANTS DaemonOK LearnsOwnUnlessAbandoned 
PROPERTIES StopEnds QueueMoves
CHECK_DEADLOCK FALSE
