SPECIFICATION FairSpec
CONSTANTS
  Junk = Junk
  Endpoints = {e1, e2}
  Sockets = {s1, s2}
  Workers = {w1, w2}
  MaxFrames = 1
PROPERTIES
  StopTakesEffect
  HandleReturns
CHECK_DEADLOCK FALSE
