SPECIFICATION FairCarefulSpec
CONSTANTS
  Junk = Junk
  Endpoints = {e1, e2}
  Sockets = {s1, s2, s3}
  Workers = {w1, w2}
  MaxFrames = 2
INVARIANTS
  NoAbort
  InOrder
  FrozenWhileBusy
PROPERTY ImplementsFanOut
CHECK_DEADLOCK FALSE
