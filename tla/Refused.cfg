SPECIFICATION Spec
CONSTANTS
  Junk = Junk
  Endpoints = {e1, e2}
  Sockets = {s1, s2, s3}
  Workers = {w1}
  MaxFrames = 0
INVARIANT RefusedOnlyIfSubscribed
CHECK_DEADLOCK FALSE
