SPECIFICATION FairSpec
CONSTANTS
  Threads = {t1, t2}
  Flushers = {f1, f2}
  Workers = {w1, w2}
  Openers = {p1, p2}
  TheLogger = d
  Registry = Registry
  None = None
  QueueSize = 1
  MaxPosts = 1
  Depth = 2
  open_tries_ = 4
  MaxFaults = 1
INVARIANTS FlushersOwned RacesAreSurvived
PROPERTIES  FlushingGoesOn CallsReturn
CHECK_DEADLOCK FALSE
