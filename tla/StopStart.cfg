SPECIFICATION FairSpec
CONSTANTS
  Workers = {w1, w2}
  LaunchTime = 1
  HandleTime = 2
  Patience = 6
INVARIANTS
  OneWorker
  GoneInTime
PROPERTIES
  StartTakesEffect
  ImplementsPullCycle
