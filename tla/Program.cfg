SPECIFICATION FairProgram
CONSTANTS
  MaxSignals = 3
  Numerals = {8090, 70000}
  MaxArgc = 5
INVARIANTS
  
  DeafAfterSignal
PROPERTIES
  SignalEndsLoop
  StartUpEnds
CHECK_DEADLOCK FALSE
