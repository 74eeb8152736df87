SPECIFICATION FairSpec
CONSTANT MaxSignals = 1
PROPERTY HandledSignalEnds
CHECK_DEADLOCK FALSE
