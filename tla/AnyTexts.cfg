SPECIFICATION FairSpec
CONSTANTS
  Connections = {c1, c2}
  Words = {"stop", "send"}
  MaxTexts = 2
INVARIANTS
  ExecutedInOrder
PROPERTY EverythingIsRead
CHECK_DEADLOCK FALSE
