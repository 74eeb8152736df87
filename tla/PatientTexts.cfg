SPECIFICATION PatientSpec
CONSTANTS
  Connections = {c1, c2}
  Words = {"start", "stop", "send"}
  MaxTexts = 3
INVARIANT AnsweredIsExecuted
CHECK_DEADLOCK FALSE
