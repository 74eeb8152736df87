SPECIFICATION Spec
CONSTANTS
  Junk = Junk
  Endpoints = {e1, e2}
  Sockets = {s1, s2, s3}
  Workers = {w1, w2}
  MaxFrames = 2
SYMMETRY Symmetry
INVARIANTS
  TypeOK
  TableConsistent
  TableOwnsSockets
  
  OneLateFrame
PROPERTY ImplementsTable
CHECK_DEADLOCK FALSE
