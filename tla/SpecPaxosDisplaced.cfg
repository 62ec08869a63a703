SPECIFICATION Spec
CONSTANTS
  N = 3
  F = 1
  c1 = c1
  c2 = c2
  c3 = c3
  Clients = {c1, c2}
  DVCFudge = 25
  Impatient = {1, 2}
  MaxReqId = 1
  MaxSyncs = 0
  MaxView = 2
VIEW View
SYMMETRY Symmetry
INVARIANTS
  NewLogKeepsCommitted
CHECK_DEADLOCK FALSE
