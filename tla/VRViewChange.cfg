SPECIFICATION Spec
CONSTANTS
  N = 3
  F = 1
  c1 = c1
  c2 = c2
  Clients = {c1, c2}
  BatchSize = 1
  Answerable = {}
  Impatient = {1, 2}
  MaxReqId = 1
  MaxOps = 2
  MaxTransfers = 1
  MaxRestarts = 0
  MaxView = 1
VIEW QuietView
SYMMETRY Symmetry
CONSTRAINT TransferOfOne
INVARIANTS
  TypeOK
  CommittedStays
CHECK_DEADLOCK FALSE
