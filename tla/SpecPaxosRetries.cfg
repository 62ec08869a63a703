SPECIFICATION Spec
CONSTANTS
  N = 3
  F = 1
  c1 = c1
  c2 = c2
  c3 = c3
  Clients = {c1, c2}
  DVCFudge = 0
  Impatient = {1, c1, c2}
  MaxReqId = 2
  MaxSyncs = 2
  MaxView = 1
VIEW View
SYMMETRY Symmetry
ACTION_CONSTRAINT Changes
CONSTRAINT ComplaintOrRetry
INVARIANTS
  
  NoPanic
  ResultsDurable
PROPERTY ImplementsReplicatedLog
CHECK_DEADLOCK FALSE
