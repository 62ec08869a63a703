SPECIFICATION Spec
CONSTANTS
  N = 3
  F = 1
  c1 = c1
  c2 = c2
  c3 = c3
  Clients = {c1, c2}
  DVCFudge = 25
  Impatient = {0, 1, 2}
  MaxReqId = 1
  MaxSyncs = 1
  MaxView = 2
VIEW View
SYMMETRY Symmetry
ACTION_CONSTRAINT ConflictOrTwoViews
INVARIANTS
  TypeOK
  ResultsDurable
  NoPanic
  NewLogKeepsCommitted
PROPERTIES
  ImplementsReplicatedLog
  LogsAdvance
CHECK_DEADLOCK FALSE
