SPECIFICATION Spec
CONSTANTS
  N = 3
  F = 1
  c1 = c1
  c2 = c2
  c3 = c3
  r0 = r0
  r1 = r1
  r2 = r2
  Clients = {c1, c2}
  Leader = r0
  Followers = {r1, r2}
  Down = {}
  MaxReqId = 2
  Redelivery = TRUE
  MaxDrops = 0
  MaxTransfers = 1
SYMMETRY Symmetry
CONSTRAINT ConflictOrRetries
INVARIANTS
  TypeOK
  PathsOrdered
  CommitBackedByQuorum
  SlowPathMatches
  RepliesFromLeadersOrder
PROPERTY ImplementsReplicatedLog
CHECK_DEADLOCK FALSE
