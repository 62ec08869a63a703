SPECIFICATION Spec
CONSTANTS
  N = 3
  F = 1
  c1 = c1
  c2 = c2
  Clients = {c1, c2}
  BatchSize = 2
  Impatient = {1, 2}
  MaxReqId = 1
  MaxOps = 2
  MaxAcks = 3
  MaxTransfers = 1
  MaxRestarts = 1
  MaxView = 2
VIEW View
SYMMETRY Symmetry
CONSTRAINT Bounded
ACTION_CONSTRAINTS
  Changes
  AsksWithoutStaleEntries
INVARIANTS
  TypeOK
  
  CleanedIsCommitted
  CommittedStays
  ExecutionsAgree
CHECK_DEADLOCK FALSE
