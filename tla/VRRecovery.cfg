SPECIFICATION Spec
CONSTANTS
  N = 3
  F = 1
  c1 = c1
  c2 = c2
  Clients = {c1, c2}
  BatchSize = 2
  Answerable = {c2}
  Impatient = {}
  MaxReqId = 1
  MaxOps = 2
  MaxTransfers = 0
  MaxRestarts = 1
  MaxView = 0
VIEW View
INVARIANTS
  PromisesKept
  ExecutionsAgree
  ViewstampsUnique
CHECK_DEADLOCK FALSE
