SPECIFICATION FairSpec
CONSTANTS
  N = 3
  F = 1
  c1 = c1
  c2 = c2
  c3 = c3
  r0 = r0
  r1 = r1
  r2 = r2
  Clients = {c1}
  Leader = r0
  Followers = {r1, r2}
  Down = {r2}
  MaxReqId = 2
  Redelivery = FALSE
  MaxDrops = 2
  MaxTransfers = 1
INVARIANT IInv
PROPERTY ClientsAnswered
CHECK_DEADLOCK FALSE
