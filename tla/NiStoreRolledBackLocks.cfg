SPECIFICATION Spec
CONSTANTS
  c1 = c1
  c2 = c2
  NoValue = NoValue
  Clients = {c1, c2}
  Keys = {0}
  NShards = 1
  Modes = {"spec-l"}
  Loaded = Loaded
  MaxTxns = 1
  MaxOps = 2
  MaxRollbacks = 1
  MaxAllOps = 4
VIEW View
SYMMETRY Symmetry
CONSTRAINT FewOperations
INVARIANT LocksHeld
CHECK_DEADLOCK FALSE
