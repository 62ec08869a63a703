SPECIFICATION Spec
CONSTANTS
  c1 = c1
  c2 = c2
  NoValue = NoValue
  Clients = {c1, c2}
  Keys = {0, 1}
  NShards = 2
  Modes = {"as-built", "vr-l", "spec-occ"}
  Loaded = Loaded
  MaxTxns = 1
  MaxOps = 2
  MaxRollbacks = 1
  MaxAllOps = 4
VIEW View
SYMMETRY Symmetry
CONSTRAINT FewOperations
INVARIANTS
  TypeOK
  Serializable
  AtomicCommit
  UndoRestores
CHECK_DEADLOCK FALSE
