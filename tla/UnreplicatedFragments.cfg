SPECIFICATION Spec
CONSTANTS
  Server = Server
  Clients = {c1, c2}
  NoMessage = NoMessage
  MaxRequests = 2
  MaxFragments = 3
SYMMETRY Symmetry
CONSTRAINT FewRequests
CHECK_DEADLOCK FALSE
INVARIANTS
  FragmentsOfOneMessage
  DeliveredWhole
  AnswersMatch
