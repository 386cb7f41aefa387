SPECIFICATION FairSpec
CONSTANTS
  i1 = i1
  i2 = i2
  None = None
  Ids <- MCIds
  Kinds <- AllKinds
  Capacity = 1
  MaxRequests = 2
  MaxEvents = 2
  OutputBreaks = TRUE
INVARIANTS
  CancelIsScoped
  OutputInOrder
  WorkersAreJoined
PROPERTIES
  RequestsAnswered
  ServerExits
