SPECIFICATION FairSpec
CONSTANTS
  o1 = o1
  o2 = o2
  None = None
  Ops <- OneOp
  Scopes <- SystemScope
  Installed <- LegacyOnly
  MaxCloses = 1
  MaxSpawnFaults = 1
INVARIANTS
  OperationIsFollowed
PROPERTIES
  ProgressEnds
  CloseSettles
\* The system stops when the window is gone.
CHECK_DEADLOCK FALSE
