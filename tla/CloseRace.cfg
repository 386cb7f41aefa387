SPECIFICATION Spec
CONSTANTS
  o1 = o1
  o2 = o2
  None = None
  Ops <- OneOp
  Scopes <- SystemScope
  Installed <- Typical
  MaxCloses = 1
  MaxSpawnFaults = 0
INVARIANTS
  ClosePassesNoOperation
\* The system stops when the window is gone.
CHECK_DEADLOCK FALSE
