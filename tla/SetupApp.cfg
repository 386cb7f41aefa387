SPECIFICATION Spec
CONSTANTS
  o1 = o1
  o2 = o2
  None = None
  Ops <- MCOps
  Scopes <- UserScope
  Installed <- Typical
  MaxCloses = 1
  MaxSpawnFaults = 0
SYMMETRY Symmetry
INVARIANTS
  ViewTellsTruth
  SuccessIsReported
  ReviewIsCurrent
\* The system stops when the window is gone.
CHECK_DEADLOCK FALSE
