SPECIFICATION FairSpec
CONSTANTS
  c1 = c1
  None = None
  Calls <- OneCall
  Kinds <- AllKinds
  PipeSize = 3
  MaxPending = 2
  ProgressBudget = 1
  ControlBudget = 1
  MaxSpawns = 2
  MaxEvents = 2
  MaxFaults = 1
  MaxLines = 1
  MayClose = TRUE
INVARIANTS
  ChildrenAreReaped
  AnsweredOnce
  ControlEventsArrive
PROPERTIES
  CallsReturn
  CloseReturns
\* The system stops when all calls have returned and the client is closed.
CHECK_DEADLOCK FALSE
