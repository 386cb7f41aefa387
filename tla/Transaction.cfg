SPECIFICATION Spec
CONSTANTS
  f1 = f1
  f2 = f2
  old = old
  new = new
  usr = usr
  None = None
  Torn = Torn
  Closed = Closed
  Files <- MCFiles
  Shas <- MCShas
  Manifests <- Versions
  UserContent <- UserWrites
  MaxFaults = 2
  MaxEdits = 2
INVARIANTS
  JournalSound
  OriginalSurvives
  OwnershipKept
  OutcomeTree
  NothingLeftBehind
  RefusalExplained
PROPERTIES
  BackupsNeverLost
  CommitIsFinal
\* The system may stop: a foreign file in the way of every package makes each
\* further call a refusal, and the user has no changes left to make.
CHECK_DEADLOCK FALSE
