SPECIFICATION FairSpec
CONSTANTS
  f1 = f1
  f2 = f2
  old = old
  new = new
  usr = usr
  None = None
  Torn = Torn
  Closed = Closed
  Files <- MCFiles
  Shas <- MCShas
  Manifests <- NewDigests
  UserContent <- UserWrites
  MaxFaults = 2
  MaxEdits = 1
PROPERTIES
  ImplementsAtomicInstall
  PendingResolved
\* The system may stop: a foreign file in the way of every package makes each
\* further call a refusal, and the user has no changes left to make.
CHECK_DEADLOCK FALSE
