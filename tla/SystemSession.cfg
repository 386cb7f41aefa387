SPECIFICATION FairSpec
CONSTANTS
  p = p
  q = q
  None = None
  Platforms <- MCPlatforms
  Packages <- MCPackages
  Reviewed = p
  Fit <- MCFit
  Licensed <- MCLicensed
  MaxEvents = 3
  Room = 2
INVARIANTS ReportIsTrue OnlyTheReviewed
PROPERTIES SessionEnds
CHECK_DEADLOCK FALSE
