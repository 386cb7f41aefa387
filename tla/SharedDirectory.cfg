SPECIFICATION Spec
CONSTANTS
  p1 = p1
  p2 = p2
  app = app
  tool = tool
  dir = dir
  main = main
  lib = lib
  content1 = content1
  content2 = content2
  key1 = key1
  key2 = key2
  None = None
  Legacy = Legacy
  Unsigned = Unsigned
  Keys = {key1, key2}
  Files = {main, lib}
  Contents = {content1, content2}
  Directories = {dir}
  Processes <- MCProcesses
  Packages = {app, tool}
  Publications <- MCPublications
  Agreements <- MCAgreements
  Archives <- SharedArchives
  Approvals <- NoApproval
  Installed <- OnlyNothing
  UserActs = FALSE
  MaxFaults = 1
SYMMETRY Symmetry
PROPERTIES
  RemovalIsReceiptOwned
