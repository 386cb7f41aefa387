SPECIFICATION Spec
CONSTANTS
  hello = hello
  dir = dir
  app = app
  s1 = s1
  s2 = s2
  Nothing = Nothing
  NoConfig = NoConfig
  HalfConfig = HalfConfig
  Here = Here
  Elsewhere = Elsewhere
  Starter = hello
  Folder = dir
  Inside <- MCInside
  Beside <- MCBeside
  Programs <- MCPrograms
  Settings <- MCSettings
  First = s1
  ImportChoices <- MCImports
  Pickable <- MCInside
  MaxEdits = 1
  MaxFaults = 1
INVARIANTS
  ImportIsAllOrNothing
  BundleIsWhole
  ScreenAgrees
PROPERTIES
  UsersWorkIsKept
