SPECIFICATION Spec
CONSTANTS
  Host = "here"
  Starts <- MCStarts
  Starter <- Basic
  Replacements <- MCReplacements
  Forms <- MCForms
  PortKinds <- MCPorts
  MaxOthers = 1
INVARIANTS
  EndsAgree
  OnlyWhatWasAgreed
  FailureIsTold
\* A session ends after the requests its start allows.
CHECK_DEADLOCK FALSE
