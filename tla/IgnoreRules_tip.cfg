SPECIFICATION Spec
CONSTANTS
  Paths <- MCPaths
  Files <- MCNoRules
  Edits <- MCEdits
  MaxRules = 2
INVARIANT
  TipHasPattern
CHECK_DEADLOCK FALSE
