SPECIFICATION Spec
CONSTANTS
  Paths <- MCPaths
  Files <- MCNoRules
  Edits <- MCEdits
  MaxRules = 2
INVARIANT
  NameRuleMatches
CHECK_DEADLOCK FALSE
