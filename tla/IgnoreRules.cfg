SPECIFICATION Spec
CONSTANTS
  Paths <- MCPaths
  Files <- MCFiles
  Edits <- MCEdits
  MaxRules = 3
INVARIANTS
  LoopIsGlob
  RowsAgree
PROPERTY
  RuleIsAdded
