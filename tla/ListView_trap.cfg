SPECIFICATION Spec
CONSTANTS
  Paths <- MCPaths
  Rank <- MCRank
  Found <- MCFound
  Queries <- MCQueries
  Chunk = 2
  MaxMoves = 5
INVARIANTS
  NeverTraps
CHECK_DEADLOCK FALSE
