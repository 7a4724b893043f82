\* A directory with an unreadable directory in it is renamed.
CONSTANTS
    Paths <- MCPaths
    Dirs <- DirPaths
    Inodes <- MCInodes
    Trees <- DirTrees
    Unread <- OneUnread
    Backends = {"rsync"}
    Rules = {}
    Moves = {"rename"}
    MaxMoves = 3
    MaxSelected = 0
    MaxFaults = 1
SPECIFICATION Spec
CHECK_DEADLOCK FALSE
INVARIANT MergesIntoEmpty
