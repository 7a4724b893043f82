\* A hard link of the source is applied from the pane of the backup.
CONSTANTS
    Paths <- MCPaths
    Dirs <- MCDirs
    Inodes <- MCInodes
    Trees <- MCTrees
    Unread <- NoUnread
    Backends = {"rsync"}
    Rules = {}
    Moves = {"apply", "select"}
    MaxMoves = 1
    MaxSelected = 1
    MaxFaults = 1
SPECIFICATION Spec
CHECK_DEADLOCK FALSE
INVARIANT LinkedLikeOriginal
