\* The rows follow renames, deletions, copies and ignored names of a user.
CONSTANTS
    Paths <- MCPaths
    Dirs <- MCDirs
    Inodes <- MCInodes
    Trees <- MCTrees
    Unread <- NoUnread
    Backends = {"rsync", "manual"}
    Rules <- MCRules
    Moves = {"rename", "apply", "sync", "delete", "ignore", "select"}
    MaxMoves = 2
    MaxSelected = 1
    MaxFaults = 1
SPECIFICATION Spec
CHECK_DEADLOCK FALSE
INVARIANT StateConsistent
INVARIANT ShownIsOnDisk
INVARIANT GroupsAgree
PROPERTY ImplementsTable
