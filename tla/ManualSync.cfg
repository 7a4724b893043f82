SPECIFICATION Spec
CONSTANTS
    Place = {"d", "de", "f"}
    Above <- AboveD
    SourceTrees <- Sources
    BackupTrees <- Backups
    Options <- BothOptions
    Inodes = {0, 1, 2, 3}
    Now = 9
CHECK_DEADLOCK FALSE
INVARIANTS
    OnlyPlannedChange
    Converges
    MirrorMade
    StaysInside
