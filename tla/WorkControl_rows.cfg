SPECIFICATION Spec
CONSTANTS
    Pairs = {p1, p2}
    NoPair = NoPair
    BadPair = BadPair
    RootPair = RootPair
    Moves <- RowMoves
    MaxBatches = 2
    MaxIdle = 2
CHECK_DEADLOCK FALSE
INVARIANTS
    InterfaceBlocked
PROPERTIES
    RowsActOnListedDirs
    SyncNamesItsDirs
