SPECIFICATION Spec
CONSTANTS
    Pairs = {p1}
    NoPair = NoPair
    BadPair = BadPair
    RootPair = RootPair
    Moves <- EveryMove
    MaxBatches = 1
    MaxIdle = 2
CHECK_DEADLOCK FALSE
INVARIANTS
    TypeOK
    NeverFatal
    SyncGate
    NoOrphanThread
PROPERTIES
    StopEnds
    CloseEnds
