SPECIFICATION Spec
CONSTANTS
    Pairs = {p1, p2}
    NoPair = NoPair
    BadPair = BadPair
    RootPair = RootPair
    Moves = {"type_dirs"}
    MaxBatches = 1
    MaxIdle = 2
CHECK_DEADLOCK FALSE
PROPERTIES
    SyncNamesItsDirs
