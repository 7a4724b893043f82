SPECIFICATION Spec
CONSTANTS
    Pairs = {p1}
    NoPair = NoPair
    BadPair = BadPair
    RootPair = RootPair
    Moves = {"ignore_row"}
    MaxBatches = 1
    MaxIdle = 2
CHECK_DEADLOCK FALSE
INVARIANTS
    InterfaceBlocked
