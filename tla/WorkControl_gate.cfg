SPECIFICATION Spec
CONSTANTS
    Pairs = {p1, p2}
    NoPair = NoPair
    BadPair = BadPair
    RootPair = RootPair
    Moves <- GateMoves
    MaxBatches = 1
    MaxIdle = 2
CHECK_DEADLOCK FALSE
INVARIANT
    InterfaceBlocked
PROPERTIES
    SyncUsesFreshPlan
    ImplementsSession
