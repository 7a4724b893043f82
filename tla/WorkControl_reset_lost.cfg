SPECIFICATION Spec
CONSTANTS
    Pairs = {p1}
    NoPair = NoPair
    BadPair = BadPair
    RootPair = RootPair
    Moves = {"reset"}
    MaxBatches = 1
    MaxIdle = 2
CHECK_DEADLOCK FALSE
PROPERTIES
    SyncUsesFreshPlan
