SPECIFICATION Spec
CONSTANTS
    Place = {"d", "de", "f", "g", "h"}
    Above <- AboveD
    Cases <- Ignoring
CHECK_DEADLOCK FALSE
INVARIANT
    ShownDeletions
