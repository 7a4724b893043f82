SPECIFICATION Spec
CONSTANTS
    Place = {"d", "de", "f", "g", "h"}
    Above <- AboveD
    Cases <- BothKinds
CHECK_DEADLOCK FALSE
INVARIANTS
    DeletionsJustified
    ShownIsPlanned
    GroupsWhole
    NewerKept
    PlanMakesMirror
    PlanComplete
PROPERTIES
    AnalysisEnds
    ImplementsPreview
