\* Two runs of rsync, a stop or a closed window at any time.
CONSTANTS
    Lines = 2
    Errors = 3
    Capacity = 2
    Patience = 2
SPECIFICATION Spec
CHECK_DEADLOCK FALSE
INVARIANT TypeOK
INVARIANT AllReported
INVARIANT PidOfThisRun
PROPERTY StopEnds
PROPERTY RunsEnd
PROPERTY WindowCloses
