CONSTANTS
    Batch = 3
    MaxId = 13
    MaxAllocate = 7
    MayFail <- FailStop
SPECIFICATION Spec
INVARIANTS
    NoReissue
    IssuedBelowDurable
CHECK_DEADLOCK FALSE
