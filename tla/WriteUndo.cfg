CONSTANTS
    PageSize = 2
    IntLimit = 8
    Chunk = 3
    MaxSize = 9
    MaxLen = 3
    MaxWrites = 2
SPECIFICATION FairSpec
INVARIANTS
    RollbackExact
PROPERTY AlignedBackupReturns
CHECK_DEADLOCK FALSE
