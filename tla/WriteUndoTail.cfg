CONSTANTS
    PageSize = 2
    IntLimit = 16
    Chunk = 3
    MaxSize = 6
    MaxLen = 2
    MaxWrites = 1
SPECIFICATION Spec
INVARIANT PageRollbackExact
CHECK_DEADLOCK FALSE
