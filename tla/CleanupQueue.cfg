CONSTANTS
    NoTxn = NoTxn
    Txn = {t1, t2, t3, t4, t5}
    Capacity = 3
    BatchSize = 2
SPECIFICATION FairSpec
INVARIANTS
    TypeOK
    ReleasedOnce
    NoTaskLost
PROPERTIES
    ImplementsFifo
    EveryFolderReleased
CHECK_DEADLOCK FALSE
