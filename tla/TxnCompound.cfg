SPECIFICATION Spec
CONSTANTS
    f1 = f1
    f2 = f2
    Threads = {t1, t2}
    Files = {f1, f2}
    Old = Old
    None = None
    Zero = Zero
    MaxPages = 3
    InitSize <- Sizes
    MaxOps = 2
    Compounds <- Sent
    MaxId = 2
    MaxFaults = 1
SYMMETRY Alike
INVARIANTS
    TypeOK
    AllOrNothing
    Isolated
    BackupCovers
    FolderOwned
    NoFolderLost
CHECK_DEADLOCK FALSE
