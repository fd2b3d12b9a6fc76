SPECIFICATION Spec
CONSTANTS
    Root = Root
    Bkp = Bkp
    None = None
    Empty = Empty
    NoCopy = NoCopy
    da = da
    fx = fx
    ff = ff
    a = a
    x = x
    f = f
    old = old
    Obj = {Root, Bkp, da, fx, ff, n1, n2, n3}
    Name = {a, x, f}
    Contents = {Empty, old, new}
    InitialTree <- Tree
    InitialDirs <- Dirs
    InitialData <- FileData
    MaxOps = 5
    Clients <- NamesAndFiles
SYMMETRY NewObjects
INVARIANTS
    TypeOK
    RollbackRestores
    HandlesResolve
    KnownCacheFits
CHECK_DEADLOCK FALSE
