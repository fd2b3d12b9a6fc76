SPECIFICATION FairSpec
CONSTANTS
    c1 = c1
    c2 = c2
    c3 = c3
    Client = {c1, c2, c3}
    NameSize = 1
    PathMax = 14
    Path <- MCPath
    RawPath <- MCRawPath
    Normalize <- MCNormalize
    BadPath <- MCBadPath
    Requests <- MCRequests
INVARIANTS
    Exclusion
    TableMatchesHandles
PROPERTY
    ImplementsReadersWriters
    SpinnersMakeProgress
