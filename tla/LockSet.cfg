SPECIFICATION Spec
CONSTANTS
    Names = {"a", "b"}
    Given <- MCGiven
    RootPaths <- MCRootPaths
    None = None
    NameSize = 2
    PathMax = 12
    MaxOps = 5
INVARIANTS
    PathsFollow
    CountedLocked
CHECK_DEADLOCK FALSE
