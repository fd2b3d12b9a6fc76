CONSTANTS
    Threads = {t1, t2}
    LruThread = lru
    Entries = {e1, e2, e3}
    Keys = {a, b}
    NoEntry = none
    NoKey = nokey
    Lane = lane
    NoLane = nolane
    Lanes = {lane}
    LaneOf <- MCLaneOf
    Hiwat = 2
    PerLaneWork = 2

SPECIFICATION Spec

SYMMETRY Alike

INVARIANTS
    TypeOK
    RefcntExact
    NoDangling
    OnItsQueue
    IteratorSafe
    WipedBeforeFreed
    NoLeak

PROPERTY NoResurrection

CHECK_DEADLOCK FALSE
