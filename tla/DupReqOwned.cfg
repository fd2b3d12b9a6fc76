SPECIFICATION Spec
CONSTANTS
    r3 = r3
    Threads = {t1, t2}
    Xprts = {x1, x2}
    Addrs = {a1, a2}
    Drcs = {d1, d2}
    Entries = {e1, e2}
    Requests = {r1, r3}
    Hk <- MCHk
    MaxSize = 1
    Hiwat = 0
    StartBias = 2
    MaxRetries = 1
    MaxLeaks = 1
SYMMETRY Alike
INVARIANT OwnedByThread
CHECK_DEADLOCK FALSE
