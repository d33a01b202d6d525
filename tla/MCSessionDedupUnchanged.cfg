CONSTANTS
    Procs = {p1, p2}
    Keys = {k1}
    Texts = {a, b}
    NoEntry = NoEntry
    NoText = NoText
    NoLock = NoLock
    Ttl <- MCLongTtl
    HardTtl = 2
    MaxEntries = 1
    LockStale = 0
    LockRetries = 1
    MaxTime = 2
    MaxRuns = 3
    MaxSnaps = 2
SYMMETRY Perms
SPECIFICATION Spec
INVARIANT NeverWrongUnchanged
CHECK_DEADLOCK FALSE
