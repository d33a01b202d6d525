CONSTANTS
    Procs = {p1, p2}
    Keys = {k1, k2}
    Texts = {a}
    NoEntry = NoEntry
    NoText = NoText
    NoLock = NoLock
    Ttl <- MCTtl
    HardTtl = 1
    MaxEntries = 1
    LockStale = 0
    LockRetries = 1
    MaxTime = 1
    MaxRuns = 2
    MaxSnaps = 2
SPECIFICATION Spec
INVARIANT StoreBounded
PROPERTY InvocationEnds
CHECK_DEADLOCK FALSE
