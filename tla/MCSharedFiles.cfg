CONSTANTS
    Procs = {p1, p2}
    Rows = {r1, r2}
    Garbage = Garbage
    NoRollup = NoRollup
    Torn = Torn
    NoResult = NoResult
    MaxTime = 1
    MaxSize = 2
    MaxGens = 1
    Senders = {s1, s2}
    None = None
    Emptied = Emptied
    Window = 1
    MaxClock = 1
    MaxRuns = 2
SYMMETRY Perms
SPECIFICATION MCSpec
INVARIANTS TypeOK StampProvesCurrent ReportIsCurrent TelemetryTypeOK OneAttemptPerWindow OneDevice SilentWithoutConsent
PROPERTIES ReportedOnce
CHECK_DEADLOCK FALSE
