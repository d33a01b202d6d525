CONSTANTS
    p1 = p1
    r1 = r1
    r2 = r2
    Projects = {p1}
    Rows = {r1, r2}
    ProjectOf <- MCProjectOf
    LedgerOf <- MCLedgerOf
    Ledgers = 2
    Doctors = {d1, d2}
    NoDir = NoDir
    MaxRuns = 2
SYMMETRY Perms
SPECIFICATION Spec
INVARIANTS TypeOK NeverLost NeverDoubled RepairedIsHealthy
PROPERTIES NameSurvives
CHECK_DEADLOCK FALSE
