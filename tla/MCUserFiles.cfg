CONSTANTS
    Files = {s, f}
    Settings = s
    Bodies = {ok, bad}
    Malformed = {bad}
    Blank = ok
    Procs = {p1, p2}
    None = None
    MaxRuns = 2
    MaxEdits = 1
    MaxCommands = 2
    MaxUserEdits = 1
SYMMETRY Perms
SPECIFICATION MCSpec
INVARIANTS TypeOK Reversible GivenBack InstallTypeOK UninstalledClean InstalledIsLive
PROPERTIES OwnKeyKept UsersKept
CHECK_DEADLOCK FALSE
CONSTRAINT OneOfAKind
