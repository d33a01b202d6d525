CONSTANTS
    Budget = 2
    Cap = 2
    MaxOut = 3
    MaxErr = 2
    Inputs <- MCInputs
    Structural = {"mvn", "mypy", "pytest", "pip", "diff", "git diff", "git show", "git", "git status", "gh", "glab release", "git log", "deps", "test", "env", "log", "json", "summary", "cat", "curl", "next", "tsc"}
    Masking = {"env"}
    Declaring = {"dotnet", "mypy", "pytest", "ruff", "pip", "diff", "git diff", "git show", "git log", "test", "env", "json", "summary", "cat", "psql", "jest", "playwright"}
    Calls <- HookCalls
    Chunks = 2
    Programs = {"git", "grep"}
    Dirs = {"a", "b"}
    Entries = {"shim", "shim/", "link", "a", "b"}
    MaxEntries = 3
    MaxChanges = 2
    Names <- PercentNames
    BatchLines <- WordPairs
    Environments <- ParentEnvs
    LineLimit = 9
    MaxCapture = 4
    Outputs <- CaptureOutputs
SPECIFICATION MCSpec
INVARIANTS EvidenceKept VerdictEarned HookHarmless RunsTheRealTool PercentSurvives CaptureHonest
CHECK_DEADLOCK FALSE
