CONSTANTS
    Programs = {"git", "grep"}
    Dirs = {"a", "b"}
    Entries = {"shim", "shim/", "link", "a", "b"}
    MaxEntries = 3
    MaxChanges = 2
SPECIFICATION MCSpec
INVARIANT NeverItself
CHECK_DEADLOCK FALSE
