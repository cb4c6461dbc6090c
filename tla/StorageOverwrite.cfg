CONSTANTS
    Ids = {a}
    Threads = {p, q}
    None = None
    MaxOps = 3
    MaxCrashes = 1
    FirstSequence = 0
    Operations = {"save", "update", "event"}
SPECIFICATION Spec
PROPERTY EntriesKept
CHECK_DEADLOCK FALSE
