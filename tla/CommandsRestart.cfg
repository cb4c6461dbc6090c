CONSTANTS
    Threads = {t1}
    Tasks = {a, b}
    MaxId = 2
    ImportStatuses = {"QUEUED"}
    PoolSizes = {1}
    MaxCalls = 2
    MaxCrashes = 1
    None = None
SPECIFICATION Spec
INVARIANTS AnsweredIsKept
CHECK_DEADLOCK FALSE
