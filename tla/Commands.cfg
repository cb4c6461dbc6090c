CONSTANTS
    Callers = {w1, w2, w3}
    Limits = {1, 2}
    Policies = {"reader", "writer"}
    Lockers = {t1, t2}
    Threads = {t1, t2}
    Tasks = {a, b}
    MaxId = 2
    ImportStatuses = {"QUEUED"}
    PoolSizes = {1, 2}
    MaxCalls = 3
    MaxCrashes = 1
    None = None
SPECIFICATION PartsSpec
INVARIANTS LifeTypeOK  CompletedOnce
           DeadlockOnlyByRelock AnsweredIsStored 
SYMMETRY Symmetry
\* The commands that a server executes may come to an end, and a writer-preferring
\* mutex can bring the threads that relock it to a stop.
CHECK_DEADLOCK FALSE
