CONSTANTS
    Slots = {s1, s2}
    Workers = {w1, w2}
    MaxConnections = 2
    MaxRequests = 2
    Tasks = {t1, t2}
    MaxThreads = 2
    MaxCalls = 3
    None = None
SPECIFICATION ThreadsSpec
INVARIANTS TypeOK OneAtATime  CommandsHaveStorage
            StopQuiesces
PROPERTIES StopReturns Served
\* The server ends, and a pool that is stopped stays so once the controller has
\* made its calls.
CHECK_DEADLOCK FALSE
