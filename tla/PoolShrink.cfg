CONSTANTS
    Tasks = {t1, t2}
    MaxThreads = 2
    MaxCalls = 1
    None = None
SPECIFICATION PoolFairSpec
INVARIANTS ResizedRuns
CHECK_DEADLOCK FALSE
