CONSTANTS
    Threads = {w1, w2}
    Tasks = {t1, t2, t3}
    Ids = {t1, t2, t3}
    Groups = {"a", "b"}
    Modes = {"FIFO", "ROUND_ROBIN"}
    Id <- MCId
    Priority <- MCPriority
    Imported = {}
    NoTask = NoTask
    NoGroup = NoGroup
    MaxSize = 5
    IntMin = 0
    MaxPeeks = 0
SPECIFICATION RRFairSpec
INVARIANTS ArrivalOrder BoundedBypass
PROPERTIES EventuallyTaken
