CONSTANTS
    t1 = t1
    t2 = t2
    t3 = t3
    Threads = {w1, w2, w3}
    Tasks = {t1, t3}
    Ids = {t1, t3}
    Groups = {"a", "b"}
    Modes = {"FIFO", "LIFO", "ROUND_ROBIN", "PRIORITY"}
    Id <- MCId
    Priority <- MCPriority
    Imported = {}
    NoTask = NoTask
    NoGroup = NoGroup
    MaxSize = 7
    IntMin = 0
    MaxPeeks = 1
SPECIFICATION CoreSpec
SYMMETRY Symmetry
INVARIANTS TypeOK NothingLost ServesQueued  SizeAccounted
PROPERTIES HighestFirst
