CONSTANTS
    t1 = t1
    t2 = t2
    t3 = t3
    Threads = {w1, w2}
    Tasks = {t1, t2, t3}
    Ids = {t1, t2, t3}
    Groups = {"a"}
    Modes = {"FIFO", "LIFO", "PRIORITY"}
    Id <- MCId
    Priority <- MCPriority
    Imported = {t1, t2}
    NoTask = NoTask
    NoGroup = NoGroup
    MaxSize = 5
    IntMin = 0
    MaxPeeks = 0
SPECIFICATION Spec
SYMMETRY Symmetry
INVARIANTS DeliveredOnce  OnlyActiveUsed
