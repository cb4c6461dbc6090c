CONSTANTS
    Nodes = {t1, t2, t3}
    LevelNodes = {t1, t2, t3, t4}
    Tasks = {1, 2, 3, 4, 5}
    None = None
    Threads = {w1, w2}
    ListNodes = {n1, n2, n3}
    Priorities = {50, 100}
    MaxLevel = 3
    Sentinel = Sentinel
    Null = Null
SPECIFICATION StructuresSpec
SYMMETRY Symmetry
INVARIANTS AnswersRight LevelsRight PathIsWhole LevelsAgree NoneLost
PROPERTIES Returns AreDeques SkipListIsSorted
