CONSTANTS
    Ids = {a, b}
    Threads = {p, q}
    None = None
    MaxOps = 4
    MaxCrashes = 1
    FirstSequence = 0
    Operations = {"save", "update", "event", "truncate", "batch", "failure"}
SPECIFICATION Spec
INVARIANTS TypeOK AckedKept RecoveredIsStored
 
CHECK_DEADLOCK FALSE
