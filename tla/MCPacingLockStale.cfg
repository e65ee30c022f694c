SPECIFICATION Spec
CONSTANTS
    p1 = p1
    p2 = p2
    p3 = p3
    NOBODY = NOBODY
    Commands <- Commands3
    Heavy <- NoHeavy
    Interval = 0
    HeavyInterval = 0
    InlineWait = 0
    LockWait = 0
    Kills = "none"
    Signals = FALSE
INVARIANTS
    Exclusive
CHECK_DEADLOCK FALSE
