SPECIFICATION FairSpec
CONSTANTS
    p1 = p1
    p2 = p2
    p3 = p3
    NOBODY = NOBODY
    Commands <- Commands2
    Heavy <- Heavy1
    Interval = 1
    HeavyInterval = 2
    InlineWait = 1
    LockWait = 1
    Kills = "all"
    Signals = TRUE
INVARIANTS
    LockSafe
PROPERTIES
    Spaced
    EveryCommandEnds
    Recovered
CHECK_DEADLOCK FALSE
