CONSTANTS
    t1 = t1
    t2 = t2
    c1 = c1
    c2 = c2
    c3 = c3
    None = None
    Nil = Nil
    Tasks = {t1, t2}
    Loads <- TaskLoads
    Signs <- PageSigns
    MaxAttempts = 1
    MaxTotal = 2
    MaxErrors = 2
    Chats = {c1, c2, c3}
    PageLoads <- ChatLoads
    MaxTargets = 4
    Budget = 1
SPECIFICATION BrowserSpec
INVARIANTS RecoveryBudget ReconcileOnce ReleaseOnce NoLostPage OverflowMapped
PROPERTIES EndedStays ExternalUntouched IdleClose
CHECK_DEADLOCK FALSE
