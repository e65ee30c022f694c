CONSTANTS
    c1 = c1
    g1 = g1
    k1 = k1
    p1 = p1
    t1 = t1
    MISSING = MISSING
    Kind = "runtime"
    Records = {p1, t1}
    Projects = {p1}
    Fields = {"updatedAt", "status"}
    Clients = {c1}
    Readers = {}
    Writers = {k1}
    Legacy <- Start
    MaxClock = 2
SPECIFICATION UnguardedSpec
PROPERTIES NoLostUpdate
CHECK_DEADLOCK FALSE
