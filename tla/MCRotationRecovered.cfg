SPECIFICATION Spec
CONSTANTS
    c1 = c1 c2 = c2 c3 = c3
    r1 = r1 r2 = r2
    k1 = k1 k2 = k2
    t1 = t1 t2 = t2
    None = None
    Chats = {c1, c2, c3}
    Handmade = {c1}
    First = c1
    Rotations = {r1, r2}
    Calls = {k1}
    Tasks = {}
    Foreign = {}
    MaxClaims = 1
    MaxCheckpoints = 2
    Loads <- RecoveryLoads
CHECK_DEADLOCK FALSE
PROPERTIES
    RecoveredMayAck
