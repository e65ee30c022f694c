SPECIFICATION Spec
CONSTANTS
    c1 = c1 c2 = c2 c3 = c3
    r1 = r1 r2 = r2
    k1 = k1 k2 = k2
    t1 = t1 t2 = t2
    None = None
    Chats = {c1, c2, c3}
    Handmade = {c1}
    First = c1
    Rotations = {r1, r2}
    Calls = {k1, k2}
    Tasks = {t1, t2}
    Foreign = {t1}
    MaxClaims = 2
    MaxCheckpoints = 2
    Loads <- RotationLoads
SYMMETRY RotationSymmetry
CHECK_DEADLOCK FALSE
INVARIANTS
    OneOwner
    AuditHolds
    Lineage
PROPERTIES
    FreshHandoff
    HandoverKeepsTasks
    KeepsPromise
