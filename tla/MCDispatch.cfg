CONSTANTS
    o1 = o1
    o2 = o2
    a1 = a1
    a2 = a2
    w1 = w1
    w2 = w2
    k1 = k1
    Ops = {o1}
    Workers = {w1, w2}
    Accounts = {a1}
    Controllers = {k1}
    Kind <- SoleKind
    HomeAccount <- SoleAccount
    Creates = {o1}
    RetryLimit = 2
    MaxClaims = 2
    MaxEpoch = 2
SPECIFICATION Spec
INVARIANTS AtMostOnce OutcomesTrue FreshDirectory RetryBudget
PROPERTIES PauseFence KeepsPromise
CHECK_DEADLOCK FALSE
SYMMETRY WorkerSymmetry
