CONSTANTS
    o1 = o1
    o2 = o2
    a1 = a1
    a2 = a2
    w1 = w1
    w2 = w2
    k1 = k1
    Ops = {o1, o2}
    Workers = {w1}
    Accounts = {a1, a2}
    Controllers = {}
    Kind <- NoticeKind
    HomeAccount <- OneAccount
    Creates = {}
    RetryLimit = 1
    MaxClaims = 1
    MaxEpoch = 0
SPECIFICATION FairSpec
PROPERTIES EveryClaimEnds QueuedIsTried
CHECK_DEADLOCK FALSE
