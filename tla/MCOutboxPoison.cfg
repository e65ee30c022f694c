SPECIFICATION FairSpec
CONSTANTS
    s1 = s1 s2 = s2
    v1 = v1 v2 = v2
    c1 = c1
    e1 = e1
    w1 = w1 w2 = w2
    NoSession = NoSession
    LocalOwner = LocalOwner
    Sessions = {s1, s2}
    Versions = {v1, v2}
    Callbacks = {c1}
    Events = {e1}
    Workers = {w1}
    Budgets <- EventBudgets
    Contracts = {NoSession}
CHECK_DEADLOCK FALSE
PROPERTIES
    RouteResolves
