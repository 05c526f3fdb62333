SPECIFICATION Spec
CONSTANTS
    u1 = u1
    u2 = u2
    t1 = t1
    t2 = t2
    t3 = t3
    NoUser = NoUser
    Users = {u1}
    Tasks = {t1, t2}
    Ops = {"create", "validate", "refresh", "revoke", "revokeAll", "reset"}
    HasCache = TRUE
    MaxConcurrent = 1
    Lifetime = 1
    MaxSid = 1
    MaxToken = 2
    MaxTime = 1
    MaxLoss = 1
    MaxFail = 1
SYMMETRY Symmetry
PROPERTY DeadStaysDead
PROPERTY UselessStaysUseless
CHECK_DEADLOCK FALSE
