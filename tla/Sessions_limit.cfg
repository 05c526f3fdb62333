SPECIFICATION Spec
CONSTANTS
    u1 = u1
    u2 = u2
    t1 = t1
    t2 = t2
    t3 = t3
    NoUser = NoUser
    Users = {u1}
    Tasks = {t1, t2}
    Ops = {"create", "revoke"}
    HasCache = TRUE
    MaxConcurrent = 1
    Lifetime = 1
    MaxSid = 3
    MaxToken = 3
    MaxTime = 0
    MaxLoss = 1
    MaxFail = 0
SYMMETRY Symmetry
INVARIANT LimitHolds
PROPERTY NewestSurvives
INVARIANT RevokedIsGone
CHECK_DEADLOCK FALSE
