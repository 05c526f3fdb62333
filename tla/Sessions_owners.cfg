SPECIFICATION SpecEither
CONSTANTS
    u1 = u1
    u2 = u2
    t1 = t1
    t2 = t2
    t3 = t3
    NoUser = NoUser
    Users = {u1, u2}
    Tasks = {t1, t2}
    Ops = {"create", "validate", "refresh"}
    HasCache = TRUE
    MaxConcurrent = 0
    CachelessOps = {"create", "refresh", "revoke", "revokeAll", "reset"}
    CachelessLimit = 1
    CachelessTime = 1
    CachelessFail = 1
    Lifetime = 1
    MaxSid = 2
    MaxToken = 3
    MaxTime = 0
    MaxLoss = 1
    MaxFail = 0
SYMMETRY Symmetry
INVARIANT Typed
INVARIANT RefreshKeepsOwner
INVARIANT Owned
INVARIANT Retired
CHECK_DEADLOCK FALSE
