SPECIFICATION Spec
CONSTANTS
    u1 = u1
    u2 = u2
    t1 = t1
    t2 = t2
    t3 = t3
    NoUser = NoUser
    Users = {u1, u2}
    Tasks = {t1, t2}
    HasCache = TRUE
    MaxPair = 3
    MaxLoss = 1
    MaxFail = 1
SYMMETRY Symmetry
INVARIANT TypeOK
 
INVARIANT SameUser
 
 
CHECK_DEADLOCK FALSE
