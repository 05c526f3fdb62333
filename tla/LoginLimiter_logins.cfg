SPECIFICATION FairLimiterSpec
CONSTANTS
    t1 = t1
    t2 = t2
    Logins = {t1, t2}
    MaxAttempts = 3
    Window = 2
    Lockout = 2
    MaxAborted = 3
INVARIANT LimiterTypeOK
INVARIANT GuessesBounded
INVARIANT LockedAfterMax
INVARIANT LockoutSupersedes
INVARIANT CounterExpires
PROPERTY OpensAgain
