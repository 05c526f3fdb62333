--------------------------- MODULE MCSessionsCache ---------------------------
(* Sessions for TLC, with a cache adapter or without one from the start.     *)
EXTENDS MCSessions

CONSTANTS
    CachelessOps,  \* the methods called where there is no cache
    CachelessLimit,\* max_concurrent_sessions there
    CachelessTime, \* bound: clock ticks there
    CachelessFail  \* bound: calls aborted there

VARIABLE configured    \* whether there is a cache

Cacheless == INSTANCE Sessions WITH
    HasCache <- FALSE, Ops <- CachelessOps, MaxConcurrent <- CachelessLimit,
    MaxTime <- CachelessTime, MaxFail <- CachelessFail

NextEither ==
    \/ configured /\ Next /\ UNCHANGED configured
    \/ ~configured /\ Cacheless!Next /\ UNCHANGED configured

SpecEither == Init /\ configured \in BOOLEAN /\ [][NextEither]_<<vars, configured>>

(* Without a cache rotation works from the rows of the database:              *)
(* refresh_session, "Rotation: the old refresh token stops working            *)
(* immediately", whatever revocations and logins overlap it.                  *)
Retired == ~configured => Cacheless!RetiredIsUseless
=============================================================================
