---------------------------- MODULE MCLoginLimiter ----------------------------
(* The instance of LoginLimiter for TLC: two login calls in flight.  Its   *)
(* run checks liveness, so the calls are not reduced by symmetry.            *)
EXTENDS LoginLimiter

CONSTANTS t1, t2
=============================================================================
