----------------------------- MODULE MCMagicLink -----------------------------
(* The instance of MagicLink for TLC: one address, two calls in flight.  Its *)
(* run checks liveness, so the calls are not reduced by symmetry.            *)
EXTENDS MagicLink

CONSTANTS e1, t1, t2
=============================================================================
