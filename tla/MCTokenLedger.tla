---------------------------- MODULE MCTokenLedger ----------------------------
(* Instances of TokenLedger for TLC: users and coroutines are interchangeable. *)
EXTENDS TokenLedger, TLC

CONSTANTS u1, u2, t1, t2, t3

Symmetry == Permutations(Users) \cup Permutations(Tasks)
=============================================================================
