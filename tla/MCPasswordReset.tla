--------------------------- MODULE MCPasswordReset ---------------------------
(* Instances of PasswordReset for TLC: users and calls are interchangeable. *)
EXTENDS PasswordReset, TLC

CONSTANTS u1, u2, t1, t2, t3

Symmetry == Permutations(Users) \cup Permutations(Tasks)
=============================================================================
