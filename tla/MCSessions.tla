----------------------------- MODULE MCSessions -----------------------------
(* Instances of Sessions for TLC. *)
EXTENDS Sessions, TLC

CONSTANTS u1, u2, t1, t2, t3

(* Which tasks and users there are matters, not which is which. *)
Symmetry == Permutations(Tasks) \cup Permutations(Users)
=============================================================================
