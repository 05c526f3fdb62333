--------------------------- MODULE MCOrganizations ---------------------------
(* One organization at the start and one to create, a cap of two members.  The *)
(* coroutines are interchangeable.                                              *)
EXTENDS Organizations, TLC

MCSuffix == [o \in {"o1", "o2"} |-> IF o = "o1" THEN "s-1" ELSE "s-2"]
MCEmail == [u \in {"u1", "u2", "u3"} |-> IF u = "u3" THEN "e3" ELSE "e0"]
MCSeeds == {[u \in {"u1"} |-> "owner"], [u \in {"u1", "u2"} |-> "owner"]}
MCSymmetry == Permutations(Coros)
==============================================================================
