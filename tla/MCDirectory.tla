----------------------------- MODULE MCDirectory -----------------------------
(* Two user ids, two coroutines, an address in two spellings. *)
EXTENDS Directory

MCIdents == {"a@x", "A@x", "b@x", "n", "+1"}
MCLower == [i \in MCIdents \cup {"del1", "del2"} |-> IF i = "A@x" THEN "a@x" ELSE i]
MCTomb == [u \in {"u1", "u2"} |-> IF u = "u1" THEN "del1" ELSE "del2"]
Profile(e, n, p) == [f \in Fields |-> IF f = "email" THEN e ELSE IF f = "username" THEN n ELSE p]
MCProfiles == {Profile("A@x", Null, Null), Profile("b@x", "n", Null), Profile(Null, "n", "+1")}
MCSeeds == {Profile("a@x", "n", Null), Profile("b@x", Null, "+1")}
MCChanges == {<<"email", "b@x">>, <<"email", Null>>, <<"phone", "+1">>}
==============================================================================
