------------------------------ MODULE SingleUse ------------------------------
(***************************************************************************)
(* What a ledger of one-time tokens promises: a token that was issued may  *)
(* be used once, whoever presents it and however often; it may also expire *)
(* unused.  docs/CONTRACTS.md asks for it of refresh tokens ("deleted      *)
(* atomically"), of reset tokens and of magic links ("exactly once").      *)
(***************************************************************************)
EXTENDS Naturals

CONSTANT Tokens

VARIABLES live,   \* tokens that would be accepted
          uses    \* how often each token has been accepted

Init == live = {} /\ uses = [k \in Tokens |-> 0]

Issue(k) == /\ k \notin live /\ uses[k] = 0
            /\ live' = live \cup {k} /\ UNCHANGED uses

Use(k) == /\ k \in live
          /\ live' = live \ {k} /\ uses' = [uses EXCEPT ![k] = @ + 1]

Expire(k) == /\ k \in live
             /\ live' = live \ {k} /\ UNCHANGED uses

Next == \E k \in Tokens : Issue(k) \/ Use(k) \/ Expire(k)

Spec == Init /\ [][Next]_<<live, uses>>

(* A token is accepted at most once, and never while it is still live. *)
AtMostOnce == \A k \in Tokens : uses[k] <= 1 /\ (k \in live => uses[k] = 0)
=============================================================================
