------------------------------ MODULE OidcLogin ------------------------------
(* The OIDC authorization-code flow: the pending record of an attempt (state,   *)
(* nonce, PKCE verifier) in the cache or in the settings table, the exchange of *)
(* the code, the nonce of the id token, and provisioning.  The signature of the *)
(* id token is SigningKeys' concern.                                            *)
EXTENDS Coroutines, Sequences

CONSTANT Attempts    \* authorization attempts: a state, a nonce, a verifier and a code each

VARIABLES
    viaCache,   \* whether a cache server is configured, or the settings table is used
    pkce,       \* require_pkce, or a public client
    pending,    \* the record of each attempt
    redeemed,   \* codes the provider has exchanged (external)
    signedIn    \* history: <<state, code, with an id token>> of completed logins

oidcVars == <<viaCache, pkce, pending, redeemed, signedIn>>
oidcConfig == <<viaCache, pkce>>

(* create_authorization_url: the record is stored before the browser leaves. *)
Authorize(c) ==
    \E a \in Attempts :
        /\ At(c, "idle") /\ flows < FlowBound /\ pending[a] = "none"
        /\ pending' = [pending EXCEPT ![a] = "live"]
        /\ flows' = flows + 1
        /\ UNCHANGED <<area, backend, co, raced, oidcConfig, redeemed, signedIn>>

(* The browser comes back with a state and a code; with two tabs open they may *)
(* be of two attempts.                                                          *)
Callback(c) ==
    \E s, k \in {a \in Attempts : pending[a] # "none"} :
        /\ Begin(c, [op |-> "callback", pc |-> "read", state |-> s, code |-> k, token |-> FALSE])
        /\ UNCHANGED <<area, backend, raced, oidcVars>>

------------------------------------------------------------------------------
(* _consume_pending_state: a read, then a delete.  In the cache the record may *)
(* have expired; in the settings table it never does.                           *)

Deleting(c, s) == {d \in Busy(c) : At(d, "delete") /\ co[d].state = s}

FindState(c) ==
    LET s == co[c].state IN
    /\ At(c, "read")
    /\ IF pending[s] = "live"
       THEN \/ Goto(c, "delete") /\ UNCHANGED pending
            \/ viaCache /\ pending' = [pending EXCEPT ![s] = "gone"] /\ Return(c)
       ELSE Return(c) /\ UNCHANGED pending
    /\ Overlap("state", s, Deleting(c, s))
    /\ Continue /\ UNCHANGED <<oidcConfig, redeemed, signedIn>>

(* Mutant: the record is read and kept. *)
KeepState(c) ==
    /\ At(c, "delete")
    /\ Goto(c, "redeem")
    /\ Continue /\ UNCHANGED <<raced, oidcVars>>

DeleteState(c) ==
    /\ At(c, "delete")
    /\ pending' = [pending EXCEPT ![co[c].state] = "gone"]
    /\ Goto(c, "redeem")
    /\ Continue /\ UNCHANGED <<raced, oidcConfig, redeemed, signedIn>>

(* The verifier sent is the one of the state; the provider exchanges a code     *)
(* once, for the verifier of its own attempt.                                   *)
Redeem(c) ==
    LET f == co[c] IN
    /\ At(c, "redeem")
    /\ IF f.code \in redeemed \/ (pkce /\ f.state # f.code) THEN Return(c) /\ UNCHANGED redeemed
       ELSE /\ redeemed' = redeemed \cup {f.code}
            /\ \E token \in BOOLEAN :
                   Become(c, [f EXCEPT !.pc = IF token THEN "verify" ELSE "userinfo",
                                       !.token = token])
    /\ Continue /\ UNCHANGED <<raced, oidcConfig, pending, signedIn>>

(* Mutant: the nonce is not compared. *)
AnyNonce(f) == TRUE
SameNonce(f) == f.code = f.state

ValidateIdToken(c) ==
    /\ At(c, "verify")
    /\ IF SameNonce(co[c]) THEN Goto(c, "userinfo") ELSE Return(c)
    /\ Continue /\ UNCHANGED <<raced, oidcVars>>

(* get_user_info and _provision_user: an unverified address, or an account that *)
(* is created meanwhile, ends in an error.                                      *)
FetchUserInfo(c) ==
    /\ At(c, "userinfo")
    /\ \/ signedIn' = Append(signedIn, <<co[c].state, co[c].code, co[c].token>>)
       \/ UNCHANGED signedIn
    /\ Return(c)
    /\ Continue /\ UNCHANGED <<raced, oidcConfig, pending, redeemed>>

(* A request is cancelled, or its process ends. *)
CallbackDies(c) ==
    /\ ~At(c, "idle")
    /\ Return(c)
    /\ Continue /\ UNCHANGED <<raced, oidcVars>>

OidcAtRest ==
    /\ viaCache \in BOOLEAN /\ pkce \in BOOLEAN
    /\ backend \in {"memory", "sql"}     \* the settings calls of the others are alike
    /\ \E a \in Attempts : pending = [b \in Attempts |-> IF b = a THEN "none" ELSE "live"]
    /\ redeemed = {} /\ signedIn = <<>>

(* The in-memory adapter's two calls on the settings suspend nobody. *)
InMemory == backend = "memory" /\ ~viaCache
MayRun(c) == InMemory => \A d \in Busy(c) : ~At(d, "delete")

OidcNext ==
    \E c \in Coros :
        /\ MayRun(c)
        /\ \/ Authorize(c) \/ Callback(c) \/ FindState(c) \/ DeleteState(c)
           \/ Redeem(c) \/ ValidateIdToken(c) \/ FetchUserInfo(c) \/ CallbackDies(c)

------------------------------------------------------------------------------
(* Properties. *)

(* A state signs in once, unless two callbacks read it before either deleted   *)
(* it; a code signs in once in any case, and for the attempt it was issued to,  *)
(* unless neither PKCE nor an id token ties the two.                            *)
AttemptsBound ==
    \A i, j \in DOMAIN signedIn :
        LET p == signedIn[i]
            q == signedIn[j]
        IN /\ p[1] = p[2] \/ (~pkce /\ ~p[3])
           /\ i # j => p[2] # q[2]
           /\ i # j /\ p[1] = q[1] => Raced("state", p[1])

OidcSound == area = "oidc" =>
    /\ pending \in [Attempts -> {"none", "live", "gone"}] /\ redeemed \subseteq Attempts
    /\ AttemptsBound
    /\ InMemory => raced = {}
==============================================================================
