----------------------------- MODULE TokenLedger -----------------------------
(***************************************************************************)
(* The JWT pairs of core/auth_manager.py and their ledgers in the cache:   *)
(* _issue_token_pair at the end of a login, refresh_token, logout_user.    *)
(*                                                                         *)
(* A pair is numbered when its two tokens are drawn; the number stands for *)
(* the access token, the refresh token and their jtis.  A session is named *)
(* by the pair of the login that created it.  One action is one await.     *)
(***************************************************************************)
EXTENDS Naturals, FiniteSets

CONSTANTS
    Users,      \* user ids
    NoUser,     \* not a user id
    Tasks,      \* slots for coroutines in flight
    HasCache,   \* whether a cache adapter is configured
    MaxPair,    \* bound: pairs ever drawn
    MaxLoss,    \* bound: ledger entries lost (TTL, eviction, restart)
    MaxFail     \* bound: calls aborted by an exception, a cancel or a crash

ASSUME UsersAssumption == NoUser \notin Users
ASSUME CacheAssumption == HasCache \in BOOLEAN
ASSUME BoundsAssumption == MaxPair \in Nat /\ MaxLoss \in Nat /\ MaxFail \in Nat

Pairs == 1..MaxPair
NoPair == 0

(* The claims of a pair: sub, and session_id of its access token; and, as  *)
(* history, the pair whose refresh token it was exchanged for, and the     *)
(* login its line of exchanges began with.                                 *)
Claims == [user : Users, ses : Pairs \cup {NoPair}, from : Pairs \cup {NoPair}, root : Pairs]
Undrawn == [user |-> NoUser, ses |-> NoPair, from |-> NoPair, root |-> NoPair]

VARIABLES
    pair,       \* pair -> its claims
    refresh,    \* tessera:refresh:{jti}
    access,     \* tessera:access:{jti}; written and deleted, never read
    latest,     \* tessera:tokenpair:{user}; written, never read
    sessions,   \* the active sessions (of the session manager or the database)
    handed,     \* pairs returned to a client
    uses,       \* history: how often each refresh token was exchanged
    out,        \* history: pairs whose access token completed a logout
    lost,       \* ledger losses so far
    failed,     \* aborted calls so far
    task        \* the coroutines in flight

shared == <<pair, refresh, access, latest, sessions, handed, uses, out, lost, failed>>
vars == <<pair, refresh, access, latest, sessions, handed, uses, out, lost, failed, task>>

Steps == {"idle", "put_refresh", "put_access", "put_latest", "exchange",
          "drop_access", "revoke"}
TaskStates == [pc : Steps, k : Pairs \cup {NoPair}]
Idle == [pc |-> "idle", k |-> NoPair]

Become(t, step, k) == task' = [task EXCEPT ![t] = [pc |-> step, k |-> k]]
Finish(t) == task' = [task EXCEPT ![t] = Idle]

(* Mutant: jtis are not unique. *)
FreshColliding == Pairs

(* The lowest number not drawn yet: jtis are unique. *)
Fresh == {p \in Pairs : pair[p] = Undrawn /\ \A q \in Pairs : pair[q] = Undrawn => p <= q}

-----------------------------------------------------------------------------
Init ==
    /\ pair = [p \in Pairs |-> Undrawn]
    /\ refresh = {} /\ access = {} /\ latest = [u \in Users |-> NoPair]
    /\ sessions = {} /\ handed = {}
    /\ uses = [p \in Pairs |-> 0] /\ out = {}
    /\ lost = 0 /\ failed = 0
    /\ task = [t \in Tasks |-> Idle]

-----------------------------------------------------------------------------
(* login_user, once the password (and the MFA code) is accepted: the       *)
(* session is created, then the pair is drawn and written to the ledgers.  *)
Login(t, u) ==
    /\ task[t] = Idle
    /\ \E p \in Fresh :
          /\ sessions' = sessions \cup {p}
          /\ pair' = [pair EXCEPT ![p] = [user |-> u, ses |-> p, from |-> NoPair, root |-> p]]
          /\ IF HasCache THEN Become(t, "put_refresh", p) /\ UNCHANGED handed
                         ELSE UNCHANGED task /\ handed' = handed \cup {p}
    /\ UNCHANGED <<refresh, access, latest, uses, out, lost, failed>>

PutRefresh(t) ==
    /\ task[t].pc = "put_refresh"
    /\ refresh' = refresh \cup {task[t].k}
    /\ Become(t, "put_access", task[t].k)
    /\ UNCHANGED <<pair, access, latest, sessions, handed, uses, out, lost, failed>>

PutAccess(t) ==
    /\ task[t].pc = "put_access"
    /\ access' = access \cup {task[t].k}
    /\ Become(t, "put_latest", task[t].k)
    /\ UNCHANGED <<pair, refresh, latest, sessions, handed, uses, out, lost, failed>>

PutLatest(t) ==
    /\ task[t].pc = "put_latest"
    /\ latest' = [latest EXCEPT ![pair[task[t].k].user] = task[t].k]
    /\ handed' = handed \cup {task[t].k}
    /\ Finish(t)
    /\ UNCHANGED <<pair, refresh, access, sessions, uses, out, lost, failed>>

-----------------------------------------------------------------------------
(* refresh_token with a refresh token that verifies. *)
Refresh(t, k) ==
    /\ HasCache /\ task[t] = Idle /\ k \in handed
    /\ Become(t, "exchange", k)
    /\ UNCHANGED shared

(* Mutant: the result of the delete is ignored. *)
ExchangeUnchecked(t) ==
    LET k == task[t].k IN
    /\ task[t].pc = "exchange"
    /\ \E p \in Fresh :
          /\ pair' = [pair EXCEPT ![p] = [user |-> pair[k].user, ses |-> NoPair,
                                          from |-> k, root |-> pair[k].root]]
          /\ refresh' = refresh \ {k}
          /\ uses' = [uses EXCEPT ![k] = @ + 1]
          /\ Become(t, "put_refresh", p)
    /\ UNCHANGED <<access, latest, sessions, handed, out, lost, failed>>

(* Mutant: the subject of the new pair is left out. *)
ExchangeUnnamed(t) ==
    LET k == task[t].k IN
    /\ task[t].pc = "exchange"
    /\ \E p \in Fresh :
          /\ pair' = [pair EXCEPT ![p] = [user |-> NoUser, ses |-> NoPair,
                                          from |-> k, root |-> pair[k].root]]
          /\ refresh' = refresh \ {k}
          /\ uses' = [uses EXCEPT ![k] = @ + 1]
          /\ Become(t, "put_refresh", p)
    /\ UNCHANGED <<access, latest, sessions, handed, out, lost, failed>>

(* The delete of the old entry decides; the new pair carries no session_id. *)
Exchange(t) ==
    LET k == task[t].k IN
    /\ task[t].pc = "exchange"
    /\ \/ /\ k \notin refresh
          /\ Finish(t) /\ UNCHANGED <<pair, refresh, uses>>
       \/ /\ k \in refresh
          /\ \E p \in Fresh :
                /\ pair' = [pair EXCEPT ![p] = [user |-> pair[k].user, ses |-> NoPair,
                                                from |-> k, root |-> pair[k].root]]
                /\ refresh' = refresh \ {k}
                /\ uses' = [uses EXCEPT ![k] = @ + 1]
                /\ Become(t, "put_refresh", p)
    /\ UNCHANGED <<access, latest, sessions, handed, out, lost, failed>>

-----------------------------------------------------------------------------
(* logout_user with an access token that verifies: without a cache its     *)
(* session_id is not even looked at.                                       *)
Logout(t, k) ==
    /\ task[t] = Idle /\ k \in handed
    /\ IF HasCache THEN Become(t, "drop_access", k) /\ UNCHANGED out
                   ELSE UNCHANGED task /\ out' = out \cup {k}
    /\ UNCHANGED <<pair, refresh, access, latest, sessions, handed, uses, lost, failed>>

(* logout_user with the session_id of a login response and no token. *)
LogoutSession(t, k) ==
    /\ task[t] = Idle /\ k \in handed
    /\ sessions' = sessions \ {pair[k].ses}
    /\ UNCHANGED <<pair, refresh, access, latest, handed, uses, out, lost, failed, task>>

(* Mutant: the session_id claim is not followed. *)
DropAccessOnly(t) ==
    /\ task[t].pc = "drop_access"
    /\ access' = access \ {task[t].k}
    /\ Finish(t) /\ out' = out \cup {task[t].k}
    /\ UNCHANGED <<pair, refresh, latest, sessions, handed, uses, lost, failed>>

DropAccess(t) ==
    /\ task[t].pc = "drop_access"
    /\ access' = access \ {task[t].k}
    /\ IF pair[task[t].k].ses = NoPair
       THEN Finish(t) /\ out' = out \cup {task[t].k}
       ELSE Become(t, "revoke", task[t].k) /\ UNCHANGED out
    /\ UNCHANGED <<pair, refresh, latest, sessions, handed, uses, lost, failed>>

(* The session manager's revoke_session, here in one step. *)
Revoke(t) ==
    /\ task[t].pc = "revoke"
    /\ sessions' = sessions \ {pair[task[t].k].ses}
    /\ Finish(t) /\ out' = out \cup {task[t].k}
    /\ UNCHANGED <<pair, refresh, access, latest, handed, uses, lost, failed>>

-----------------------------------------------------------------------------
(* Environment *)

LoseEntry(k) ==
    /\ lost < MaxLoss /\ k \in refresh \cup access /\ lost' = lost + 1
    /\ \/ refresh' = refresh \ {k} /\ UNCHANGED access
       \/ access' = access \ {k} /\ UNCHANGED refresh
    /\ UNCHANGED <<pair, latest, sessions, handed, uses, out, failed, task>>

Fail(t) ==
    /\ failed < MaxFail /\ task[t] # Idle
    /\ Finish(t) /\ failed' = failed + 1
    /\ UNCHANGED <<pair, refresh, access, latest, sessions, handed, uses, out, lost>>

Call(t) == \/ \E u \in Users : Login(t, u)
           \/ \E k \in Pairs : Refresh(t, k) \/ Logout(t, k) \/ LogoutSession(t, k)

Step(t) == \/ PutRefresh(t) \/ PutAccess(t) \/ PutLatest(t)
           \/ Exchange(t) \/ DropAccess(t) \/ Revoke(t)

Environment == (\E k \in Pairs : LoseEntry(k)) \/ (\E t \in Tasks : Fail(t))

Next == (\E t \in Tasks : Call(t) \/ Step(t)) \/ Environment

Spec == Init /\ [][Next]_vars

-----------------------------------------------------------------------------
(* Ledgers, claims and coroutine locals are well typed, and a coroutine past *)
(* its first await holds a drawn pair.                                       *)
TypeOK ==
    /\ pair \in [Pairs -> Claims \cup {Undrawn}]
    /\ refresh \subseteq Pairs /\ access \subseteq Pairs
    /\ latest \in [Users -> Pairs \cup {NoPair}]
    /\ sessions \subseteq Pairs /\ handed \subseteq Pairs
    /\ uses \in [Pairs -> Nat] /\ out \subseteq Pairs
    /\ lost \in Nat /\ failed \in Nat
    /\ task \in [Tasks -> TaskStates]
    /\ \A t \in Tasks : task[t].pc # "idle" => task[t].k # NoPair

(* Refresh tokens that are in the ledger or about to be written to it. *)
Unspent == refresh \cup {task[t].k : t \in {r \in Tasks : task[r].pc = "put_refresh"}}

(* refresh_token, "a missing old jti means the token was already rotated or  *)
(* revoked": of all the pairs that descend from one login at most one        *)
(* refresh token can still be exchanged, however many refreshes race,        *)
(* entries are lost or calls are aborted.                                    *)
OneLive == \A p, q \in Unspent : pair[p].root = pair[q].root => p = q

(* However the exchanges interleave, a pair and all its descendants belong   *)
(* to the user of the login they began with, and nobody is handed a pair     *)
(* that was never drawn.                                                     *)
SameUser ==
    /\ \A p \in Pairs : pair[p] # Undrawn => pair[p].user = pair[pair[p].root].user
    /\ \A p \in handed : pair[p] # Undrawn

(* docs/CONTRACTS.md "Refresh-token ROTATION": the refresh ledger is a       *)
(* ledger of one-time tokens.                                                *)
Once == INSTANCE SingleUse WITH Tokens <- Pairs, live <- refresh
ExchangedOnce == Once!Spec

(* logout_user with the access token of a login leaves neither its ledger    *)
(* entry nor its session, for good.  (A pair from a refresh carries no        *)
(* session_id, so a logout with it ends no session.)                         *)
LoggedOut == \A k \in out : /\ k \notin access
                            /\ pair[k].from = NoPair => k \notin sessions
=============================================================================
