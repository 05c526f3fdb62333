---------------------------- MODULE PasswordReset ----------------------------
(***************************************************************************)
(* SecurityManager.request_password_reset and reset_password of            *)
(* utils/security.py, next to logins with the passwords they replace.  One *)
(* action is one await.                                                    *)
(*                                                                         *)
(* A token is its number in the order they are drawn, a password of a user *)
(* the number of resets that preceded it.  Sessions are the active rows of *)
(* the database; the copies in the cache are the subject of Sessions.      *)
(***************************************************************************)
EXTENDS Naturals, FiniteSets

CONSTANTS
    Users,      \* accounts with an e-mail address
    NoUser,     \* not a user
    RevokeAll,  \* config.revoke_sessions_on_password_change
    Tasks,      \* slots for calls in flight
    MaxToken,   \* bound: tokens ever drawn
    MaxLoss,    \* bound: tokens lost (TTL, eviction, restart)
    MaxFail     \* bound: calls aborted by an exception, a cancel or a crash

ASSUME UsersAssumption == NoUser \notin Users
ASSUME ConfigAssumption == RevokeAll \in BOOLEAN
ASSUME BoundsAssumption == {MaxToken, MaxLoss, MaxFail} \subseteq Nat

Tokens == 1..MaxToken
NoToken == 0

VARIABLES
    owner,      \* token -> user_id in its record, NoUser before it is drawn
    live,       \* tessera:reset:{token_hash}
    sent,       \* tokens mailed to their owner
    password,   \* user -> the password in force
    sessions,   \* active sessions: user, password checked, and whether it raced
    revoked,    \* history: user -> how often all sessions were revoked
    settled,    \* history: user -> newest password whose reset has ended
    resets,     \* history: how often a token has set a password
    lost,       \* tokens lost so far
    failed,     \* aborted calls so far
    task        \* the calls in flight

vars == <<owner, live, sent, password, sessions, revoked, settled, resets, lost, failed, task>>

Resetting == {"get", "delete", "update", "revoke"}
Steps == {"idle", "put", "mail", "open"} \cup Resetting

(* k is the token of a reset, v the password it set or a login checked, and  *)
(* r how often the sessions had been revoked when the login checked it.      *)
TaskStates == [pc : Steps, u : Users \cup {NoUser}, k : Tokens \cup {NoToken}, v : Nat, r : Nat]
At(step, u, k) == [pc |-> step, u |-> u, k |-> k, v |-> 0, r |-> 0]
Idle == At("idle", NoUser, NoToken)
SessionRows == [u : Users, v : Nat, raced : BOOLEAN]

Become(t, q) == task' = [task EXCEPT ![t] = q]
Goto(t, step) == Become(t, [task[t] EXCEPT !.pc = step])
Finish(t) == Become(t, Idle)

Fresh == {k \in Tokens : owner[k] = NoUser /\ \A j \in Tokens : owner[j] = NoUser => k <= j}

Init ==
    /\ owner = [k \in Tokens |-> NoUser] /\ live = {} /\ sent = {}
    /\ password = [u \in Users |-> 0] /\ sessions = {}
    /\ revoked = [u \in Users |-> 0] /\ settled = [u \in Users |-> 0]
    /\ resets = [k \in Tokens |-> 0]
    /\ lost = 0 /\ failed = 0
    /\ task = [t \in Tasks |-> Idle]

-----------------------------------------------------------------------------
(* request_password_reset for an account that exists *)

Request(t, u) ==
    /\ task[t] = Idle
    /\ Become(t, At("put", u, NoToken))
    /\ UNCHANGED <<owner, live, sent, password, sessions, revoked, settled, resets, lost, failed>>

Put(t) ==
    /\ task[t].pc = "put"
    /\ \E k \in Fresh :
          /\ owner' = [owner EXCEPT ![k] = task[t].u]
          /\ live' = live \cup {k}
          /\ Become(t, At("mail", NoUser, k))
    /\ UNCHANGED <<sent, password, sessions, revoked, settled, resets, lost, failed>>

Mail(t) ==
    /\ task[t].pc = "mail"
    /\ sent' = sent \cup {task[t].k}
    /\ Finish(t)
    /\ UNCHANGED <<owner, live, password, sessions, revoked, settled, resets, lost, failed>>

-----------------------------------------------------------------------------
(* reset_password *)

Reset(t, k) ==
    /\ task[t] = Idle /\ k \in sent
    /\ Become(t, At("get", NoUser, k))
    /\ UNCHANGED <<owner, live, sent, password, sessions, revoked, settled, resets, lost, failed>>

(* Mutant: a missing record is not rejected. *)
GetUnchecked(t) ==
    LET k == task[t].k IN
    /\ task[t].pc = "get"
    /\ Become(t, At("delete", owner[k], k))
    /\ UNCHANGED <<owner, live, sent, password, sessions, revoked, settled, resets, lost, failed>>

(* consume_reset_token reads the record, and deletes it without looking      *)
(* whether the delete found it.                                              *)
Get(t) ==
    LET k == task[t].k IN
    /\ task[t].pc = "get"
    /\ IF k \in live THEN Become(t, At("delete", owner[k], k))
                     ELSE Finish(t)
    /\ UNCHANGED <<owner, live, sent, password, sessions, revoked, settled, resets, lost, failed>>

Delete(t) ==
    /\ task[t].pc = "delete"
    /\ live' = live \ {task[t].k}
    /\ Goto(t, "update")
    /\ UNCHANGED <<owner, sent, password, sessions, revoked, settled, resets, lost, failed>>

Larger(m, n) == IF m >= n THEN m ELSE n

(* Mutant: the password in the row is left as it was. *)
UpdateNot(t) ==
    LET u == task[t].u IN
    /\ task[t].pc = "update"
    /\ resets' = [resets EXCEPT ![task[t].k] = @ + 1]
    /\ settled' = [settled EXCEPT ![u] = IF RevokeAll THEN @ ELSE Larger(@, password[u] + 1)]
    /\ IF RevokeAll
          THEN Become(t, [pc |-> "revoke", u |-> u, k |-> task[t].k, v |-> password[u] + 1, r |-> 0])
          ELSE Finish(t)
    /\ UNCHANGED <<owner, live, sent, password, sessions, revoked, lost, failed>>

Update(t) ==
    LET u == task[t].u IN
    /\ task[t].pc = "update"
    /\ password' = [password EXCEPT ![u] = @ + 1]
    /\ resets' = [resets EXCEPT ![task[t].k] = @ + 1]
    /\ settled' = [settled EXCEPT ![u] = IF RevokeAll THEN @ ELSE Larger(@, password[u] + 1)]
    /\ IF RevokeAll
          THEN Become(t, [pc |-> "revoke", u |-> u, k |-> task[t].k, v |-> password[u] + 1, r |-> 0])
          ELSE Finish(t)
    /\ UNCHANGED <<owner, live, sent, sessions, revoked, lost, failed>>

(* Mutant: only the sessions with the password before the last are revoked. *)
RevokeOlder(t) ==
    LET u == task[t].u IN
    /\ task[t].pc = "revoke"
    /\ sessions' = {s \in sessions : s.u # u \/ s.v + 1 >= task[t].v}
    /\ revoked' = [revoked EXCEPT ![u] = @ + 1]
    /\ settled' = [settled EXCEPT ![u] = Larger(@, task[t].v)]
    /\ Finish(t)
    /\ UNCHANGED <<owner, live, sent, password, resets, lost, failed>>

Revoke(t) ==
    LET u == task[t].u IN
    /\ task[t].pc = "revoke"
    /\ sessions' = {s \in sessions : s.u # u}
    /\ revoked' = [revoked EXCEPT ![u] = @ + 1]
    /\ settled' = [settled EXCEPT ![u] = Larger(@, task[t].v)]
    /\ Finish(t)
    /\ UNCHANGED <<owner, live, sent, password, resets, lost, failed>>

-----------------------------------------------------------------------------
(* login_user with the password in force: the row is read, and some awaits   *)
(* later the session is created.                                             *)

Check(t, u) ==
    /\ task[t] = Idle
    /\ Become(t, [pc |-> "open", u |-> u, k |-> NoToken, v |-> password[u], r |-> revoked[u]])
    /\ UNCHANGED <<owner, live, sent, password, sessions, revoked, settled, resets, lost, failed>>

Open(t) ==
    LET u == task[t].u IN
    /\ task[t].pc = "open"
    /\ sessions' = sessions \cup {[u |-> u, v |-> task[t].v, raced |-> revoked[u] # task[t].r]}
    /\ Finish(t)
    /\ UNCHANGED <<owner, live, sent, password, revoked, settled, resets, lost, failed>>

-----------------------------------------------------------------------------
(* Environment *)

LoseToken(k) ==
    /\ lost < MaxLoss /\ k \in live
    /\ live' = live \ {k} /\ lost' = lost + 1
    /\ UNCHANGED <<owner, sent, password, sessions, revoked, settled, resets, failed, task>>

Fail(t) ==
    /\ failed < MaxFail /\ task[t] # Idle
    /\ Finish(t) /\ failed' = failed + 1
    /\ UNCHANGED <<owner, live, sent, password, sessions, revoked, settled, resets, lost>>

Call(t) ==
    \/ \E u \in Users : Request(t, u) \/ Check(t, u)
    \/ \E k \in Tokens : Reset(t, k)

Step(t) ==
    \/ Put(t) \/ Mail(t) \/ Get(t) \/ Delete(t)
    \/ Update(t) \/ Revoke(t) \/ Open(t)

Environment == (\E k \in Tokens : LoseToken(k)) \/ (\E t \in Tasks : Fail(t))

Next == (\E t \in Tasks : Call(t) \/ Step(t)) \/ Environment

Spec == Init /\ [][Next]_vars

-----------------------------------------------------------------------------
(* Stores, history and locals are well typed, a reset acts on the account    *)
(* its token was issued for, and no password is in use before it was set.    *)
TypeOK ==
    /\ owner \in [Tokens -> Users \cup {NoUser}]
    /\ password \in [Users -> Nat] /\ sessions \subseteq SessionRows
    /\ revoked \in [Users -> Nat] /\ settled \in [Users -> Nat]
    /\ resets \in [Tokens -> Nat] /\ lost \in Nat /\ failed \in Nat
    /\ task \in [Tasks -> TaskStates]
    /\ \A k \in live \cup sent : k \in Tokens /\ owner[k] # NoUser
    /\ \A t \in Tasks : task[t].pc \in {"delete", "update", "revoke"} => task[t].u = owner[task[t].k]
    /\ \A u \in Users : settled[u] <= password[u]
    /\ \A s \in sessions : s.v <= password[s.u]

(* reset_password, "Also revokes all of the user's sessions": once a reset   *)
(* has ended, a session that was opened with an older password belongs to a  *)
(* login that had checked it before the revocation and stored the session    *)
(* after it.                                                                 *)
StaleOnlyByRace == RevokeAll => \A s \in sessions : s.v < settled[s.u] => s.raced

(* Nothing is under way that read the record of k before it was deleted. *)
Holding(t, k) == task[t].k = k /\ task[t].pc \in {"delete", "update"}
Spent(k) == owner[k] # NoUser /\ k \notin live /\ \A t \in Tasks : ~Holding(t, k)

(* consume_reset_token, "None when the token is unknown, expired, or already *)
(* consumed": with no reset by it still under way, a token that was consumed *)
(* or has expired never sets a password again.  (Two resets that both read    *)
(* the record before either deletes it do both set one, against "exactly     *)
(* once (atomic get-and-delete)".)                                           *)
SpentStaysSpent ==
    [][\A k \in Tokens : Spent(k) => Spent(k)' /\ resets'[k] = resets[k]]_vars
=============================================================================
