---------------------------- MODULE LoginLimiter ----------------------------
(***************************************************************************)
(* The login rate limit and lockout of utils/security.py, as login_user    *)
(* runs it for one identifier: enforce_login_rate_limit, the password and  *)
(* the MFA code, then record_login_failure or clear_login_failures.  One   *)
(* action is one await.                                                    *)
(*                                                                         *)
(* A key with a TTL is its remaining ticks.                                *)
(***************************************************************************)
EXTENDS Naturals, FiniteSets

CONSTANTS
    Logins,         \* slots for login calls in flight
    MaxAttempts,    \* config.rate_limit_max_attempts
    Window,         \* config.rate_limit_window_seconds, in ticks
    Lockout,        \* config.account_lockout_duration_seconds, in ticks
    MaxAborted      \* bound: calls aborted by an exception, a cancel or a crash

ASSUME LimiterAssumption == {MaxAttempts, Window, Lockout} \subseteq Nat \ {0}
ASSUME LoginsAssumption == MaxAborted \in Nat /\ IsFiniteSet(Logins)

VARIABLES
    count,      \* tessera:ratelimit:login:{id}; 0 is no key
    ttl,        \* its remaining ticks; 0 is no key, or a key that never expires
    lock,       \* remaining ticks of tessera:lockout:{id}; 0 is no key
    wrong,      \* history: wrong guesses checked since the last expiry
    opened,     \* history: whether some login has succeeded; ends the count of wrong
    late,       \* history: whether time passed while a call was in flight
    aborted,    \* aborted calls so far
    login       \* the login calls in flight

limiterVars == <<count, ttl, lock, wrong, opened, late, aborted, login>>

Enforcing == {"get", "ttl", "rearm"}
Recording == {"incr", "check_ttl", "expire", "lock", "drop"}
Clearing == {"clear", "unlock"}
LoginSteps == {"idle", "verify"} \cup Enforcing \cup Recording \cup Clearing

(* n is the count that record_login_failure got from incr. *)
LoginStates == [pc : LoginSteps, n : Nat]
NoLogin == [pc |-> "idle", n |-> 0]

MoveTo(t, step, n) == login' = [login EXCEPT ![t] = [pc |-> step, n |-> n]]
Proceed(t, step) == MoveTo(t, step, 0)
EndLogin(t) == login' = [login EXCEPT ![t] = NoLogin]

LimiterInit == /\ count = 0 /\ ttl = 0 /\ lock = 0 /\ wrong = 0 /\ opened = FALSE /\ late = FALSE /\ aborted = 0
               /\ login = [t \in Logins |-> NoLogin]

-----------------------------------------------------------------------------
(* enforce_login_rate_limit *)

(* Mutant: the lockout marker is not looked at. *)
EnforceUnlocked(t) ==
    /\ login[t] = NoLogin
    /\ Proceed(t, "get")
    /\ UNCHANGED <<count, ttl, lock, wrong, opened, aborted, late>>

(* cache.exists: a locked account is turned away. *)
Enforce(t) ==
    /\ login[t] = NoLogin /\ lock = 0
    /\ Proceed(t, "get")
    /\ UNCHANGED <<count, ttl, lock, wrong, opened, aborted, late>>

ReadCount(t) ==
    /\ login[t].pc = "get"
    /\ Proceed(t, IF count >= MaxAttempts THEN "ttl" ELSE "verify")
    /\ UNCHANGED <<count, ttl, lock, wrong, opened, aborted, late>>

ReadTtl(t) ==
    /\ login[t].pc = "ttl"
    /\ IF ttl = 0 THEN Proceed(t, "rearm") ELSE EndLogin(t)
    /\ UNCHANGED <<count, ttl, lock, wrong, opened, aborted, late>>

(* Mutant: a TTL is noted for a key that is not there. *)
RearmedBlindly == Window

(* cache.expire: nothing happens to a key that is not there. *)
Rearmed == IF count > 0 THEN Window ELSE 0

(* Mutant: a counter that never expires is left as it is. *)
RearmNot(t) ==
    /\ login[t].pc = "rearm"
    /\ EndLogin(t)
    /\ UNCHANGED <<count, ttl, lock, wrong, opened, aborted, late>>

Rearm(t) ==
    /\ login[t].pc = "rearm"
    /\ ttl' = Rearmed
    /\ EndLogin(t)
    /\ UNCHANGED <<count, lock, wrong, opened, aborted, late>>

-----------------------------------------------------------------------------
(* login_user: the user is looked up, the password and the MFA code checked. *)
(* A right password without the MFA code it needs leaves the counter alone.  *)

Guess(t) ==
    /\ login[t].pc = "verify"
    /\ wrong' = IF opened THEN wrong ELSE wrong + 1
    /\ Proceed(t, "incr")
    /\ UNCHANGED <<count, ttl, lock, opened, aborted, late>>

NoCode(t) ==
    /\ login[t].pc = "verify"
    /\ EndLogin(t)
    /\ UNCHANGED <<count, ttl, lock, wrong, opened, aborted, late>>

Succeed(t) ==
    /\ login[t].pc = "verify"
    /\ opened' = TRUE /\ wrong' = 0
    /\ Proceed(t, "clear")
    /\ UNCHANGED <<count, ttl, lock, aborted, late>>

-----------------------------------------------------------------------------
(* record_login_failure *)

(* Mutant: the first failure of a window sets no TTL. *)
IncrUnarmed(t) ==
    /\ login[t].pc = "incr"
    /\ count' = count + 1
    /\ IF count = 0 THEN EndLogin(t) ELSE MoveTo(t, "check_ttl", count + 1)
    /\ UNCHANGED <<ttl, lock, wrong, opened, aborted, late>>

Incr(t) ==
    /\ login[t].pc = "incr"
    /\ count' = count + 1
    /\ MoveTo(t, IF count = 0 THEN "expire" ELSE "check_ttl", count + 1)
    /\ UNCHANGED <<ttl, lock, wrong, opened, aborted, late>>

(* Mutant: the account is locked one failure late. *)
LockIfOver(t) ==
    IF login[t].n > MaxAttempts THEN Proceed(t, "lock") ELSE EndLogin(t)

LockIfReached(t) ==
    IF login[t].n >= MaxAttempts THEN Proceed(t, "lock") ELSE EndLogin(t)

CheckTtl(t) ==
    /\ login[t].pc = "check_ttl"
    /\ IF count > 0 /\ ttl = 0 THEN MoveTo(t, "expire", login[t].n) ELSE LockIfReached(t)
    /\ UNCHANGED <<count, ttl, lock, wrong, opened, aborted, late>>

Expire(t) ==
    /\ login[t].pc = "expire"
    /\ ttl' = Rearmed
    /\ LockIfReached(t)
    /\ UNCHANGED <<count, lock, wrong, opened, aborted, late>>

SetLock(t) ==
    /\ login[t].pc = "lock"
    /\ lock' = Lockout
    /\ Proceed(t, "drop")
    /\ UNCHANGED <<count, ttl, wrong, opened, aborted, late>>

(* Mutant: the counter is not reset when the account is locked. *)
DropCountNot(t) ==
    /\ login[t].pc = "drop"
    /\ EndLogin(t)
    /\ UNCHANGED <<count, ttl, lock, wrong, opened, aborted, late>>

DropCount(t) ==
    /\ login[t].pc = "drop"
    /\ count' = 0 /\ ttl' = 0
    /\ EndLogin(t)
    /\ UNCHANGED <<lock, wrong, opened, aborted, late>>

-----------------------------------------------------------------------------
(* clear_login_failures *)

ClearCount(t) ==
    /\ login[t].pc = "clear"
    /\ count' = 0 /\ ttl' = 0
    /\ Proceed(t, "unlock")
    /\ UNCHANGED <<lock, wrong, opened, aborted, late>>

ClearLock(t) ==
    /\ login[t].pc = "unlock"
    /\ lock' = 0
    /\ EndLogin(t)
    /\ UNCHANGED <<count, ttl, wrong, opened, aborted, late>>

-----------------------------------------------------------------------------
(* Environment *)

Less(n) == IF n = 0 THEN 0 ELSE n - 1

Tick ==
    /\ ttl > 0 \/ lock > 0
    /\ late' = (late \/ \E t \in Logins : login[t] # NoLogin)
    /\ ttl' = Less(ttl) /\ lock' = Less(lock)
    /\ count' = IF ttl = 1 THEN 0 ELSE count
    /\ wrong' = IF ttl = 1 \/ lock = 1 THEN 0 ELSE wrong
    /\ UNCHANGED <<opened, aborted, login>>

Abort(t) ==
    /\ aborted < MaxAborted /\ login[t] # NoLogin
    /\ EndLogin(t) /\ aborted' = aborted + 1
    /\ UNCHANGED <<count, ttl, lock, wrong, opened, late>>

LoginStep(t) ==
    \/ ReadCount(t) \/ ReadTtl(t) \/ Rearm(t)
    \/ Guess(t) \/ NoCode(t) \/ Succeed(t)
    \/ Incr(t) \/ CheckTtl(t) \/ Expire(t) \/ SetLock(t) \/ DropCount(t)
    \/ ClearCount(t) \/ ClearLock(t)

LimiterNext == Tick \/ \E t \in Logins : Enforce(t) \/ LoginStep(t) \/ Abort(t)

LimiterSpec == LimiterInit /\ [][LimiterNext]_limiterVars

(* Calls in flight go on, time passes, and somebody keeps trying to log in. *)
FairLimiterSpec == /\ LimiterSpec
                   /\ \A t \in Logins : WF_limiterVars(LoginStep(t))
                   /\ WF_limiterVars(Tick)
                   /\ WF_limiterVars(\E t \in Logins : Enforce(t))

-----------------------------------------------------------------------------
(* The keys, the history and the locals of the calls are well typed, and a   *)
(* counter that is not there has no TTL.                                     *)
LimiterTypeOK ==
    /\ count \in Nat /\ ttl \in 0..Window /\ lock \in 0..Lockout
    /\ wrong \in Nat /\ opened \in BOOLEAN /\ late \in BOOLEAN /\ aborted \in Nat
    /\ login \in [Logins -> LoginStates]
    /\ count = 0 => ttl = 0

Quiet == \A t \in Logins : login[t] = NoLogin

(* login_user checks the counter and counts in separate awaits, so attempts  *)
(* that run at once overshoot rate_limit_max_attempts; but between two       *)
(* expiries by no more than one guess for each other call in flight, and one *)
(* for each call that was aborted before it counted, as long as every call   *)
(* ends before any key it touches expires.                                   *)
GuessesBounded == ~late => wrong <= MaxAttempts - 1 + Cardinality(Logins) + aborted

(* record_login_failure: when the failures of a window reach the maximum the *)
(* account is locked once the calls have ended, however they interleaved.    *)
LockedAfterMax == Quiet /\ aborted = 0 /\ ~late /\ wrong >= MaxAttempts => lock > 0

(* record_login_failure, "lockout supersedes rate limiting": once the calls  *)
(* have ended without an abort, the counter is below the maximum.            *)
LockoutSupersedes == Quiet /\ aborted = 0 => count < MaxAttempts

(* record_login_failure, "make it expire": no interleaving of its two ways   *)
(* to set the TTL leaves a counter that never expires.                       *)
CounterExpires == Quiet /\ aborted = 0 /\ count > 0 => ttl > 0

(* enforce_login_rate_limit, "a counter without TTL would lock forever;      *)
(* reset it": an account that turns attempts away opens again, also after    *)
(* calls were aborted half-way.                                              *)
TurnsAway == lock > 0 \/ count >= MaxAttempts
OpensAgain == TurnsAway ~> ~TurnsAway
=============================================================================
