---------------------------------- MODULE Mfa ----------------------------------
(* MFAAuthManager for one user: the pending secret and the failure counter in a  *)
(* cache server, the secret and the backup codes in the user's row.  A TOTP code *)
(* stands for the secret it was computed from; its time step is left out.        *)
EXTENDS Coroutines

CONSTANTS
    MaxAttempts,   \* rate_limit_max_attempts
    Batch          \* numbers of the backup codes of one activation

ASSUME MaxAttemptsAssumption == MaxAttempts \in Nat \ {0}

VARIABLES
    offered,     \* the pending secret, or NoSecret
    row,         \* the user's row: enabled, secret, codes
    attempts,    \* the failure counter
    window,      \* whether the counter has a TTL
    secrets,     \* secrets handed out so far
    batches,     \* sets of backup codes generated so far
    rejected,    \* history: failures since the window began
    spent,       \* history: <<code, coroutine's flow>> of the backup codes accepted
    lostSetup    \* history: pending secrets deleted by the confirmation of another one

mfaCache == <<offered, attempts, window>>
mfaHistory == <<rejected, spent, lostSetup>>
drawn == <<secrets, batches>>
mfaVars == <<mfaCache, row, drawn, mfaHistory>>

NoSecret == 0
MfaRow(on, s, cs) == [enabled |-> on, secret |-> s, codes |-> cs]
CodesOf(b) == {b} \X Batch
Totp(s) == <<s, 0>>      \* the code of an authenticator that holds s

(* USER_UPDATABLE_FIELDS of the MongoDB adapter has neither mfa_backup_codes nor *)
(* mfa_confirmed_at: the whole update is refused.                                *)
RefusesMfaFields == backend = "mongodb"

(* The copy of the row that a request goes on with. *)
ReadUser(kind, step, code) ==
    [op |-> kind, pc |-> step, copy |-> row, code |-> code, secret |-> NoSecret, id |-> flows]

------------------------------------------------------------------------------
(* setup_mfa and reconfigure_mfa: the row is checked, then a secret is stored. *)

SetupMfa(c) ==
    /\ Begin(c, ReadUser("setup", "offer", Totp(NoSecret)))
    /\ UNCHANGED <<area, backend, raced, mfaVars>>

StorePending(c) ==
    /\ At(c, "offer")
    /\ secrets' = secrets + 1
    /\ offered' = secrets'
    /\ Overlap("pending", "user",
               {d \in Busy(c) : co[d].op = "confirm" /\ co[d].pc \in {"compare", "drop"}})
    /\ Return(c)
    /\ Continue /\ UNCHANGED <<attempts, window, row, batches, mfaHistory>>

------------------------------------------------------------------------------
(* Requests with a code: of a secret, or a backup code. *)

ConfirmMfa(c) ==
    \E s \in 0..secrets :
        /\ Begin(c, ReadUser("confirm", "budget", Totp(s)))
        /\ UNCHANGED <<area, backend, raced, mfaVars>>

VerifyMfaCode(c) ==
    \E s \in 0..secrets :
        /\ row.enabled /\ Begin(c, ReadUser("verify", "budget", Totp(s)))
        /\ UNCHANGED <<area, backend, raced, mfaVars>>

UseBackupCode(c) ==
    \E code \in (1..batches) \X Batch :
        /\ row.enabled /\ Begin(c, ReadUser("backup", "budget", code))
        /\ UNCHANGED <<area, backend, raced, mfaVars>>

(* _check_attempt_budget; the window may have run out when the counter is read. *)
WindowEnds == window /\ attempts' = 0 /\ window' = FALSE /\ rejected' = 0
WindowLasts == UNCHANGED <<attempts, window, rejected>>

(* Mutant: the counter is not looked at. *)
AnyBudget(n) == TRUE
WithinBudget(n) == n < MaxAttempts

CheckAttemptBudget(c) ==
    /\ At(c, "budget")
    /\ WindowEnds \/ WindowLasts
    /\ IF WithinBudget(attempts')
       THEN Goto(c, IF co[c].op = "confirm" THEN "peek" ELSE "compare")
       ELSE Goto(c, "turned")
    /\ Continue /\ UNCHANGED <<raced, offered, row, drawn, spent, lostSetup>>

(* Turned away: a counter that has no TTL is given one. *)
TurnAway(c) ==
    /\ At(c, "turned")
    /\ window' = (attempts > 0)
    /\ Return(c)
    /\ Continue /\ UNCHANGED <<raced, offered, attempts, row, drawn, mfaHistory>>

PeekPending(c) ==
    /\ At(c, "peek")
    /\ \/ /\ offered # NoSecret
          /\ Become(c, [co[c] EXCEPT !.pc = "compare", !.secret = offered])
          /\ UNCHANGED offered
       \/ offered' = NoSecret /\ Return(c)      \* none, or it has expired
    /\ Continue /\ UNCHANGED <<raced, attempts, window, row, drawn, mfaHistory>>

CodeMatches(f) ==
    CASE f.op = "confirm" -> f.code = Totp(f.secret)
      [] f.op = "verify"  -> f.code = Totp(f.copy.secret)
      [] f.op = "backup"  -> f.code \in f.copy.codes

(* The comparison, and _record_failed_attempt's increment when it fails. *)
Compare(c) ==
    /\ At(c, "compare")
    /\ IF CodeMatches(co[c])
       THEN /\ Goto(c, CASE co[c].op = "confirm" -> "drop"
                         [] co[c].op = "verify"  -> "clear"
                         [] co[c].op = "backup"  -> "update")
            /\ UNCHANGED <<attempts, rejected, raced>>
       ELSE /\ attempts' = attempts + 1 /\ rejected' = rejected + 1
            /\ Goto(c, "ttl")
            /\ Overlap("budget", "user", {d \in Busy(c) : co[d].pc \in {"peek", "compare"}})
    /\ Continue /\ UNCHANGED <<offered, window, row, drawn, spent, lostSetup>>

(* The counter's TTL is set if this was its first failure or it has none; the   *)
(* counter may be gone by then.                                                 *)
ExpireCounter(c) ==
    /\ At(c, "ttl")
    /\ window' = (attempts > 0)
    /\ Return(c)
    /\ Continue /\ UNCHANGED <<raced, offered, attempts, row, drawn, mfaHistory>>

DropPending(c) ==
    /\ At(c, "drop")
    /\ offered' = NoSecret
    /\ lostSetup' = lostSetup \cup ({offered} \ {co[c].secret, NoSecret})
    /\ Goto(c, "update")
    /\ Continue /\ UNCHANGED <<raced, attempts, window, row, drawn, rejected, spent>>

(* update_user: confirm_mfa writes the secret and new codes, a backup code the  *)
(* list that was read without it.                                               *)
(* Mutant: the code stays in the list. *)
EveryCode(f) == f.copy.codes
Remaining(f) == f.copy.codes \ {f.code}

Updated(f) ==
    IF f.op = "confirm" THEN MfaRow(TRUE, f.secret, CodesOf(batches + 1))
    ELSE [row EXCEPT !.codes = Remaining(f)]

UpdateUser(c) ==
    /\ At(c, "update")
    /\ IF RefusesMfaFields THEN Return(c) /\ UNCHANGED <<row, batches, spent, raced>>
       ELSE /\ row' = Updated(co[c])
            /\ batches' = IF co[c].op = "confirm" THEN batches + 1 ELSE batches
            /\ spent' = IF co[c].op = "backup" THEN spent \cup {<<co[c].code, co[c].id>>} ELSE spent
            /\ Overlap("codes", "user", {d \in Busy(c) : co[d].op = "backup" /\ co[d].copy # row'})
            /\ Goto(c, "clear")
    /\ Continue /\ UNCHANGED <<mfaCache, secrets, rejected, lostSetup>>

(* _clear_attempts *)
ClearAttempts(c) ==
    /\ At(c, "clear")
    /\ attempts' = 0 /\ window' = FALSE /\ rejected' = 0
    /\ Return(c)
    /\ Continue /\ UNCHANGED <<raced, offered, row, drawn, spent, lostSetup>>

(* A request is cancelled, or its process ends. *)
MfaDies(c) ==
    /\ ~At(c, "idle")
    /\ Overlap("died", "counter", IF At(c, "ttl") THEN {c} ELSE {})
    /\ Return(c)
    /\ Continue /\ UNCHANGED mfaVars

(* A user without MFA, or with it and half of a rotation; some failures. *)
MfaAtRest ==
    /\ backend \in {"sql", "mongodb"}     \* the other adapters accept the update, as SQL
    /\ secrets = 1 /\ batches = 1 /\ offered \in {NoSecret, 1}
    /\ row = IF offered = NoSecret /\ ~RefusesMfaFields THEN MfaRow(TRUE, 1, CodesOf(1))
             ELSE MfaRow(FALSE, NoSecret, {})
    /\ attempts \in {0, MaxAttempts - 1} /\ window = (attempts > 0) /\ rejected = attempts
    /\ spent = {} /\ lostSetup = {}

MfaNext ==
    \E c \in Coros :
        \/ SetupMfa(c) \/ StorePending(c) \/ ConfirmMfa(c) \/ VerifyMfaCode(c)
        \/ UseBackupCode(c) \/ CheckAttemptBudget(c) \/ TurnAway(c) \/ PeekPending(c)
        \/ Compare(c) \/ ExpireCounter(c) \/ DropPending(c) \/ UpdateUser(c)
        \/ ClearAttempts(c) \/ MfaDies(c)

------------------------------------------------------------------------------
(* Properties. *)

(* A backup code is accepted once and is of the activation in force, unless the *)
(* list was written while another request held a copy of it.                    *)
CodesOnce == Raced("codes", "user") \/
    /\ \A x, y \in spent : x[1] = y[1] => x = y
    /\ \A x \in spent : x[1] \notin row.codes
    /\ row.codes \subseteq CodesOf(batches)

(* No more failures than the maximum are answered in one window, but for those  *)
(* that were past the check when another one was counted.                       *)
GuessesCapped == rejected > MaxAttempts => Raced("budget", "user")

(* A confirmation drops no pending secret but its own, unless another setup      *)
(* stored one after the confirmation had read its own.                          *)
SetupsKept == lostSetup # {} => Raced("pending", "user")

(* A counter has a TTL once every request is over, unless one died in between. *)
CounterEnds == attempts > 0 /\ ~window =>
    Raced("died", "counter") \/ \E c \in Coros : At(c, "ttl")

MfaSound == area = "mfa" =>
    /\ offered \in 0..secrets /\ row.secret \in 0..secrets
    /\ row.codes \subseteq (1..batches) \X Batch
    /\ row.enabled => row.secret # NoSecret
    /\ CodesOnce /\ GuessesCapped /\ SetupsKept /\ CounterEnds
==============================================================================
