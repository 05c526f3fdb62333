----------------------------- MODULE PasswordChecks -----------------------------
(* Password policy: the rules that need nothing but the password, and the breach  *)
(* database of Have I Been Pwned, which may not answer, whose answers a manager   *)
(* keeps, and which goes on finding passwords in new breaches.                     *)
EXTENDS Coroutines, FiniteSetsExt

CONSTANT MaxBreaches    \* bound on the count the breach database has for a password

VARIABLES
    minimum,      \* policy.min_breach_count
    failClosed,   \* the provider's flag
    breaches,     \* the count the breach database has for the password
    kept,         \* _breach_cache: the count the manager keeps of it, or None
    verdict       \* history: what the last call returned, and on what, or None

passwordVars == <<minimum, failClosed, breaches, kept, verdict>>
policy == <<minimum, failClosed>>

------------------------------------------------------------------------------
(* validate_password and assess_password_strength of one password, which keeps   *)
(* the local rules or does not.                                                   *)

CheckCall(c) ==
    /\ \E op \in {"validate", "assess"}, strong \in BOOLEAN :
           Begin(c, [op |-> op, pc |-> "ask", strong |-> strong, before |-> kept,
                     basis |-> None, answer |-> None])
    /\ verdict' = None
    /\ UNCHANGED <<area, backend, raced, policy, breaches, kept>>

Compromised(answer) == answer >= Max({1, minimum})

(* The errors are those of the rules, of a count, and of an outage if it fails *)
(* closed.                                                                       *)
IsValid(f, answer) ==
    f.strong /\ IF answer = None THEN ~failClosed ELSE ~Compromised(answer)

Verdict(f, basis, answer) ==
    [valid |-> IsValid(f, basis), basis |-> basis, answer |-> answer,
     before |-> f.before]

(* assess_password_strength asks once more, and reports that answer. *)
Answered(c, answer) ==
    LET f == co[c] IN
    IF f.op = "assess" THEN
        /\ co' = [co EXCEPT ![c] = [f EXCEPT !.op = "report", !.pc = "ask", !.basis = answer]]
        /\ UNCHANGED verdict
    ELSE
        /\ Return(c)
        /\ verdict' = Verdict(f, IF f.op = "report" THEN f.basis ELSE answer, answer)

AskCache(c) ==
    /\ At(c, "ask")
    /\ IF kept # None THEN Answered(c, kept)
       ELSE Goto(c, "request") /\ UNCHANGED verdict
    /\ Continue /\ UNCHANGED <<raced, policy, breaches, kept>>

Requesting(c) == {d \in Busy(c) : co[d].pc \in {"request", "response"}}

(* The breach database counts, and its response is on its way. *)
RangeSearched(c) ==
    /\ At(c, "request")
    /\ co' = [co EXCEPT ![c].pc = "response", ![c].answer = breaches]
    /\ Continue /\ UNCHANGED <<raced, passwordVars>>

(* Mutant: what is not there is not kept. *)
KeepFound(f) == IF f.answer = 0 THEN kept ELSE f.answer
Keep(f) == f.answer

ResponseArrives(c) ==
    /\ At(c, "response")
    /\ kept' = Keep(co[c])
    /\ Overlap("asked", "twice", Requesting(c))
    /\ Answered(c, co[c].answer)
    /\ Continue /\ UNCHANGED <<policy, breaches>>

(* A timeout, or an error. *)
ProviderDown(c) ==
    /\ co[c].pc \in {"request", "response"}
    /\ Answered(c, None)
    /\ Continue /\ UNCHANGED <<raced, policy, breaches, kept>>

BreachPublished ==
    /\ breaches < MaxBreaches
    /\ breaches' = breaches + 1
    /\ UNCHANGED <<base, policy, kept, verdict>>

CheckDies(c) ==
    /\ ~At(c, "idle")
    /\ Return(c)
    /\ Continue /\ UNCHANGED <<raced, passwordVars>>

PasswordsAtRest ==
    /\ backend = "sql"     \* no row is involved
    /\ minimum \in 1..2 /\ failClosed \in BOOLEAN
    /\ breaches \in 0..1
    /\ kept = None
    /\ verdict = None

PasswordsNext ==
    \/ BreachPublished
    \/ \E c \in Coros :
         \/ CheckCall(c) \/ AskCache(c) \/ RangeSearched(c) \/ ResponseArrives(c)
         \/ ProviderDown(c) \/ CheckDies(c)

------------------------------------------------------------------------------
(* Properties. *)

(* A password that is accepted was not found compromised, neither by this call    *)
(* nor by what its manager knew before: only two responses that crossed make a     *)
(* manager forget.  And it was looked for, if the policy is to fail closed.        *)
AcceptedIsClean ==
    verdict # None /\ verdict.valid =>
        /\ verdict.basis # None => verdict.basis < minimum
        /\ verdict.before # None =>
               verdict.before < minimum \/ Raced("asked", "twice")
        /\ verdict.basis = None => ~failClosed

(* An assessment does not call a password valid and report that it is compromised: *)
(* only an outage between its two searches, or a response that crossed, makes it.  *)
OneAssessment ==
    verdict # None /\ verdict.valid /\ verdict.answer # None =>
        verdict.answer < minimum \/ verdict.basis = None \/ Raced("asked", "twice")

PasswordsSound == area = "passwords" => AcceptedIsClean /\ OneAssessment
==============================================================================
