------------------------------ MODULE SmsCodes ------------------------------
(* SMSManager for one phone: the record of the code that was sent last and the   *)
(* counter of the send window, both in a cache server.  Codes are numbered in    *)
(* the order they are generated.                                                 *)
EXTENDS Coroutines

CONSTANTS MaxSends,    \* max_sends_per_window
          MaxTries     \* max_attempts

ASSUME LimitsAssumption == MaxSends \in Nat \ {0} /\ MaxTries \in Nat \ {0}

VARIABLES
    sends,       \* the send counter
    sendWindow,  \* whether it has a TTL
    record,      \* the stored record: code and attempts, code 0 when there is none
    generated,   \* codes generated so far
    outdated,     \* codes older than expiration_seconds
    admitted,    \* history: sends let through since the window began
    wrong,       \* history: wrong answers to each code
    verified,        \* history: <<code, coroutine's flow>> of the codes verified
    dead         \* history: codes that were verified, capped or withdrawn

smsCache == <<sends, sendWindow, record>>
smsHistory == <<admitted, wrong, verified, dead>>
smsVars == <<smsCache, generated, outdated, smsHistory>>

NoCode == 0
CodeRecord(n, tries) == [code |-> n, tries |-> tries]
NoRecord == CodeRecord(NoCode, 0)
AllCodes == 1..(MaxFlows + 2)

SmsCall(c, kind, step, guess) ==
    /\ Begin(c, [op |-> kind, pc |-> step, guess |-> guess, seen |-> NoRecord, id |-> flows])
    /\ UNCHANGED <<area, backend, raced, smsVars>>

(* Verifications, other than c's, that go on with a copy of the record of code n. *)
Holding(c, n) == {d \in Busy(c) : co[d].seen.code = n}

------------------------------------------------------------------------------
(* send_verification_code *)
Send(c) == SmsCall(c, "send", "count", NoCode)

(* resend_code deletes the record, and sends. *)
Resend(c) == SmsCall(c, "send", "withdraw", NoCode)

Withdraw(c) ==
    /\ At(c, "withdraw")
    /\ record' = NoRecord /\ dead' = dead \cup ({record.code} \ {NoCode})
    /\ Goto(c, "count")
    /\ Overlap("code", record.code, Holding(c, record.code))
    /\ Continue /\ UNCHANGED <<sends, sendWindow, generated, outdated, admitted, wrong, verified>>

(* Mutant: one more. *)
OneMore(n) == n <= MaxSends + 1
MaySend(n) == n <= MaxSends

(* _check_send_rate_limit: the counter is raised, and given its TTL by the call *)
(* that made it 1; the window may have run out before.                          *)
CountSend(c) ==
    /\ At(c, "count")
    /\ \/ sends' = sends + 1 /\ admitted' = admitted + 1 /\ MaySend(sends') /\ UNCHANGED sendWindow
       \/ sends' = sends + 1 /\ ~MaySend(sends') /\ UNCHANGED <<sendWindow, admitted>>
       \/ sendWindow /\ sends' = 1 /\ sendWindow' = FALSE /\ admitted' = 1
    /\ IF sends' = 1 THEN Goto(c, "expire")
       ELSE IF MaySend(sends') THEN Goto(c, "text") ELSE Return(c)
    /\ Continue /\ UNCHANGED <<raced, record, generated, outdated, wrong, verified, dead>>

ExpireSends(c) ==
    /\ At(c, "expire")
    /\ sendWindow' = TRUE
    /\ Goto(c, "text")
    /\ Continue /\ UNCHANGED <<raced, sends, record, generated, outdated, smsHistory>>

(* A code is generated and texted; the provider may fail. *)
TextCode(c) ==
    /\ At(c, "text")
    /\ \/ /\ generated' = generated + 1
          /\ Become(c, [co[c] EXCEPT !.pc = "record", !.guess = generated'])
       \/ Return(c) /\ UNCHANGED generated
    /\ Continue /\ UNCHANGED <<raced, smsCache, outdated, smsHistory>>

SaveRecord(c) ==
    LET n == co[c].guess IN
    /\ At(c, "record")
    /\ record' = CodeRecord(n, 0)
    /\ dead' = dead \cup ({record.code} \ {NoCode})
    /\ Return(c)
    /\ raced' = raced
           \cup (IF Holding(c, record.code) # {} THEN {<<"code", record.code>>} ELSE {})
           \cup (IF \E d \in Busy(c) : At(d, "delete") THEN {<<"code", n>>} ELSE {})
           \cup (IF \E d \in Busy(c) : At(d, "record") THEN {<<"order", "phone">>} ELSE {})
    /\ Continue /\ UNCHANGED <<sends, sendWindow, generated, outdated, admitted, wrong, verified>>

------------------------------------------------------------------------------
(* verify_code *)
Verify(c) == \E n \in 0..generated : SmsCall(c, "verify", "read", n)

(* The record, which expires_at keeps from outliving its code, is read. *)
ReadRecord(c) ==
    LET n == record.code
        taken(step, guess) ==
            Become(c, [co[c] EXCEPT !.pc = step, !.seen = record, !.guess = guess])
    IN
    /\ At(c, "read")
    /\ IF n = NoCode THEN Return(c) /\ UNCHANGED <<record, outdated>>
       ELSE \/ /\ n \notin outdated
               /\ taken(IF record.tries >= MaxTries \/ co[c].guess = n THEN "delete" ELSE "raise",
                        co[c].guess)
               /\ UNCHANGED <<record, outdated>>
            \/ /\ outdated' = outdated \cup {n}
               /\ (taken("delete", NoCode) /\ UNCHANGED record) \/ (Return(c) /\ record' = NoRecord)
    /\ Overlap("code", n, IF n = NoCode THEN {} ELSE Holding(c, n))
    /\ Continue /\ UNCHANGED <<sends, sendWindow, generated, smsHistory>>

(* A wrong answer: the copy is written back with one attempt more. *)
RaiseTries(c) ==
    LET r == CodeRecord(co[c].seen.code, co[c].seen.tries + 1) IN
    /\ At(c, "raise")
    /\ record' = r
    /\ wrong' = [wrong EXCEPT ![r.code] = @ + 1]
    /\ IF r.tries >= MaxTries THEN Become(c, [co[c] EXCEPT !.pc = "delete", !.seen = r]) ELSE Return(c)
    /\ raced' = raced
           \cup (IF Holding(c, r.code) # {} THEN {<<"code", r.code>>} ELSE {})
           \cup (IF record.code \in {r.code, NoCode} THEN {} ELSE {<<"order", "phone">>})
    /\ Continue /\ UNCHANGED <<sends, sendWindow, generated, outdated, admitted, verified, dead>>

(* Right, capped or expired: the key is deleted, whatever it holds by then. *)
DeleteRecord(c) ==
    LET n == co[c].seen.code
        right == co[c].guess = n /\ co[c].seen.tries < MaxTries
    IN
    /\ At(c, "delete")
    /\ record' = NoRecord
    /\ dead' = dead \cup {n}
    /\ verified' = IF right THEN verified \cup {<<n, co[c].id>>} ELSE verified
    /\ Return(c)
    /\ raced' = raced \cup (IF record.code \in {n, NoCode} THEN {} ELSE {<<"code", record.code>>})
    /\ Continue /\ UNCHANGED <<sends, sendWindow, generated, outdated, admitted, wrong>>

(* A request is cancelled, or its process ends. *)
SmsDies(c) ==
    /\ ~At(c, "idle")
    /\ Overlap("died", "window", IF At(c, "expire") THEN {c} ELSE {})
    /\ Return(c)
    /\ Continue /\ UNCHANGED smsVars

SmsAtRest ==
    /\ backend = "memory"      \* the adapter plays no part
    /\ sends \in {0, 1} /\ sendWindow = (sends > 0)
    /\ generated = 1 /\ outdated = {} /\ admitted = sends
    /\ \E tries \in 0..(MaxTries - 1) :
           /\ record = CodeRecord(1, tries)
           /\ wrong = [n \in AllCodes |-> IF n = 1 THEN tries ELSE 0]
    /\ verified = {} /\ dead = {}

SmsNext ==
    \E c \in Coros :
        \/ Send(c) \/ Resend(c) \/ Withdraw(c) \/ CountSend(c) \/ ExpireSends(c) \/ TextCode(c)
        \/ SaveRecord(c) \/ Verify(c) \/ ReadRecord(c) \/ RaiseTries(c) \/ DeleteRecord(c)
        \/ SmsDies(c)

------------------------------------------------------------------------------
(* Properties. *)

(* A code is verified once, is answered wrongly no more often than the maximum, *)
(* and is not stored once it was verified, capped, withdrawn or replaced,       *)
(* unless two requests went on with copies of its record.                       *)
CodeEnds == \A n \in AllCodes : Raced("code", n) \/
    /\ \A x, y \in verified : x[1] = n /\ y[1] = n => x = y
    /\ wrong[n] <= MaxTries
    /\ n \in dead => record.code # n

(* The code that is stored was sent after those that ended, unless two sends    *)
(* were storing theirs, a wrong answer to one code wrote its record over that   *)
(* of another, or two requests went on with copies of its record.               *)
NewestStored ==
    record.code = NoCode \/ Raced("order", "phone") \/ Raced("code", record.code)
        \/ \A n \in dead : n <= record.code

(* The window lets no more codes out than the maximum.  Its counter has a TTL,  *)
(* unless the request that created it died before it set one.                   *)
SendsCapped ==
    /\ admitted <= MaxSends
    /\ sends > 0 /\ ~sendWindow =>
           Raced("died", "window") \/ \E c \in Coros : At(c, "expire")

SmsSound == area = "sms" =>
    /\ record.code \in 0..generated /\ generated \in AllCodes
    /\ CodeEnds /\ NewestStored /\ SendsCapped
==============================================================================
