---------------------------- MODULE AccessProofs ----------------------------
(* The codes by SMS, for every number of coroutines, flows, codes and tries;   *)
(* and then federated login and the second factors in every behaviour of the   *)
(* system.                                                                     *)
EXTENDS Access, SignInProofs, FiniteSetTheorems, TLAPS

------------------------------------------------------------------------------
(* Codes by SMS: one record, a budget of requests and of tries.               *)

SmsCalls ==
    [op : {"send", "verify"},
     pc : {"withdraw", "count", "expire", "text", "record", "read", "raise", "delete"},
     guess : Nat, seen : [code : Nat, tries : Nat], id : Nat]
SmsFrames == {Idle} \cup SmsCalls

(* A code that is to be stored: it was not before, and is the newest. *)
Unstored(n) == n \notin dead /\ record.code # n /\ (n \in AllCodes => wrong[n] = 0)
Latest(n) == Raced("order", "phone") \/ (record.code < n /\ \A k \in dead : k < n)

CodeHeld(q) ==
    /\ q.pc \in {"raise", "delete"} => q.seen.code \in 1..generated
    /\ q.pc \notin {"raise", "delete"} => q.seen.code = NoCode
    /\ q.pc = "raise" => q.seen.tries < MaxTries
    /\ q.pc = "record" => q.guess \in 1..generated /\ Unstored(q.guess) /\ Latest(q.guess)

(* The copy of a record that a verification goes on with. *)
Copied(q) ==
    q.seen.code # NoCode => Raced("code", q.seen.code) \/
        /\ q.seen.code \notin dead
        /\ q.seen.code \in AllCodes => wrong[q.seen.code] <= q.seen.tries
        /\ record = q.seen \/ (record.code # q.seen.code /\ Raced("order", "phone"))

SmsCalled(q) == CodeHeld(q) /\ Copied(q)

(* Two calls: one copy of a record, and no two that store the same code. *)
SmsApart(q, r) ==
    /\ q.seen.code # NoCode /\ r.seen.code = q.seen.code => Raced("code", q.seen.code)
    /\ q.pc = "record" => r.seen.code # q.guess /\ (Raced("order", "phone") \/ r.seen.code < q.guess)
    /\ q.pc = "record" /\ r.pc = "record" => q.guess # r.guess

CodeTypes ==
    /\ generated \in Nat
    /\ record \in [code : Nat, tries : Nat] /\ record.code <= generated
    /\ dead \subseteq 1..generated
    /\ verified \subseteq (1..generated) \X Nat
    /\ wrong \in [AllCodes -> Nat]
    /\ \A n \in AllCodes : n > generated => wrong[n] = 0

(* The record of a code has its wrong answers, and a code that was verified or   *)
(* has ended is not stored.                                                      *)
CodesKept ==
    /\ \A n \in AllCodes : record.code = n => Raced("code", n) \/ wrong[n] <= record.tries
    /\ \A x \in verified : x[1] \in dead
    /\ record.code \in dead => Raced("code", record.code)

CodesInv ==
    /\ CodeTypes /\ CodesKept
    /\ co \in [Coros -> SmsFrames]
    /\ \A c \in Coros : co[c] # Idle => SmsCalled(co[c])
    /\ \A c, d \in Coros : c # d /\ co[c] # Idle /\ co[d] # Idle => SmsApart(co[c], co[d])
    /\ CodeEnds /\ NewestStored

LEMMA SmsFrameFacts ==
    ASSUME NEW q \in SmsFrames
    PROVE  /\ q # Idle <=> q.pc # "idle"
           /\ q # Idle => q \in SmsCalls
BY DEF SmsFrames, SmsCalls, Idle

LEMMA SmsCallFacts ==
    ASSUME NEW q \in SmsCalls
    PROVE  /\ q # Idle /\ q \in SmsFrames
           /\ q.pc \in {"withdraw", "count", "expire", "text", "record", "read", "raise", "delete"}
           /\ q.guess \in Nat /\ q.id \in Nat
           /\ q.seen \in [code : Nat, tries : Nat] /\ q.seen.code \in Nat /\ q.seen.tries \in Nat
BY DEF SmsCalls, SmsFrames, Idle

LEMMA SmsAssembled ==
    ASSUME CodesInv, NEW c \in Coros, NEW q \in SmsFrames, Become(c, q), raced \subseteq raced',
           q # Idle => SmsCalled(q)',
           \A d \in Coros \ {c}, r \in SmsCalls : r = co[d] =>
               /\ SmsCalled(r)'
               /\ q # Idle => SmsApart(q, r)' /\ SmsApart(r, q)',
           CodeTypes', CodesKept', CodeEnds', NewestStored'
    PROVE  CodesInv'
<1>1. co' \in [Coros -> SmsFrames] /\ \A d \in Coros : co'[d] = IF d = c THEN q ELSE co[d]
    BY DEF CodesInv, Become
<1>2. ASSUME NEW d \in Coros, co'[d] # Idle PROVE SmsCalled(co[d])'
    <2> SUFFICES ASSUME NEW r, r = co'[d] PROVE SmsCalled(r)'
        BY DEF SmsCalled, CodeHeld, Copied, Unstored, Latest, Raced
    <2>1. r = q \/ (d # c /\ r = co[d] /\ r \in SmsCalls)
        BY <1>1, <1>2, SmsFrameFacts DEF CodesInv
    <2> QED BY <1>1, <1>2, <2>1
<1>3. ASSUME NEW d \in Coros, NEW e \in Coros, d # e, co'[d] # Idle, co'[e] # Idle
      PROVE  SmsApart(co[d], co[e])'
    <2> SUFFICES ASSUME NEW r, NEW s, r = co'[d], s = co'[e] PROVE SmsApart(r, s)'
        BY DEF SmsApart, Raced
    <2>1. CASE d # c /\ e # c
        <3>1. SmsApart(r, s)
            BY <1>1, <1>3, <2>1 DEF CodesInv
        <3> QED BY <3>1 DEF SmsApart, Raced
    <2>2. CASE d = c
        <3>1. r = q /\ s = co[e] /\ s \in SmsCalls
            BY <1>1, <1>3, <2>2, SmsFrameFacts DEF CodesInv
        <3> QED BY <1>1, <1>3, <2>2, <3>1
    <2>3. CASE e = c
        <3>1. s = q /\ r = co[d] /\ r \in SmsCalls
            BY <1>1, <1>3, <2>3, SmsFrameFacts DEF CodesInv
        <3> QED BY <1>1, <1>3, <2>3, <3>1
    <2> QED BY <2>1, <2>2, <2>3
<1> QED BY <1>1, <1>2, <1>3 DEF CodesInv

(* Calls that have no code yet: the others keep what they rely on. *)
LEMMA PlainApart ==
    ASSUME NEW q \in SmsCalls, NEW r \in SmsCalls, q.pc # "record", q.seen.code = NoCode, CodeHeld(r)
    PROVE  SmsApart(q, r)' /\ SmsApart(r, q)'
BY SmsCallFacts DEF SmsApart, CodeHeld, NoCode

(* The codes stay as they are. *)
LEMMA CodesQuiet ==
    ASSUME CodesInv, NEW c \in Coros, NEW q \in SmsFrames, Become(c, q), raced \subseteq raced',
           UNCHANGED <<record, generated, wrong, verified, dead>>,
           q # Idle => q.seen.code = NoCode /\ q.pc \notin {"record", "raise", "delete"}
    PROVE  CodesInv'
<1>1. CodeTypes' /\ CodesKept' /\ CodeEnds' /\ NewestStored'
    BY DEF CodesInv, CodeTypes, CodesKept, CodeEnds, NewestStored, Raced
<1>2. q # Idle => q \in SmsCalls
    BY SmsFrameFacts
<1>3. q # Idle => SmsCalled(q)'
    BY DEF SmsCalled, CodeHeld, Copied
<1>4. ASSUME NEW d \in Coros \ {c}, NEW r \in SmsCalls, r = co[d]
      PROVE  /\ SmsCalled(r)'
             /\ q # Idle => SmsApart(q, r)' /\ SmsApart(r, q)'
    <2>1. SmsCalled(r)
        BY <1>4, SmsCallFacts DEF CodesInv
    <2>2. SmsCalled(r)'
        BY <2>1 DEF SmsCalled, CodeHeld, Copied, Unstored, Latest, Raced
    <2> QED BY <1>2, <2>1, <2>2, PlainApart DEF SmsCalled
<1> QED BY <1>1, <1>3, <1>4, SmsAssembled

LEMMA SmsBegins ==
    ASSUME CodesInv, NEW c \in Coros, NEW kind \in {"send", "verify"}, NEW step \in {"count", "withdraw", "read"},
           NEW n \in Nat, flows \in Nat, SmsCall(c, kind, step, n)
    PROVE  CodesInv'
<1> SUFFICES ASSUME NEW q, q = [op |-> kind, pc |-> step, guess |-> n, seen |-> NoRecord, id |-> flows]
             PROVE  CodesInv'
    OBVIOUS
<1>1. Become(c, q) /\ raced' = raced /\ UNCHANGED <<record, generated, wrong, verified, dead>>
    BY DEF SmsCall, Begin, smsVars, smsCache, smsHistory
<1>2. NoRecord \in [code : Nat, tries : Nat] /\ NoRecord.code = NoCode
    BY DEF NoRecord, CodeRecord, NoCode
<1>3. q \in SmsCalls
    BY <1>2 DEF SmsCalls
<1>4. q.pc \in {"count", "withdraw", "read"} /\ q.seen.code = NoCode
    BY <1>2
<1> QED BY <1>1, <1>3, <1>4, CodesQuiet DEF SmsFrames

LEMMA SmsReturns ==
    ASSUME CodesInv, NEW c \in Coros, Return(c), raced \subseteq raced',
           UNCHANGED <<record, generated, wrong, verified, dead>>
    PROVE  CodesInv'
BY CodesQuiet DEF Return, SmsFrames

(* The sends. *)
LEMMA SmsMoves ==
    ASSUME CodesInv, NEW c \in Coros, NEW step \in {"count", "expire", "text"}, Goto(c, step),
           co[c].pc \in {"count", "expire"}, raced' = raced,
           UNCHANGED <<record, generated, wrong, verified, dead>>
    PROVE  CodesInv'
<1> SUFFICES ASSUME NEW f, f = co[c], NEW q, q = [f EXCEPT !.pc = step] PROVE CodesInv'
    OBVIOUS
<1>1. f \in SmsCalls /\ SmsCalled(f)
    BY SmsFrameFacts DEF CodesInv
<1>2. q \in SmsCalls /\ q.pc = step /\ q.seen = f.seen
    BY <1>1 DEF SmsCalls
<1>3. f.seen.code = NoCode
    BY <1>1 DEF SmsCalled, CodeHeld
<1> QED BY <1>2, <1>3, CodesQuiet DEF Goto, SmsFrames

LEMMA CountSendSteps ==
    ASSUME CodesInv, NEW c \in Coros, CountSend(c)
    PROVE  CodesInv'
<1>1. co[c].pc = "count" /\ raced' = raced /\ UNCHANGED <<record, generated, wrong, verified, dead>>
    BY DEF CountSend, At
<1>2. Goto(c, "expire") \/ Goto(c, "text") \/ Return(c)
    BY DEF CountSend
<1> QED BY <1>1, <1>2, SmsMoves, SmsReturns

LEMMA ExpireSendsSteps ==
    ASSUME CodesInv, NEW c \in Coros, ExpireSends(c)
    PROVE  CodesInv'
<1>1. /\ co[c].pc = "expire" /\ raced' = raced /\ UNCHANGED <<record, generated, wrong, verified, dead>>
      /\ Goto(c, "text")
    BY DEF ExpireSends, At, smsHistory
<1> QED BY <1>1, SmsMoves

LEMMA TextCodeSteps ==
    ASSUME CodesInv, NEW c \in Coros, TextCode(c)
    PROVE  CodesInv'
<1> SUFFICES ASSUME NEW f, f = co[c] PROVE CodesInv'
    OBVIOUS
<1>1. f.pc = "text" /\ f \in SmsCalls /\ SmsCalled(f) /\ raced' = raced
      /\ UNCHANGED <<record, wrong, verified, dead>>
    BY SmsFrameFacts DEF CodesInv, TextCode, At, smsCache, smsHistory
<1>2. CASE Return(c) /\ UNCHANGED generated
    BY <1>1, <1>2, SmsReturns
<1>3. CASE generated' = generated + 1 /\ Become(c, [f EXCEPT !.pc = "record", !.guess = generated'])
    <2> SUFFICES ASSUME NEW n, n = generated', NEW q, q = [f EXCEPT !.pc = "record", !.guess = n] PROVE CodesInv'
        OBVIOUS
    <2>1. /\ generated \in Nat /\ n = generated + 1 /\ n \in Nat /\ generated' \in Nat
          /\ record \in [code : Nat, tries : Nat] /\ record.code <= generated
          /\ dead \subseteq 1..generated /\ verified \subseteq (1..generated) \X Nat
          /\ wrong \in [AllCodes -> Nat] /\ (\A k \in AllCodes : k > generated => wrong[k] = 0)
        BY <1>3 DEF CodesInv, CodeTypes
    <2>2. /\ q \in SmsCalls /\ q.pc = "record" /\ q.guess = n /\ q.seen = f.seen /\ f.seen.code = NoCode
          /\ Become(c, q)
        <3>1. q \in SmsCalls /\ q.pc = "record" /\ q.guess = n /\ q.seen = f.seen
            BY <1>1, <2>1 DEF SmsCalls
        <3>2. f.seen.code = NoCode
            BY <1>1 DEF SmsCalled, CodeHeld
        <3> QED BY <1>3, <3>1, <3>2
    <2>3. CodeTypes'
        <3>1. record.code <= generated' /\ 1..generated \subseteq 1..generated'
            BY <2>1
        <3>2. \A k \in AllCodes : k > generated' => wrong[k] = 0
            BY <2>1, FlowsAssumption DEF AllCodes
        <3>3. verified \subseteq (1..generated') \X Nat
            BY <2>1, <3>1
        <3> QED BY <1>1, <2>1, <3>1, <3>2, <3>3 DEF CodeTypes
    <2>4. CodesKept' /\ CodeEnds' /\ NewestStored'
        BY <1>1 DEF CodesInv, CodesKept, CodeEnds, NewestStored, Raced
    <2>5. Unstored(n)' /\ Latest(n)'
        <3>1. n \notin dead /\ record.code # n /\ record.code < n /\ \A k \in dead : k < n
            BY <2>1
        <3>2. n \in AllCodes => wrong[n] = 0
            BY <2>1
        <3> QED BY <1>1, <3>1, <3>2 DEF Unstored, Latest
    <2>6. SmsCalled(q)'
        <3>1. n \in 1..generated'
            BY <2>1
        <3> QED BY <2>2, <2>5, <3>1 DEF SmsCalled, CodeHeld, Copied
    <2>7. ASSUME NEW d \in Coros \ {c}, NEW r \in SmsCalls, r = co[d]
          PROVE  /\ SmsCalled(r)'
                 /\ SmsApart(q, r)' /\ SmsApart(r, q)'
        <3>1. SmsCalled(r)
            BY <2>7, SmsCallFacts DEF CodesInv
        <3>2. Copied(r)'
            BY <1>1, <3>1 DEF SmsCalled, Copied, Raced
        <3>3. CodeHeld(r)'
            <4>1. 1..generated \subseteq 1..generated'
                BY <2>1
            <4> QED BY <1>1, <3>1, <4>1 DEF SmsCalled, CodeHeld, Unstored, Latest, Raced
        <3>4. r.seen.code < n /\ (r.pc = "record" => r.guess < n /\ 0 < r.guess)
            BY <2>1, <3>1, SmsCallFacts DEF SmsCalled, CodeHeld, NoCode
        <3>5. SmsApart(q, r)' /\ SmsApart(r, q)'
            BY <2>1, <2>2, <3>4, SmsCallFacts DEF SmsApart, NoCode
        <3> QED BY <3>2, <3>3, <3>5 DEF SmsCalled
    <2> QED BY <1>1, <2>2, <2>3, <2>4, <2>6, <2>7, SmsAssembled DEF SmsFrames
<1> QED BY <1>2, <1>3 DEF TextCode

(* The record goes: by a new send, or with its TTL. *)
LEMMA RecordGone ==
    ASSUME CodesInv, NEW c \in Coros, NEW q \in SmsFrames, Become(c, q),
           raced \subseteq raced', \A d \in Coros \ {c} :
               co[d] # Idle /\ co[d].seen.code = record.code => <<"code", record.code>> \in raced',
           q # Idle => q.seen.code = NoCode /\ q.pc \notin {"record", "raise", "delete"},
           record' = NoRecord, dead' \in {dead, dead \cup ({record.code} \ {NoCode})},
           UNCHANGED <<generated, wrong, verified>>
    PROVE  CodesInv'
<1>1. record'.code = 0 /\ record'.tries = 0 /\ record' \in [code : Nat, tries : Nat]
    BY DEF NoRecord, CodeRecord, NoCode
<1>2. /\ generated \in Nat /\ record.code \in Nat /\ record.code <= generated /\ dead \subseteq 1..generated
    BY DEF CodesInv, CodeTypes
<1>3. dead' \subseteq 1..generated /\ dead \subseteq dead' /\ \A n \in dead' : n \in dead \/ n = record.code
    BY <1>2 DEF NoCode
<1>4. CodeTypes'
    BY <1>1, <1>2, <1>3 DEF CodesInv, CodeTypes
<1>5. CodesKept' /\ CodeEnds' /\ NewestStored'
    <2>1. \A n \in dead' : n # 0
        BY <1>2, <1>3
    <2>2. \A n \in AllCodes : n # 0
        BY FlowsAssumption DEF AllCodes
    <2>3. CodesKept'
        BY <1>1, <1>3, <2>1, <2>2 DEF CodesInv, CodesKept
    <2>4. CodeEnds'
        BY <1>1, <2>2 DEF CodesInv, CodeEnds, Raced
    <2> QED BY <1>1, <2>3, <2>4 DEF NewestStored, NoCode
<1>6. q # Idle => q \in SmsCalls
    BY SmsFrameFacts
<1>7. q # Idle => SmsCalled(q)'
    BY DEF SmsCalled, CodeHeld, Copied
<1>8. ASSUME NEW d \in Coros \ {c}, NEW r \in SmsCalls, r = co[d]
      PROVE  /\ SmsCalled(r)'
             /\ q # Idle => SmsApart(q, r)' /\ SmsApart(r, q)'
    <2>1. SmsCalled(r)
        BY <1>8, SmsCallFacts DEF CodesInv
    <2>2. CodeHeld(r)'
        <3>1. ASSUME r.pc = "record" PROVE Unstored(r.guess)' /\ Latest(r.guess)'
            <4>1. r.guess \in 1..generated /\ Unstored(r.guess) /\ Latest(r.guess)
                BY <2>1, <3>1 DEF SmsCalled, CodeHeld
            <4>2. r.guess \notin dead' /\ record'.code < r.guess
                BY <1>1, <1>2, <1>3, <4>1 DEF Unstored
            <4>3. Raced("order", "phone") \/ \A k \in dead' : k < r.guess
                BY <1>3, <4>1 DEF Latest
            <4>4. record'.code # r.guess
                BY <1>1, <1>2, <4>1
            <4> QED BY <4>1, <4>2, <4>3, <4>4 DEF Unstored, Latest, Raced
        <3> QED BY <2>1, <3>1 DEF SmsCalled, CodeHeld
    <2>3. Copied(r)'
        <3> SUFFICES ASSUME r.seen.code # NoCode, <<"code", r.seen.code>> \notin raced'
                     PROVE  /\ r.seen.code \notin dead'
                            /\ r.seen.code \in AllCodes => wrong'[r.seen.code] <= r.seen.tries
                            /\ record'.code # r.seen.code /\ <<"order", "phone">> \in raced'
            BY DEF Copied, Raced
        <3>1. r.seen.code # record.code
            BY <1>8, SmsCallFacts
        <3>2. /\ r.seen.code \notin dead
              /\ r.seen.code \in AllCodes => wrong[r.seen.code] <= r.seen.tries
              /\ record = r.seen \/ (record.code # r.seen.code /\ Raced("order", "phone"))
            BY <2>1 DEF SmsCalled, Copied, Raced
        <3> QED BY <1>1, <1>3, <3>1, <3>2 DEF Raced, NoCode
    <2> QED BY <1>6, <2>1, <2>2, <2>3, PlainApart DEF SmsCalled
<1> QED BY <1>4, <1>5, <1>7, <1>8, SmsAssembled

LEMMA SmsHolders ==
    ASSUME CodesInv, NEW c \in Coros, NEW d \in Coros \ {c}, NEW n, co[d].seen.code = n, co[d] # Idle
    PROVE  d \in Holding(c, n)
BY SmsFrameFacts DEF Holding, Busy, At, CodesInv

LEMMA WithdrawSteps ==
    ASSUME CodesInv, NEW c \in Coros, Withdraw(c)
    PROVE  CodesInv'
<1> SUFFICES ASSUME NEW f, f = co[c], NEW q, q = [f EXCEPT !.pc = "count"] PROVE CodesInv'
    OBVIOUS
<1>1. f.pc = "withdraw" /\ f \in SmsCalls /\ SmsCalled(f)
    BY SmsFrameFacts DEF CodesInv, Withdraw, At
<1>2. q \in SmsCalls /\ q.pc = "count" /\ q.seen = f.seen
    BY <1>1 DEF SmsCalls
<1>3. f.seen.code = NoCode
    BY <1>1 DEF SmsCalled, CodeHeld
<1>4. raced' = (IF Holding(c, record.code) = {} THEN raced ELSE raced \cup {<<"code", record.code>>})
    BY DEF Withdraw, Overlap
<1>5. ASSUME NEW d \in Coros \ {c}, co[d] # Idle, co[d].seen.code = record.code
      PROVE  <<"code", record.code>> \in raced'
    BY <1>4, <1>5, SmsHolders
<1> QED BY <1>2, <1>3, <1>4, <1>5, RecordGone DEF Withdraw, Goto, SmsFrames

LEMMA SaveRecordSteps ==
    ASSUME CodesInv, NEW c \in Coros, SaveRecord(c)
    PROVE  CodesInv'
<1> SUFFICES ASSUME NEW f, f = co[c], NEW n, n = f.guess PROVE CodesInv'
    OBVIOUS
<1>1. f.pc = "record" /\ f \in SmsCalls /\ SmsCalled(f)
    BY SmsFrameFacts DEF CodesInv, SaveRecord, At
<1>2. /\ Become(c, Idle) /\ record' = CodeRecord(n, 0) /\ dead' = dead \cup ({record.code} \ {NoCode})
      /\ UNCHANGED <<generated, wrong, verified>>
    BY DEF SaveRecord, Return
<1>3. /\ raced \subseteq raced'
      /\ Holding(c, record.code) # {} => <<"code", record.code>> \in raced'
      /\ (\E d \in Busy(c) : At(d, "record")) => <<"order", "phone">> \in raced'
    BY DEF SaveRecord
<1>4. n \in 1..generated /\ Unstored(n) /\ Latest(n)
    BY <1>1 DEF SmsCalled, CodeHeld
<1>5. /\ generated \in Nat /\ record.code \in Nat /\ record.code <= generated /\ dead \subseteq 1..generated
    BY DEF CodesInv, CodeTypes
<1>6. record'.code = n /\ record'.tries = 0 /\ record' \in [code : Nat, tries : Nat] /\ n \in Nat
    BY <1>2, <1>4, <1>5 DEF CodeRecord
<1>7. dead' \subseteq 1..generated /\ dead \subseteq dead' /\ (\A k \in dead' : k \in dead \/ k = record.code)
      /\ n \notin dead'
    <2>1. record.code # NoCode => record.code \in 1..generated
        BY <1>5 DEF NoCode
    <2>2. n \notin dead /\ record.code # n
        BY <1>4 DEF Unstored
    <2> QED BY <1>2, <1>5, <2>1, <2>2
<1>8. CodeTypes'
    <2>1. record'.code <= generated
        BY <1>4, <1>5, <1>6
    <2> QED BY <1>2, <1>6, <1>7, <2>1 DEF CodesInv, CodeTypes
<1>9. CodesKept'
    BY <1>2, <1>4, <1>6, <1>7 DEF CodesInv, CodesKept, Unstored
<1>10. CodeEnds'
    BY <1>2, <1>3, <1>6, <1>7 DEF CodesInv, CodeEnds, Raced
<1>11. NewestStored'
    <2>1. CASE Raced("order", "phone")
        BY <1>3, <2>1 DEF NewestStored, Raced
    <2>2. CASE record.code < n /\ \A k \in dead : k < n
        <3>1. \A k \in dead' : k <= n
            BY <1>5, <1>6, <1>7, <2>2
        <3> QED BY <1>6, <3>1 DEF NewestStored
    <2> QED BY <1>4, <2>1, <2>2 DEF Latest
<1>12. ASSUME NEW d \in Coros \ {c}, NEW r \in SmsCalls, r = co[d] PROVE SmsCalled(r)'
    <2>1. SmsCalled(r) /\ SmsApart(f, r) /\ r # Idle /\ r.pc # "idle"
        BY <1>1, <1>12, SmsCallFacts DEF CodesInv
    <2>2. CodeHeld(r)'
        <3>1. ASSUME r.pc = "record" PROVE Unstored(r.guess)' /\ Latest(r.guess)'
            <4>1. r.guess \in 1..generated /\ Unstored(r.guess) /\ r.guess # n
                BY <1>1, <2>1, <3>1 DEF SmsCalled, CodeHeld, SmsApart
            <4>2. r.guess \notin dead'
                BY <1>7, <4>1 DEF Unstored
            <4>3. d \in Busy(c) /\ At(d, "record")
                BY <1>12, <2>1, <3>1 DEF Busy, At
            <4> QED BY <1>2, <1>3, <1>6, <4>1, <4>2, <4>3 DEF Unstored, Latest, Raced
        <3> QED BY <1>2, <2>1, <3>1 DEF SmsCalled, CodeHeld
    <2>3. Copied(r)'
        <3> SUFFICES ASSUME r.seen.code # NoCode, <<"code", r.seen.code>> \notin raced'
                     PROVE  /\ r.seen.code \notin dead'
                            /\ r.seen.code \in AllCodes => wrong'[r.seen.code] <= r.seen.tries
                            /\ record'.code # r.seen.code /\ <<"order", "phone">> \in raced'
            BY DEF Copied, Raced
        <3>1. r.seen.code # record.code
            BY <1>3, <1>12, <2>1, SmsHolders
        <3>2. /\ r.seen.code \notin dead
              /\ r.seen.code \in AllCodes => wrong[r.seen.code] <= r.seen.tries
              /\ record = r.seen \/ (record.code # r.seen.code /\ Raced("order", "phone"))
            BY <1>3, <2>1 DEF SmsCalled, Copied, Raced
        <3>3. r.seen.code # n
            BY <1>1, <2>1 DEF SmsApart
        <3> QED BY <1>2, <1>3, <1>6, <1>7, <3>1, <3>2, <3>3 DEF Raced
    <2> QED BY <2>2, <2>3 DEF SmsCalled
<1> QED BY <1>2, <1>3, <1>8, <1>9, <1>10, <1>11, <1>12, SmsAssembled DEF SmsFrames

(* The record is read, and gone on with unless it is none. *)
LEMMA ReadRecordSteps ==
    ASSUME CodesInv, NEW c \in Coros, ReadRecord(c)
    PROVE  CodesInv'
<1> SUFFICES ASSUME NEW f, f = co[c], NEW n, n = record.code PROVE CodesInv'
    OBVIOUS
<1>1. f.pc = "read" /\ f \in SmsCalls /\ SmsCalled(f)
    BY SmsFrameFacts DEF CodesInv, ReadRecord, At
<1>2. UNCHANGED <<generated, wrong, verified, dead>>
    BY DEF ReadRecord, smsHistory
<1>3. raced \subseteq raced' /\ (n # NoCode /\ Holding(c, n) # {} => <<"code", n>> \in raced')
    BY DEF ReadRecord, Overlap
<1>4. /\ generated \in Nat /\ record \in [code : Nat, tries : Nat] /\ n \in Nat /\ record.tries \in Nat
      /\ n <= generated
    BY DEF CodesInv, CodeTypes
<1>5. CASE Return(c) /\ record' = record
    BY <1>2, <1>3, <1>5, SmsReturns
<1>6. CASE n # NoCode /\ Return(c) /\ record' = NoRecord
    <2>1. ASSUME NEW d \in Coros \ {c}, co[d] # Idle, co[d].seen.code = record.code
          PROVE  <<"code", record.code>> \in raced'
        BY <1>3, <1>6, <2>1, SmsHolders
    <2> QED BY <1>2, <1>3, <1>6, <2>1, RecordGone DEF Return, SmsFrames
<1>7. ASSUME n # NoCode, record' = record, NEW step \in {"raise", "delete"}, NEW guess \in Nat,
             step = "raise" => record.tries < MaxTries,
             Become(c, [f EXCEPT !.pc = step, !.seen = record, !.guess = guess])
      PROVE  CodesInv'
    <2> SUFFICES ASSUME NEW q, q = [f EXCEPT !.pc = step, !.seen = record, !.guess = guess] PROVE CodesInv'
        OBVIOUS
    <2>1. q \in SmsCalls /\ q.pc = step /\ q.seen = record
        BY <1>1, <1>4 DEF SmsCalls
    <2>2. CodeTypes' /\ CodesKept' /\ CodeEnds' /\ NewestStored'
        BY <1>2, <1>3, <1>7 DEF CodesInv, CodeTypes, CodesKept, CodeEnds, NewestStored, Raced
    <2>3. SmsCalled(q)'
        <3>1. n \in 1..generated
            BY <1>4, <1>7 DEF NoCode
        <3>2. CodeHeld(q)'
            BY <1>2, <1>7, <2>1, <3>1 DEF CodeHeld
        <3>3. n \in dead => Raced("code", n)
            BY DEF CodesInv, CodesKept
        <3>4. n \in AllCodes => Raced("code", n) \/ wrong[n] <= record.tries
            BY DEF CodesInv, CodesKept
        <3>5. Copied(q)'
            BY <1>2, <1>3, <1>7, <2>1, <3>3, <3>4 DEF Copied, Raced
        <3> QED BY <3>2, <3>5 DEF SmsCalled
    <2>4. ASSUME NEW d \in Coros \ {c}, NEW r \in SmsCalls, r = co[d]
          PROVE  /\ SmsCalled(r)'
                 /\ SmsApart(q, r)' /\ SmsApart(r, q)'
        <3>1. SmsCalled(r) /\ r # Idle
            BY <2>4, SmsCallFacts DEF CodesInv
        <3>2. SmsCalled(r)'
            BY <1>2, <1>3, <1>7, <3>1 DEF SmsCalled, CodeHeld, Copied, Unstored, Latest, Raced
        <3>3. r.seen.code = n => <<"code", n>> \in raced'
            BY <1>3, <1>7, <2>4, <3>1, SmsHolders
        <3>4. r.pc = "record" => n # r.guess /\ (Raced("order", "phone") \/ n < r.guess)
            BY <3>1 DEF SmsCalled, CodeHeld, Unstored, Latest
        <3> QED BY <1>3, <2>1, <3>2, <3>3, <3>4 DEF SmsApart, Raced
    <2> QED BY <1>3, <1>7, <2>1, <2>2, <2>3, <2>4, SmsAssembled DEF SmsFrames
<1>8. CASE n = NoCode
    BY <1>5, <1>8 DEF ReadRecord
<1>9. CASE n # NoCode
    <2>1. f.guess \in Nat /\ NoCode \in Nat
        BY <1>1, SmsCallFacts DEF NoCode
    <2>2. \/ /\ record' = record
             /\ Become(c, [f EXCEPT !.pc = IF record.tries >= MaxTries \/ f.guess = n THEN "delete" ELSE "raise",
                                    !.seen = record, !.guess = f.guess])
          \/ record' = record /\ Become(c, [f EXCEPT !.pc = "delete", !.seen = record, !.guess = NoCode])
          \/ Return(c) /\ record' = NoRecord
        BY <1>9 DEF ReadRecord
    <2>3. CASE record' = record /\ Become(c, [f EXCEPT !.pc = IF record.tries >= MaxTries \/ f.guess = n THEN "delete" ELSE "raise",
                                    !.seen = record, !.guess = f.guess])
        <3>1. CASE record.tries >= MaxTries \/ f.guess = n
            BY <1>7, <1>9, <2>1, <2>3, <3>1
        <3>2. CASE ~(record.tries >= MaxTries \/ f.guess = n)
            <4>1. record.tries < MaxTries
                BY <1>4, <3>2, LimitsAssumption
            <4>2. Become(c, [f EXCEPT !.pc = "raise", !.seen = record, !.guess = f.guess])
                BY <2>3, <3>2
            <4> QED BY <1>7, <1>9, <2>1, <2>3, <4>1, <4>2
        <3> QED BY <3>1, <3>2
    <2>4. CASE record' = record /\ Become(c, [f EXCEPT !.pc = "delete", !.seen = record, !.guess = NoCode])
        BY <1>7, <1>9, <2>1, <2>4
    <2>5. CASE Return(c) /\ record' = NoRecord
        BY <1>6, <1>9, <2>5
    <2> QED BY <2>2, <2>3, <2>4, <2>5
<1> QED BY <1>8, <1>9

(* A wrong answer: the copy goes back with one attempt more. *)
LEMMA RaiseTriesSteps ==
    ASSUME CodesInv, NEW c \in Coros, RaiseTries(c)
    PROVE  CodesInv'
<1> SUFFICES ASSUME NEW f, f = co[c], NEW n, n = f.seen.code, NEW t, t = f.seen.tries,
                    NEW s, s = CodeRecord(n, t + 1) PROVE CodesInv'
    OBVIOUS
<1>1. f.pc = "raise" /\ f \in SmsCalls /\ SmsCalled(f)
    BY SmsFrameFacts DEF CodesInv, RaiseTries, At
<1>2. /\ record' = s /\ wrong' = [wrong EXCEPT ![n] = @ + 1] /\ UNCHANGED <<generated, verified, dead>>
      /\ Return(c) \/ Become(c, [f EXCEPT !.pc = "delete", !.seen = s])
    BY DEF RaiseTries, CodeRecord
<1>3. /\ raced \subseteq raced'
      /\ Holding(c, n) # {} => <<"code", n>> \in raced'
      /\ record.code \notin {n, NoCode} => <<"order", "phone">> \in raced'
    BY DEF RaiseTries, CodeRecord
<1>4. n \in 1..generated /\ t < MaxTries /\ t \in Nat
    BY <1>1, SmsCallFacts DEF SmsCalled, CodeHeld
<1>5. /\ generated \in Nat /\ record.code \in Nat /\ record.code <= generated /\ dead \subseteq 1..generated
      /\ wrong \in [AllCodes -> Nat]
    BY DEF CodesInv, CodeTypes
<1>6. s.code = n /\ s.tries = t + 1 /\ s \in [code : Nat, tries : Nat] /\ n \in Nat /\ n # NoCode
    BY <1>4, <1>5 DEF CodeRecord, NoCode
<1>7. wrong' \in [AllCodes -> Nat] /\ \A k \in AllCodes : wrong'[k] = IF k = n THEN wrong[n] + 1 ELSE wrong[k]
    <2>1. CASE n \in AllCodes
        BY <1>2, <1>5, <2>1
    <2>2. CASE n \notin AllCodes
        <3>1. wrong' = wrong
            BY <1>2, <1>5, <2>2
        <3> QED BY <1>5, <2>2, <3>1
    <2> QED BY <2>1, <2>2
<1>8. Raced("code", n) \/
          /\ n \notin dead
          /\ n \in AllCodes => wrong[n] <= t
          /\ record = f.seen \/ (record.code # n /\ Raced("order", "phone"))
    BY <1>1, <1>6 DEF SmsCalled, Copied
<1>9. CodeTypes'
    <2>1. \A k \in AllCodes : k > generated => wrong'[k] = 0
        BY <1>4, <1>5, <1>7 DEF CodesInv, CodeTypes
    <2>2. record'.code <= generated
        BY <1>2, <1>4, <1>5, <1>6
    <2> QED BY <1>2, <1>5, <1>6, <1>7, <2>1, <2>2 DEF CodesInv, CodeTypes
<1>10. Raced("code", n) \/ (n \in AllCodes => wrong'[n] <= t + 1)
    BY <1>4, <1>5, <1>7, <1>8
<1>11. CodesKept'
    <2>1. ASSUME NEW k \in AllCodes, s.code = k PROVE <<"code", k>> \in raced' \/ wrong'[k] <= s.tries
        BY <1>3, <1>6, <1>10, <2>1 DEF Raced
    <2>2. s.code \in dead => <<"code", s.code>> \in raced'
        BY <1>3, <1>6, <1>8 DEF Raced
    <2>3. \A x \in verified : x[1] \in dead
        BY DEF CodesInv, CodesKept
    <2> QED BY <1>2, <2>1, <2>2, <2>3 DEF CodesKept, Raced
<1>12. CodeEnds'
    <2> SUFFICES ASSUME NEW k \in AllCodes, <<"code", k>> \notin raced'
                 PROVE  /\ \A x, y \in verified' : x[1] = k /\ y[1] = k => x = y
                        /\ wrong'[k] <= MaxTries
                        /\ k \in dead' => record'.code # k
        BY DEF CodeEnds, Raced
    <2>1. /\ \A x, y \in verified : x[1] = k /\ y[1] = k => x = y
          /\ wrong[k] <= MaxTries
        BY <1>3 DEF CodesInv, CodeEnds, Raced
    <2>2. wrong'[k] <= MaxTries
        <3>1. CASE k = n
            <4>1. wrong'[k] <= t + 1 /\ wrong'[k] \in Nat
                BY <1>3, <1>7, <1>10, <3>1 DEF Raced
            <4> QED BY <1>4, <4>1, LimitsAssumption
        <3>2. CASE k # n
            BY <1>7, <2>1, <3>2
        <3> QED BY <3>1, <3>2
    <2>3. k \in dead => s.code # k
        BY <1>3, <1>6, <1>8 DEF Raced
    <2> QED BY <1>2, <2>1, <2>2, <2>3
<1>13. NewestStored'
    <2>1. CASE <<"code", n>> \in raced' \/ <<"order", "phone">> \in raced'
        BY <1>2, <1>6, <2>1 DEF NewestStored, Raced
    <2>2. CASE <<"code", n>> \notin raced' /\ <<"order", "phone">> \notin raced'
        <3>1. record.code = n
            BY <1>3, <1>8, <2>2 DEF Raced
        <3>2. \A k \in dead : k <= n
            BY <1>3, <1>6, <2>2, <3>1 DEF CodesInv, NewestStored, Raced
        <3> QED BY <1>2, <1>6, <3>2 DEF NewestStored
    <2> QED BY <2>1, <2>2
<1>14. ASSUME NEW d \in Coros \ {c}, NEW r \in SmsCalls, r = co[d]
       PROVE  SmsCalled(r)' /\ (r.seen.code = n => <<"code", n>> \in raced')
    <2>1. SmsCalled(r) /\ SmsApart(f, r) /\ SmsApart(r, f) /\ r # Idle
        BY <1>1, <1>14, SmsCallFacts DEF CodesInv
    <2>2. r.seen.code = n => <<"code", n>> \in raced'
        BY <1>3, <1>14, <2>1, SmsHolders
    <2>3. CodeHeld(r)'
        <3>1. ASSUME r.pc = "record" PROVE Unstored(r.guess)' /\ Latest(r.guess)'
            <4>1. /\ r.guess \in 1..generated /\ Unstored(r.guess) /\ Latest(r.guess) /\ n # r.guess
                  /\ Raced("order", "phone") \/ n < r.guess
                BY <2>1, <3>1 DEF SmsCalled, CodeHeld, SmsApart
            <4>2. Unstored(r.guess)'
                BY <1>2, <1>6, <1>7, <4>1 DEF Unstored
            <4>3. Latest(r.guess)'
                BY <1>2, <1>3, <1>6, <4>1 DEF Latest, Raced
            <4> QED BY <4>2, <4>3
        <3> QED BY <1>2, <2>1, <3>1 DEF SmsCalled, CodeHeld
    <2>4. Copied(r)'
        <3> SUFFICES ASSUME r.seen.code # NoCode, <<"code", r.seen.code>> \notin raced'
                     PROVE  /\ r.seen.code \notin dead'
                            /\ r.seen.code \in AllCodes => wrong'[r.seen.code] <= r.seen.tries
                            /\ record'.code # r.seen.code /\ <<"order", "phone">> \in raced'
            BY DEF Copied, Raced
        <3>1. r.seen.code # n
            BY <2>2
        <3>2. /\ r.seen.code \notin dead
              /\ r.seen.code \in AllCodes => wrong[r.seen.code] <= r.seen.tries
              /\ record = r.seen \/ (record.code # r.seen.code /\ Raced("order", "phone"))
            BY <1>3, <2>1 DEF SmsCalled, Copied, Raced
        <3>3. <<"order", "phone">> \in raced'
            BY <1>3, <3>1, <3>2 DEF Raced
        <3> QED BY <1>2, <1>6, <1>7, <3>1, <3>2, <3>3
    <2> QED BY <2>2, <2>3, <2>4 DEF SmsCalled
<1>15. CASE Return(c)
    BY <1>3, <1>9, <1>11, <1>12, <1>13, <1>14, <1>15, SmsAssembled DEF Return, SmsFrames
<1>16. CASE Become(c, [f EXCEPT !.pc = "delete", !.seen = s])
    <2> SUFFICES ASSUME NEW q, q = [f EXCEPT !.pc = "delete", !.seen = s] PROVE CodesInv'
        OBVIOUS
    <2>1. q \in SmsCalls /\ q.pc = "delete" /\ q.seen = s
        BY <1>1, <1>6 DEF SmsCalls
    <2>2. SmsCalled(q)'
        <3>1. CodeHeld(q)'
            BY <1>2, <1>4, <1>6, <2>1 DEF CodeHeld
        <3>2. Copied(q)'
            <4>1. <<"code", n>> \in raced' \/ (n \notin dead /\ (n \in AllCodes => wrong'[n] <= s.tries))
                BY <1>3, <1>6, <1>8, <1>10 DEF Raced
            <4>2. q.seen.code = n /\ q.seen.tries = s.tries /\ record' = q.seen /\ dead' = dead
                BY <1>2, <1>6, <2>1
            <4> QED BY <4>1, <4>2 DEF Copied, Raced
        <3> QED BY <3>1, <3>2 DEF SmsCalled
    <2>3. ASSUME NEW d \in Coros \ {c}, NEW r \in SmsCalls, r = co[d] PROVE SmsApart(q, r)' /\ SmsApart(r, q)'
        <3>1. SmsApart(r, f) /\ (r.seen.code = n => <<"code", n>> \in raced')
            BY <1>1, <1>14, <2>3, SmsCallFacts DEF CodesInv
        <3> QED BY <1>3, <1>6, <2>1, <3>1 DEF SmsApart, Raced
    <2> QED BY <1>3, <1>9, <1>11, <1>12, <1>13, <1>14, <1>16, <2>1, <2>2, <2>3, SmsAssembled DEF SmsFrames
<1> QED BY <1>2, <1>15, <1>16

LEMMA DeleteRecordSteps ==
    ASSUME CodesInv, NEW c \in Coros, DeleteRecord(c)
    PROVE  CodesInv'
<1> SUFFICES ASSUME NEW f, f = co[c], NEW n, n = f.seen.code PROVE CodesInv'
    OBVIOUS
<1>1. f.pc = "delete" /\ f \in SmsCalls /\ SmsCalled(f)
    BY SmsFrameFacts DEF CodesInv, DeleteRecord, At
<1>2. /\ record' = NoRecord /\ dead' = dead \cup {n} /\ Become(c, Idle) /\ UNCHANGED <<generated, wrong>>
      /\ verified' = verified \/ verified' = verified \cup {<<n, f.id>>}
    BY DEF DeleteRecord, Return
<1>3. raced \subseteq raced' /\ (record.code \notin {n, NoCode} => <<"code", record.code>> \in raced')
    BY DEF DeleteRecord
<1>4. n \in 1..generated /\ f.id \in Nat
    BY <1>1, SmsCallFacts DEF SmsCalled, CodeHeld
<1>5. /\ generated \in Nat /\ record.code \in Nat /\ record.code <= generated /\ dead \subseteq 1..generated
      /\ verified \subseteq (1..generated) \X Nat
    BY DEF CodesInv, CodeTypes
<1>6. record'.code = 0 /\ record'.tries = 0 /\ record' \in [code : Nat, tries : Nat]
    BY <1>2 DEF NoRecord, CodeRecord, NoCode
<1>7. n # NoCode /\ n \in Nat
    BY <1>4, <1>5 DEF NoCode
<1>8. verified' \subseteq (1..generated) \X Nat
    BY <1>2, <1>4, <1>5
<1>9. CodeTypes'
    <2>1. dead' \subseteq 1..generated /\ record'.code <= generated
        <3>1. dead' \subseteq 1..generated
            BY <1>2, <1>4, <1>5
        <3> QED BY <1>5, <1>6, <3>1
    <2>2. /\ generated' = generated /\ wrong' = wrong /\ wrong \in [AllCodes -> Nat]
          /\ \A k \in AllCodes : k > generated => wrong[k] = 0
        BY <1>2 DEF CodesInv, CodeTypes
    <2> QED BY <1>5, <1>6, <1>8, <2>1, <2>2 DEF CodeTypes
<1>10. \A x \in verified : x[1] \in dead
    BY DEF CodesInv, CodesKept
<1>11. CodesKept'
    <2>1. \A x \in verified' : x[1] \in dead'
        BY <1>2, <1>10
    <2>2. 0 \notin dead' /\ 0 \notin AllCodes
        BY <1>2, <1>4, <1>5, FlowsAssumption DEF AllCodes
    <2> QED BY <1>6, <2>1, <2>2 DEF CodesKept
<1>12. CodeEnds'
    <2> SUFFICES ASSUME NEW k \in AllCodes, <<"code", k>> \notin raced'
                 PROVE  /\ \A x, y \in verified' : x[1] = k /\ y[1] = k => x = y
                        /\ wrong'[k] <= MaxTries
                        /\ k \in dead' => record'.code # k
        BY DEF CodeEnds, Raced
    <2>1. /\ \A x, y \in verified : x[1] = k /\ y[1] = k => x = y
          /\ wrong[k] <= MaxTries
        BY <1>3 DEF CodesInv, CodeEnds, Raced
    <2>2. k # 0
        BY FlowsAssumption DEF AllCodes
    <2>3. k = n => \A x \in verified : x[1] # k
        BY <1>1, <1>3, <1>7, <1>10 DEF SmsCalled, Copied, Raced
    <2>4. \A x, y \in verified' : x[1] = k /\ y[1] = k => x = y
        BY <1>2, <2>1, <2>3
    <2> QED BY <1>2, <1>6, <2>1, <2>2, <2>4
<1>13. NewestStored'
    BY <1>6 DEF NewestStored, NoCode
<1>14. ASSUME NEW d \in Coros \ {c}, NEW r \in SmsCalls, r = co[d] PROVE SmsCalled(r)'
    <2>1. SmsCalled(r) /\ SmsApart(f, r) /\ SmsApart(r, f) /\ r # Idle
        BY <1>1, <1>14, SmsCallFacts DEF CodesInv
    <2>2. CodeHeld(r)'
        <3>1. ASSUME r.pc = "record" PROVE Unstored(r.guess)' /\ Latest(r.guess)'
            <4>1. /\ r.guess \in 1..generated /\ Unstored(r.guess) /\ Latest(r.guess) /\ n # r.guess
                  /\ Raced("order", "phone") \/ n < r.guess
                BY <2>1, <3>1 DEF SmsCalled, CodeHeld, SmsApart
            <4>2. r.guess \in Nat /\ 0 < r.guess
                BY <1>5, <4>1
            <4>3. Unstored(r.guess)'
                BY <1>2, <1>6, <4>1, <4>2 DEF Unstored
            <4>4. Latest(r.guess)'
                BY <1>2, <1>3, <1>6, <4>1, <4>2 DEF Latest, Raced
            <4> QED BY <4>3, <4>4
        <3> QED BY <1>2, <2>1, <3>1 DEF SmsCalled, CodeHeld
    <2>3. Copied(r)'
        <3> SUFFICES ASSUME r.seen.code # NoCode, <<"code", r.seen.code>> \notin raced'
                     PROVE  /\ r.seen.code \notin dead'
                            /\ r.seen.code \in AllCodes => wrong'[r.seen.code] <= r.seen.tries
                            /\ record'.code # r.seen.code /\ <<"order", "phone">> \in raced'
            BY DEF Copied, Raced
        <3>1. r.seen.code # n
            BY <1>3, <1>7, <2>1 DEF SmsApart, Raced
        <3>2. /\ r.seen.code \notin dead
              /\ r.seen.code \in AllCodes => wrong[r.seen.code] <= r.seen.tries
              /\ record = r.seen \/ (record.code # r.seen.code /\ Raced("order", "phone"))
            BY <1>3, <2>1 DEF SmsCalled, Copied, Raced
        <3>3. <<"order", "phone">> \in raced'
            BY <1>3, <3>1, <3>2 DEF Raced
        <3> QED BY <1>2, <1>6, <3>1, <3>2, <3>3 DEF NoCode
    <2> QED BY <2>2, <2>3 DEF SmsCalled
<1> QED BY <1>2, <1>3, <1>9, <1>11, <1>12, <1>13, <1>14, SmsAssembled DEF SmsFrames

(* The codes, in every step. *)
LEMMA CodesStep ==
    ASSUME CodesInv, flows \in Nat, SmsNext
    PROVE  CodesInv'
<1>1. PICK c \in Coros :
          \/ Send(c) \/ Resend(c) \/ Withdraw(c) \/ CountSend(c) \/ ExpireSends(c) \/ TextCode(c)
          \/ SaveRecord(c) \/ Verify(c) \/ ReadRecord(c) \/ RaiseTries(c) \/ DeleteRecord(c)
          \/ SmsDies(c)
    BY DEF SmsNext
<1>2. CASE Send(c) \/ Resend(c)
    BY <1>2, SmsBegins DEF Send, Resend, NoCode
<1>3. CASE Verify(c)
    <2>1. PICK n \in 0..generated : SmsCall(c, "verify", "read", n)
        BY <1>3 DEF Verify
    <2>2. n \in Nat
        BY DEF CodesInv, CodeTypes
    <2> QED BY <2>1, <2>2, SmsBegins
<1>4. CASE SmsDies(c)
    <2>1. Return(c) /\ raced \subseteq raced' /\ UNCHANGED <<record, generated, wrong, verified, dead>>
        BY <1>4 DEF SmsDies, Overlap, smsVars, smsCache, smsHistory
    <2> QED BY <2>1, SmsReturns
<1> QED BY <1>1, <1>2, <1>3, <1>4, WithdrawSteps, CountSendSteps, ExpireSendsSteps, TextCodeSteps, SaveRecordSteps,
       ReadRecordSteps, RaiseTriesSteps, DeleteRecordSteps

(* The window of the sends. *)
SendsInv ==
    /\ sends \in Nat /\ admitted \in Nat /\ admitted <= sends /\ SendsCapped

LEMMA WindowKept ==
    ASSUME CodesInv, SendsInv, NEW c \in Coros, NEW q, Become(c, q), raced \subseteq raced',
           UNCHANGED <<sends, sendWindow, admitted>>,
           co[c].pc = "expire" => q.pc = "expire" \/ <<"died", "window">> \in raced'
    PROVE  SendsInv'
<1>1. co'[c] = q /\ \A d \in Coros : d # c => co'[d] = co[d]
    BY DEF Become, CodesInv
<1>2. (\E d \in Coros : At(d, "expire")) => (\E d \in Coros : At(d, "expire"))' \/ <<"died", "window">> \in raced'
    BY <1>1 DEF At
<1> QED BY <1>2 DEF SendsInv, SendsCapped, Raced

LEMMA SendsStep ==
    ASSUME CodesInv, SendsInv, SmsNext
    PROVE  SendsInv'
<1>1. PICK c \in Coros :
          \/ Send(c) \/ Resend(c) \/ Withdraw(c) \/ CountSend(c) \/ ExpireSends(c) \/ TextCode(c)
          \/ SaveRecord(c) \/ Verify(c) \/ ReadRecord(c) \/ RaiseTries(c) \/ DeleteRecord(c)
          \/ SmsDies(c)
    BY DEF SmsNext
<1>2. ASSUME NEW kind, NEW step, NEW n, SmsCall(c, kind, step, n) PROVE SendsInv'
    <2>1. /\ \E q : Become(c, q)
          /\ co[c].pc = "idle" /\ raced' = raced /\ UNCHANGED <<sends, sendWindow, admitted>>
        BY <1>2 DEF SmsCall, Begin, MayBegin, At, smsVars, smsCache, smsHistory
    <2> QED BY <2>1, WindowKept
<1>3. CASE CountSend(c)
    <2>1. /\ co[c].pc = "count" /\ raced' = raced
          /\ \/ sends' = sends + 1 /\ admitted' = admitted + 1 /\ sends' <= MaxSends /\ sendWindow' = sendWindow
             \/ sends' = sends + 1 /\ ~(sends' <= MaxSends) /\ sendWindow' = sendWindow /\ admitted' = admitted
             \/ sends' = 1 /\ sendWindow' = FALSE /\ admitted' = 1
        BY <1>3 DEF CountSend, At, MaySend
    <2>2. sends' \in Nat /\ admitted' \in Nat /\ admitted' <= sends' /\ admitted' <= MaxSends
        BY <2>1, LimitsAssumption DEF SendsInv, SendsCapped
    <2>3. PICK q : Become(c, q)
        BY <1>3 DEF CountSend, Goto, Return
    <2>4. co'[c] = q /\ \A d \in Coros : d # c => co'[d] = co[d]
        BY <2>3 DEF Become, CodesInv
    <2>5. CASE sends' = 1
        <3>1. co'[c].pc = "expire"
            <4>1. Goto(c, "expire")
                BY <1>3, <2>5 DEF CountSend
            <4>2. co[c] \in SmsCalls
                BY <2>1, SmsFrameFacts DEF CodesInv
            <4> QED BY <4>1, <4>2 DEF Goto, Become, CodesInv, SmsCalls
        <3> QED BY <2>2, <2>4, <3>1 DEF SendsInv, SendsCapped, At
    <2>6. CASE sends' # 1
        <3>1. sends > 0 /\ sendWindow' = sendWindow
            BY <2>1, <2>6 DEF SendsInv
        <3>2. (\E d \in Coros : At(d, "expire")) => (\E d \in Coros : At(d, "expire"))'
            BY <2>1, <2>4 DEF At
        <3>3. sends > 0 /\ ~sendWindow => Raced("died", "window") \/ \E d \in Coros : At(d, "expire")
            BY DEF SendsInv, SendsCapped
        <3> QED BY <2>1, <2>2, <2>4, <3>1, <3>2, <3>3 DEF SendsInv, SendsCapped, Raced
    <2> QED BY <2>5, <2>6
<1>4. CASE ExpireSends(c)
    <2>1. sendWindow' /\ sends' = sends /\ admitted' = admitted
        BY <1>4 DEF ExpireSends, smsHistory
    <2> QED BY <2>1 DEF SendsInv, SendsCapped
<1>5. ASSUME NEW q, Become(c, q), co[c].pc # "expire", raced \subseteq raced',
             UNCHANGED <<sends, sendWindow, admitted>>
      PROVE  SendsInv'
    BY <1>5, WindowKept
<1>6. CASE Withdraw(c) \/ TextCode(c) \/ SaveRecord(c) \/ ReadRecord(c) \/ RaiseTries(c) \/ DeleteRecord(c)
    <2>1. co[c].pc # "expire"
        BY <1>6 DEF Withdraw, TextCode, SaveRecord, ReadRecord, RaiseTries, DeleteRecord, At
    <2>2. raced \subseteq raced'
        BY <1>6 DEF Withdraw, TextCode, SaveRecord, ReadRecord, RaiseTries, DeleteRecord, Overlap
    <2>3. UNCHANGED <<sends, sendWindow, admitted>>
        BY <1>6 DEF Withdraw, TextCode, SaveRecord, ReadRecord, RaiseTries, DeleteRecord, smsCache, smsHistory
    <2>4. \E q : Become(c, q)
        BY <1>6 DEF Withdraw, TextCode, SaveRecord, ReadRecord, RaiseTries, DeleteRecord, Goto, Return
    <2> QED BY <1>5, <2>1, <2>2, <2>3, <2>4
<1>7. CASE SmsDies(c)
    <2>1. Become(c, Idle) /\ raced \subseteq raced' /\ UNCHANGED <<sends, sendWindow, admitted>>
        BY <1>7 DEF SmsDies, Return, Overlap, smsVars, smsCache, smsHistory
    <2>2. co[c].pc = "expire" => <<"died", "window">> \in raced'
        BY <1>7 DEF SmsDies, At, Overlap
    <2> QED BY <2>1, <2>2, WindowKept
<1>8. CASE Send(c) \/ Resend(c) \/ Verify(c)
    BY <1>2, <1>8 DEF Send, Resend, Verify
<1> QED BY <1>1, <1>3, <1>4, <1>6, <1>7, <1>8

(* No more codes are generated than flows are started. *)
Sending == {c \in Coros : co[c].pc \in {"withdraw", "count", "expire", "text"}}
SendingInv ==
    /\ flows \in Nat /\ flows <= FlowBound /\ generated \in Nat \ {0}
    /\ IsFiniteSet(Sending) /\ generated + Cardinality(Sending) <= flows + 1

LEMMA SendingStep ==
    ASSUME CodesInv, SendingInv, SmsNext
    PROVE  SendingInv' /\ UNCHANGED <<area, backend>>
<1>1. PICK c \in Coros :
          \/ Send(c) \/ Resend(c) \/ Withdraw(c) \/ CountSend(c) \/ ExpireSends(c) \/ TextCode(c)
          \/ SaveRecord(c) \/ Verify(c) \/ ReadRecord(c) \/ RaiseTries(c) \/ DeleteRecord(c)
          \/ SmsDies(c)
    BY DEF SmsNext
<1>2. FlowBound \in Nat /\ Cardinality(Sending) \in Nat
    BY FlowsAssumption, FS_CardinalityType DEF FlowBound, SendingInv
<1>3. ASSUME NEW q, Become(c, q)
      PROVE  Sending' = IF q.pc \in {"withdraw", "count", "expire", "text"} THEN Sending \cup {c} ELSE Sending \ {c}
    BY <1>3 DEF Become, Sending, CodesInv
<1>4. ASSUME IsFiniteSet(Sending), NEW S, S = Sending \cup {c} \/ S = Sending \ {c}
      PROVE  /\ IsFiniteSet(S) /\ Cardinality(S) \in Nat /\ Cardinality(S) <= Cardinality(Sending) + 1
             /\ S = Sending \ {c} => Cardinality(S) <= Cardinality(Sending)
             /\ S = Sending \ {c} /\ c \in Sending => Cardinality(S) = Cardinality(Sending) - 1
             /\ S = Sending \cup {c} /\ c \in Sending => Cardinality(S) = Cardinality(Sending)
    <2>1. CASE S = Sending \cup {c} /\ c \notin Sending
        <3>1. IsFiniteSet(S) /\ Cardinality(S) = Cardinality(Sending) + 1
            BY <1>4, <2>1, FS_AddElement
        <3>2. Cardinality(S) \in Nat
            BY <3>1, FS_CardinalityType
        <3> QED BY <1>2, <2>1, <3>1, <3>2
    <2>2. CASE S = Sending /\ (c \in Sending => S # Sending \ {c})
        BY <1>2, <1>4, <2>2
    <2>3. CASE S = Sending \ {c} /\ c \in Sending
        <3>1. IsFiniteSet(S) /\ Cardinality(S) = Cardinality(Sending) - 1 /\ Cardinality(S) \in Nat
            BY <1>4, <2>3, FS_RemoveElement, FS_CardinalityType
        <3> QED BY <1>2, <2>3, <3>1
    <2> QED BY <1>4, <2>1, <2>2, <2>3
<1>5. ASSUME NEW kind, NEW step, NEW n, SmsCall(c, kind, step, n) PROVE SendingInv' /\ UNCHANGED <<area, backend>>
    <2>1. /\ \E q : Become(c, q)
          /\ flows' = flows + 1 /\ flows < FlowBound /\ UNCHANGED <<area, backend, generated>>
        BY <1>5 DEF SmsCall, Begin, MayBegin, smsVars
    <2>2. IsFiniteSet(Sending') /\ Cardinality(Sending') \in Nat /\ Cardinality(Sending') <= Cardinality(Sending) + 1
        BY <1>3, <1>4, <2>1 DEF SendingInv
    <2>3. FlowBound' = FlowBound
        BY <2>1 DEF FlowBound
    <2> QED BY <1>2, <2>1, <2>2, <2>3 DEF SendingInv
<1>6. ASSUME NEW q, Become(c, q), Continue, generated' = generated,
             q.pc \in {"withdraw", "count", "expire", "text"} => c \in Sending
      PROVE  SendingInv' /\ UNCHANGED <<area, backend>>
    <2>1. flows' = flows /\ UNCHANGED <<area, backend>> /\ FlowBound' = FlowBound
        BY <1>6 DEF Continue, FlowBound
    <2>2. IsFiniteSet(Sending') /\ Cardinality(Sending') \in Nat /\ Cardinality(Sending') <= Cardinality(Sending)
        BY <1>2, <1>3, <1>4, <1>6 DEF SendingInv
    <2> QED BY <1>2, <1>6, <2>1, <2>2 DEF SendingInv
<1>7. CASE Withdraw(c) \/ CountSend(c) \/ ExpireSends(c)
    <2>1. c \in Sending /\ Continue /\ generated' = generated
        BY <1>7 DEF Withdraw, CountSend, ExpireSends, At, Sending
    <2>2. \E q : Become(c, q)
        BY <1>7 DEF Withdraw, CountSend, ExpireSends, Goto, Return
    <2> QED BY <1>6, <2>1, <2>2
<1>8. CASE TextCode(c)
    <2>1. c \in Sending /\ Continue
        BY <1>8 DEF TextCode, At, Sending
    <2>2. CASE Return(c) /\ UNCHANGED generated
        BY <1>6, <2>1, <2>2 DEF Return
    <2>3. CASE generated' = generated + 1 /\ Become(c, [co[c] EXCEPT !.pc = "record", !.guess = generated'])
        <3>1. co[c] \in SmsCalls
            BY <1>8, SmsFrameFacts DEF CodesInv, TextCode, At
        <3>2. PICK q : Become(c, q) /\ q = [co[c] EXCEPT !.pc = "record", !.guess = generated']
            BY <2>3
        <3>3. q.pc = "record"
            BY <3>1, <3>2 DEF SmsCalls
        <3>4. Sending' = Sending \ {c}
            BY <1>3, <3>2, <3>3
        <3>5. IsFiniteSet(Sending') /\ Cardinality(Sending') \in Nat
              /\ Cardinality(Sending') = Cardinality(Sending) - 1
            BY <1>4, <2>1, <3>4 DEF SendingInv
        <3>6. flows' = flows /\ UNCHANGED <<area, backend>> /\ FlowBound' = FlowBound
            BY <2>1 DEF Continue, FlowBound
        <3> QED BY <1>2, <2>3, <3>5, <3>6 DEF SendingInv
    <2> QED BY <1>8, <2>2, <2>3 DEF TextCode
<1>9. CASE SaveRecord(c) \/ DeleteRecord(c) \/ SmsDies(c)
    <2>1. Become(c, Idle) /\ Continue /\ generated' = generated
        BY <1>9 DEF SaveRecord, DeleteRecord, SmsDies, Return, smsVars
    <2>2. Idle.pc = "idle"
        BY DEF Idle
    <2> QED BY <1>6, <2>1, <2>2
<1>10. CASE ReadRecord(c)
    <2>1. Continue /\ generated' = generated
        BY <1>10 DEF ReadRecord
    <2>2. co[c] \in SmsCalls
        BY <1>10, SmsFrameFacts DEF CodesInv, ReadRecord, At
    <2>3. PICK q : Become(c, q) /\ (q = Idle \/ \E step \in {"raise", "delete"} : \E guess :
              q = [co[c] EXCEPT !.pc = step, !.seen = record, !.guess = guess])
        BY <1>10 DEF ReadRecord, Return
    <2>4. q.pc \in {"idle", "raise", "delete"}
        <3>1. CASE q = Idle
            BY <3>1 DEF Idle
        <3>2. ASSUME NEW step \in {"raise", "delete"}, NEW guess,
                     q = [co[c] EXCEPT !.pc = step, !.seen = record, !.guess = guess]
              PROVE  q.pc = step
            BY <2>2, <3>2 DEF SmsCalls
        <3> QED BY <2>3, <3>1, <3>2
    <2> QED BY <1>6, <2>1, <2>3, <2>4
<1>11. CASE RaiseTries(c)
    <2>1. Continue /\ generated' = generated
        BY <1>11 DEF RaiseTries
    <2>2. co[c] \in SmsCalls
        BY <1>11, SmsFrameFacts DEF CodesInv, RaiseTries, At
    <2>3. PICK q : Become(c, q) /\ (q = Idle \/ \E s : q = [co[c] EXCEPT !.pc = "delete", !.seen = s])
        BY <1>11 DEF RaiseTries, Return
    <2>4. q.pc \in {"idle", "delete"}
        <3>1. CASE q = Idle
            BY <3>1 DEF Idle
        <3>2. ASSUME NEW s, q = [co[c] EXCEPT !.pc = "delete", !.seen = s] PROVE q.pc = "delete"
            BY <2>2, <3>2 DEF SmsCalls
        <3> QED BY <2>3, <3>1, <3>2
    <2> QED BY <1>6, <2>1, <2>3, <2>4
<1>12. CASE Send(c) \/ Resend(c) \/ Verify(c)
    BY <1>5, <1>12 DEF Send, Resend, Verify
<1> QED BY <1>1, <1>7, <1>8, <1>9, <1>10, <1>11, <1>12

SmsInv == CodesInv /\ SendsInv /\ SendingInv

LEMMA SmsStart ==
    ASSUME SmsAtRest, co = [c \in Coros |-> Idle], raced = {}, flows = 0
    PROVE  SmsInv
<1>1. PICK tries \in 0..(MaxTries - 1) :
          /\ record = CodeRecord(1, tries)
          /\ wrong = [n \in AllCodes |-> IF n = 1 THEN tries ELSE 0]
    BY DEF SmsAtRest
<1>2. tries \in Nat /\ tries < MaxTries /\ MaxTries \in Nat /\ 1 \in AllCodes
    BY LimitsAssumption, FlowsAssumption DEF AllCodes
<1>3. record.code = 1 /\ record.tries = tries /\ record \in [code : Nat, tries : Nat]
    BY <1>1, <1>2 DEF CodeRecord
<1>4. CodeTypes
    BY <1>1, <1>2, <1>3 DEF SmsAtRest, CodeTypes
<1>5. CodesKept /\ CodeEnds /\ NewestStored
    BY <1>1, <1>2, <1>3 DEF SmsAtRest, CodesKept, CodeEnds, NewestStored
<1>6. CodesInv
    BY <1>4, <1>5 DEF CodesInv, SmsFrames
<1>7. SendsInv
    <2>1. sends \in {0, 1} /\ admitted = sends /\ (sends > 0 => sendWindow)
        BY Zenon DEF SmsAtRest
    <2> QED BY <2>1, LimitsAssumption DEF SendsInv, SendsCapped
<1>8. SendingInv
    <2>1. Sending = {}
        BY DEF Sending, Idle
    <2>2. IsFiniteSet(Sending) /\ Cardinality(Sending) = 0
        BY <2>1, FS_EmptySet
    <2>3. 0 <= FlowBound
        BY FlowsAssumption DEF FlowBound
    <2> QED BY <2>2, <2>3 DEF SmsAtRest, SendingInv
<1> QED BY <1>6, <1>7, <1>8 DEF SmsInv

LEMMA SmsStep ==
    ASSUME SmsInv, SmsNext
    PROVE  SmsInv' /\ area' = area
BY CodesStep, SendsStep, SendingStep DEF SmsInv, SendingInv

LEMMA SmsStill ==
    ASSUME SmsInv, UNCHANGED <<base, smsVars>>
    PROVE  SmsInv'
<1>1. UNCHANGED <<area, co, flows, raced, sends, sendWindow, record, generated, admitted, wrong, verified, dead>>
    BY DEF base, smsVars, smsCache, smsHistory
<1>2. CodeTypes' /\ CodesKept' /\ CodeEnds' /\ NewestStored'
    BY <1>1 DEF SmsInv, CodesInv, CodeTypes, CodesKept, CodeEnds, NewestStored, Raced
<1>3. \A c \in Coros : co'[c] # Idle => SmsCalled(co[c])'
    BY <1>1 DEF SmsInv, CodesInv, SmsCalled, CodeHeld, Copied, Unstored, Latest, Raced
<1>4. \A c, d \in Coros : c # d /\ co'[c] # Idle /\ co'[d] # Idle => SmsApart(co[c], co[d])'
    BY <1>1 DEF SmsInv, CodesInv, SmsApart, Raced
<1>5. CodesInv'
    BY <1>1, <1>2, <1>3, <1>4 DEF SmsInv, CodesInv
<1>6. SendsInv'
    BY <1>1 DEF SmsInv, SendsInv, SendsCapped, At, Raced
<1>7. SendingInv'
    <2>1. Sending' = Sending /\ FlowBound' = FlowBound
        BY <1>1 DEF Sending, FlowBound
    <2> QED BY <1>1, <2>1 DEF SmsInv, SendingInv
<1> QED BY <1>5, <1>6, <1>7 DEF SmsInv

LEMMA SmsSafe == SmsInv => SmsSound
<1> SUFFICES ASSUME SmsInv PROVE SmsSound
    OBVIOUS
<1>1. FlowBound <= MaxFlows + 1 /\ FlowBound \in Nat /\ Cardinality(Sending) \in Nat
    BY FlowsAssumption, FS_CardinalityType DEF FlowBound, SmsInv, SendingInv
<1>2. generated \in AllCodes
    BY <1>1, FlowsAssumption DEF AllCodes, SmsInv, SendingInv
<1>3. record.code \in 0..generated
    BY DEF SmsInv, CodesInv, CodeTypes
<1> QED BY <1>2, <1>3 DEF SmsInv, CodesInv, SendsInv, SmsSound

------------------------------------------------------------------------------
(* The parts together: a behaviour is about one of them from its first state to *)
(* its last.                                                                     *)

LEMMA RolesFixed == RolesNext => area' = area
BY Zenon
   DEF AssignRole, Continue, CountGrants, CreateRole, DeleteRole, DropFromCache, DropRole,
       DynamoAssign, DynamoDeleteRole, DynamoPutRole, DynamoScanRoles, FillCache, FindRole,
       GrantExpires, InsertGrant, LoadCache, MemoryAssign, MemoryDeleteRole, MemorySaveRole,
       MongoAssign, MongoDeleteRole, MongoSaveRole, Refresh, RefreshCache, RevokeAssignment,
       RoleRequestDies, RolesNext, SaveRole, SqlAssign, SqlDeleteRole, SqlSaveRole,
       UpdateRole

LEMMA EnterpriseFixed == EnterpriseNext => area' = area
BY Zenon
   DEF AdminChanges, Authenticate, Continue, DynamoRevokeKey, DynamoSaveKey, DynamoSetIndex,
       EnterpriseNext, EnterpriseRequestDies, KeyExpires, KeyIndexCatchesUp,
       MemoryRevokeKey, MemorySaveKey, MemorySetIndex, MongoRevokeKey, MongoSaveKey,
       MongoSetIndex, ReadIndex, ReplicaCatchesUp, Request, RevokeKey, SaveKey,
       SqlRevokeKey, SqlSaveKey, SqlSetIndex, StoreReport, WriteIndex, base

LEMMA MigrationsFixed == MigrationsNext => area' = area
BY Zenon
   DEF Continue, Downgrade, MigrationAppears, MigrationsNext, ReadAgain, RollbackMigrations,
       RunDies, RunMigrations, SaveJournal, Upgrade, base

LEMMA ImportsFixed == ImportsNext => area' = area
BY Zenon
   DEF Continue, CreateMigrant, DynamoFindMigrant, DynamoPutMigrant, FetchUsers, ImportCall,
       ImportDies, ImportsNext, LeavesSource, LogIn, LookUp, Migrate, Registers,
       ResetPassword, UpgradeHash, VerifyPassword, base

LEMMA GuardsFixed == GuardsNext => area' = area
BY Zenon
   DEF AccountChanges, Arrive, ArriveLimited, Continue, Expire, GetMemberRole,
       GetOrganization, GuardsNext, HttpDies, Incr, LoadUser, ReadTtl, ValidateToken, View,
       WindowCloses, base

LEMMA PasswordsFixed == PasswordsNext => area' = area
BY Zenon
   DEF AskCache, BreachPublished, CheckCall, CheckDies, Continue, PasswordsNext,
       ProviderDown, RangeSearched, ResponseArrives, base

LEMMA ReceiptsFixed == ReceiptsNext => area' = area
BY Zenon
   DEF Continue, ReceiptsNext, SeenBefore, SetSeen, TimeGoesOn, VerifyDies, VerifySignature

LEMMA BotFixed == BotNext => area' = area
BY Zenon
   DEF AppendAction, BotCall, BotDies, BotNext, CheckRateLimit, Continue, CountWindow,
       DropList, MeasureActions, PushRequest, RebuildList, RecordAction

AccessInv ==
    /\ area \in Areas
    /\ area = "saml" => SamlInv
    /\ area = "providers" => ProvidersInv
    /\ area = "keys" => KeysInv
    /\ area = "oidc" => OidcInv
    /\ area = "social" => SocialInv
    /\ area = "mfa" => MfaInv
    /\ area = "passkeys" => PasskeysInv
    /\ area = "sms" => SmsInv

LEMMA AccessStart == Init => AccessInv
<1> SUFFICES ASSUME Init PROVE AccessInv
    OBVIOUS
<1>1. area \in Areas /\ backend \in Backends /\ co = [c \in Coros |-> Idle] /\ raced = {} /\ flows = 0
    BY DEF Init, BaseInit
<1>2. /\ area = "saml" => SamlAtRest
      /\ area = "providers" => ProvidersAtRest
      /\ area = "keys" => KeysAtRest
      /\ area = "oidc" => OidcAtRest
      /\ area = "social" => SocialAtRest
      /\ area = "mfa" => MfaAtRest
      /\ area = "passkeys" => PasskeysAtRest
      /\ area = "sms" => SmsAtRest
    BY DEF Init
<1> QED BY <1>1, <1>2, SamlStart, ProvidersStart, KeysStart, OidcStart, SocialStart,
          MfaStart, PasskeysStart, SmsStart DEF AccessInv

LEMMA AccessStep ==
    ASSUME AccessInv, Next
    PROVE  AccessInv'
<1>1. CASE area = "saml" /\ SamlNext
    BY <1>1, SamlStep DEF AccessInv
<1>2. CASE area = "providers" /\ ProvidersNext
    BY <1>2, ProvidersStep DEF AccessInv
<1>3. CASE area = "keys" /\ KeysNext
    BY <1>3, KeysStep DEF AccessInv
<1>4. CASE area = "oidc" /\ OidcNext
    BY <1>4, OidcStep DEF AccessInv
<1>5. CASE area = "social" /\ SocialNext
    BY <1>5, SocialStep DEF AccessInv
<1>6. CASE area = "mfa" /\ MfaNext
    BY <1>6, MfaStep DEF AccessInv
<1>7. CASE area = "passkeys" /\ PasskeysNext
    BY <1>7, PasskeysStep DEF AccessInv
<1>8. CASE area = "sms" /\ SmsNext
    BY <1>8, SmsStep DEF AccessInv
<1>9. CASE /\ area \notin {"saml", "providers", "keys", "oidc", "social", "mfa", "passkeys", "sms"}
           /\ area' = area
    BY <1>9 DEF AccessInv
<1>10. CASE \/ area = "roles" /\ RolesNext
            \/ area = "enterprise" /\ EnterpriseNext
            \/ area = "migrations" /\ MigrationsNext
            \/ area = "imports" /\ ImportsNext
            \/ area = "guards" /\ GuardsNext
            \/ area = "passwords" /\ PasswordsNext
            \/ area = "receipts" /\ ReceiptsNext
            \/ area = "bot" /\ BotNext
    BY <1>9, <1>10, RolesFixed, EnterpriseFixed, MigrationsFixed, ImportsFixed, GuardsFixed, PasswordsFixed,
       ReceiptsFixed, BotFixed
<1> QED BY <1>1, <1>2, <1>3, <1>4, <1>5, <1>6, <1>7, <1>8, <1>10 DEF Next

LEMMA AccessStutter ==
    ASSUME AccessInv, UNCHANGED accessVars
    PROVE  AccessInv'
BY SamlStill, ProvidersStill, KeysStill, OidcStill, SocialStill,
   MfaStill, PasskeysStill, SmsStill DEF accessVars, base, federation, factors, AccessInv

LEMMA AccessInvariant == Spec => []AccessInv
<1>1. AccessInv /\ [Next]_accessVars => AccessInv'
    BY AccessStep, AccessStutter
<1> QED BY AccessStart, <1>1, PTL DEF Spec

(* Federated login is sound: a SAML answer opens one session and its login      *)
(* finds the one account of its subject, providers differ, a published signing  *)
(* key is found, a code signs in for its own attempt, and a social login opens  *)
(* the session of whoever authorized it.                                        *)
THEOREM Federated == Spec => []FederationSound
<1>1. AccessInv => FederationSound
    BY SamlSafe, ProvidersSafe, KeysSafe, OidcSafe, SocialSafe
       DEF AccessInv, FederationSound, SamlSound, ProvidersSound, KeysSound, OidcSound, SocialSound
<1> QED BY AccessInvariant, <1>1, PTL

(* The second factors are sound: a code, a challenge and a text message admit   *)
(* once, guesses and requests are capped, no step writes over what another       *)
(* stored later, and no passkey leaves the list of its user, but for the races   *)
(* the statements name.                                                          *)
THEOREM SecondFactorsHold == Spec => []SecondFactorSound
<1>1. AccessInv => SecondFactorSound
    BY MfaSafe, PasskeysSafe, SmsSafe DEF AccessInv, SecondFactorSound, MfaSound, PasskeysSound, SmsSound
<1> QED BY AccessInvariant, <1>1, PTL
==============================================================================
