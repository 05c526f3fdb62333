---------------------------- MODULE OneTimeProofs -----------------------------
(* Theorems about what must happen once: the exchange of a JWT pair, the use   *)
(* of a magic link, and the delivery of a webhook, for every value of their   *)
(* constants.  The three share no variable.                                   *)
EXTENDS TokenLedger, MagicLink, Webhooks, FiniteSetTheorems, SequenceTheorems, TLAPS

-------------------------------------------------------------------------------
(* TokenLedger *)

-----------------------------------------------------------------------------
(* The inductive invariant *)

Drawn(p) == pair[p] # Undrawn

(* Whatever a ledger, a client or a coroutine holds was drawn, and so was    *)
(* the pair its line began with.                                             *)
AllDrawn ==
    /\ \A p \in refresh \cup handed : Drawn(p)
    /\ \A t \in Tasks : task[t].pc # "idle" => Drawn(task[t].k)
    /\ \A p \in Pairs : Drawn(p) => Drawn(pair[p].root) /\ pair[pair[p].root].user = pair[p].user

(* A drawn pair that waits to be written to the refresh ledger waits in one  *)
(* coroutine, is not in the ledger, and neither it nor a ledger entry was    *)
(* ever exchanged.                                                           *)
Holder(t) == task[t].pc = "put_refresh"
Held ==
    /\ \A t \in Tasks : Holder(t) => task[t].k \notin refresh /\ uses[task[t].k] = 0
    /\ \A r, t \in Tasks : Holder(r) /\ Holder(t) /\ task[r].k = task[t].k => r = t
    /\ \A k \in refresh : uses[k] = 0
    /\ \A k \in Pairs : uses[k] <= 1 /\ (~Drawn(k) => uses[k] = 0)

IInv == TypeOK /\ AllDrawn /\ Held /\ OneLive

LEMMA InitIInv == Init => IInv
  <1>. SUFFICES ASSUME Init PROVE IInv
    OBVIOUS
  <1>1. TypeOK
    BY DEF Init, TypeOK, Idle, TaskStates, Steps
  <1>2. AllDrawn
    BY DEF Init, AllDrawn, Drawn, Idle, TypeOK
  <1>3. Held
    BY DEF Init, Held, Holder, Idle
  <1>4. OneLive
    BY DEF Init, OneLive, Unspent, Idle
  <1>5. QED
    BY <1>1, <1>2, <1>3, <1>4 DEF IInv

-----------------------------------------------------------------------------
(* Steps *)

(* Where a coroutine is after a step of it, or of another one. *)
LEMMA Moves ==
  ASSUME TypeOK, NEW t \in Tasks, NEW q, task' = [task EXCEPT ![t] = q]
  PROVE  task'[t] = q /\ \A r \in Tasks \ {t} : task'[r] = task[r]
  BY DEF TypeOK

(* A step of t that leaves the pairs, the refresh ledger and the uses alone, *)
(* and that moves t to an await which holds no pair for the ledger.          *)
LEMMA Quiet ==
  ASSUME IInv, TypeOK', NEW t \in Tasks, NEW q, task' = [task EXCEPT ![t] = q],
         q.pc # "put_refresh", q.pc # "idle" => Drawn(q.k),
         UNCHANGED <<pair, refresh, uses>>, \A p \in handed' : Drawn(p)
  PROVE  IInv'
  <1>1. /\ task'[t] = q
        /\ \A r \in Tasks \ {t} : task'[r] = task[r]
    BY Moves DEF IInv
  <1>2. AllDrawn'
    BY <1>1 DEF IInv, AllDrawn, Drawn
  <1>3. Held'
    <2>1. \A r \in Tasks : Holder(r)' => Holder(r) /\ task'[r] = task[r]
      BY <1>1 DEF Holder
    <2>2. QED
      BY <2>1 DEF IInv, Held, Drawn
  <1>4. OneLive'
    <2>1. Unspent' \subseteq Unspent
      BY <1>1 DEF Unspent
    <2>2. QED
      BY <2>1 DEF IInv, OneLive
  <1>5. QED
    BY <1>2, <1>3, <1>4 DEF IInv

LEMMA IdleQuiet == Idle.pc = "idle"
  BY DEF Idle

(* t draws pair p as a member of the line of root, and holds it for the      *)
(* ledger; nothing else of the line is left unspent.                         *)
LEMMA Draw ==
  ASSUME IInv, TypeOK', NEW t \in Tasks, NEW p \in Pairs, ~Drawn(p), NEW c \in Claims,
         pair' = [pair EXCEPT ![p] = c],
         task' = [task EXCEPT ![t] = [pc |-> "put_refresh", k |-> p]],
         c.root = p \/ (Drawn(c.root) /\ pair[c.root].user = c.user),
         refresh' \subseteq refresh, handed' = handed,
         \A q \in refresh' \cup {task[r].k : r \in {x \in Tasks \ {t} : Holder(x)}} :
            pair[q].root # c.root,
         \/ uses' = uses
         \/ \E k \in refresh \ refresh' : uses' = [uses EXCEPT ![k] = @ + 1]
  PROVE  IInv'
  <1>1. /\ task'[t] = [pc |-> "put_refresh", k |-> p]
        /\ \A r \in Tasks \ {t} : task'[r] = task[r]
    BY Moves DEF IInv
  <1>2. /\ pair'[p] = c /\ c # Undrawn
        /\ \A q \in Pairs \ {p} : pair'[q] = pair[q]
    BY UsersAssumption DEF IInv, TypeOK, Claims, Undrawn
  <1>3. \A q \in Pairs : Drawn(q) => q # p /\ Drawn(q)' /\ pair'[q] = pair[q]
    BY <1>2 DEF Drawn
  <1>4. \A q \in Pairs : Drawn(q)' => q = p \/ Drawn(q)
    BY <1>2 DEF Drawn
  <1>5. /\ \A r \in Tasks : Holder(r) => Drawn(task[r].k) /\ task[r].k \in Pairs
        /\ \A q \in refresh : q \in Pairs /\ Drawn(q)
    BY DEF IInv, TypeOK, AllDrawn, Holder, TaskStates
  <1>6. AllDrawn'
    <2>1. \A q \in refresh' \cup handed' : Drawn(q)'
      BY <1>3 DEF IInv, TypeOK, AllDrawn
    <2>2. \A r \in Tasks : task'[r].pc # "idle" => pair'[task'[r].k] # Undrawn
      <3>1. Drawn(p)'
        BY <1>2 DEF Drawn
      <3>2. \A r \in Tasks \ {t} : task[r].pc # "idle" => task[r].k \in Pairs /\ Drawn(task[r].k)
        BY DEF IInv, TypeOK, AllDrawn, TaskStates
      <3>3. QED
        BY <1>1, <1>3, <3>1, <3>2 DEF Drawn
    <2>3. \A q \in Pairs : Drawn(q)' =>
             pair'[pair'[q].root] # Undrawn /\ pair'[pair'[q].root].user = pair'[q].user
      <3>1. CASE c.root = p
        BY <1>2, <1>3, <1>4, <3>1 DEF IInv, TypeOK, AllDrawn, Claims, Drawn
      <3>2. CASE Drawn(c.root) /\ pair[c.root].user = c.user
        BY <1>2, <1>3, <1>4, <3>2 DEF IInv, TypeOK, AllDrawn, Claims, Drawn
      <3>3. QED
        BY <3>1, <3>2
    <2>4. QED
      BY <2>1, <2>2, <2>3 DEF AllDrawn, Drawn
  <1>7. Held'
    <2>1. \A r \in Tasks : Holder(r)' => r = t \/ (Holder(r) /\ task'[r] = task[r])
      BY <1>1 DEF Holder
    <2>2. uses \in [Pairs -> Nat] /\ uses' \in [Pairs -> Nat]
      BY DEF IInv, TypeOK
    <2>3. \A q \in Pairs : uses'[q] = uses[q] \/ (q \in refresh \ refresh' /\ uses'[q] = 1)
      BY <2>2 DEF IInv, Held, TypeOK
    <2>4. uses[p] = 0 /\ p \notin refresh /\ uses'[p] = 0
      BY <1>5, <2>3 DEF IInv, Held
    <2>5. \A r \in Tasks : Holder(r) => uses'[task[r].k] = 0 /\ task[r].k \notin refresh'
      BY <1>5, <2>3 DEF IInv, Held
    <2>6. \A r \in Tasks : Holder(r)' => task'[r].k \notin refresh' /\ uses'[task'[r].k] = 0
      BY <1>1, <2>1, <2>4, <2>5
    <2>7. \A r, x \in Tasks : Holder(r)' /\ Holder(x)' /\ task'[r].k = task'[x].k => r = x
      BY <1>1, <1>3, <1>5, <2>1 DEF IInv, Held
    <2>8. \A k \in refresh' : uses'[k] = 0
      BY <1>5, <2>3 DEF IInv, Held
    <2>9. \A k \in Pairs : uses'[k] <= 1 /\ (~Drawn(k)' => uses'[k] = 0)
      BY <1>3, <1>5, <2>3 DEF IInv, Held
    <2>10. QED
      BY <2>6, <2>7, <2>8, <2>9 DEF Held
  <1>8. OneLive'
    <2>1. \A q \in Unspent' : q = p \/ q \in refresh' \cup
             {task[r].k : r \in {x \in Tasks \ {t} : Holder(x)}}
      BY <1>1 DEF Unspent, Holder
    <2>2. \A q \in Unspent' : q # p => /\ q \in Unspent /\ pair'[q] = pair[q]
                                       /\ pair[q].root # c.root
      BY <1>3, <1>5, <2>1 DEF Unspent, Holder
    <2>3. QED
      BY <1>2, <2>2 DEF IInv, OneLive
  <1>9. QED
    BY <1>6, <1>7, <1>8 DEF IInv

-----------------------------------------------------------------------------
(* Types *)

LEMMA IdleType == Idle \in TaskStates
  BY DEF Idle, TaskStates, Steps

(* A coroutine that becomes q keeps the coroutines well typed. *)
LEMMA TaskTyped ==
  ASSUME TypeOK, NEW t \in Tasks, NEW q \in TaskStates, task' = [task EXCEPT ![t] = q],
         q.pc # "idle" => q.k # NoPair
  PROVE  /\ task' \in [Tasks -> TaskStates]
         /\ \A r \in Tasks : task'[r].pc # "idle" => task'[r].k # NoPair
  BY DEF TypeOK

LEMMA BecomeTyped ==
  ASSUME TypeOK, NEW t \in Tasks, NEW step \in Steps, NEW k \in Pairs, Become(t, step, k)
  PROVE  /\ task' \in [Tasks -> TaskStates]
         /\ \A r \in Tasks : task'[r].pc # "idle" => task'[r].k # NoPair
  <1>1. [pc |-> step, k |-> k] \in TaskStates /\ k # NoPair
    BY DEF TaskStates, Pairs, NoPair
  <1>2. QED
    BY <1>1, TaskTyped DEF Become

LEMMA FinishTyped ==
  ASSUME TypeOK, NEW t \in Tasks, Finish(t)
  PROVE  /\ task' \in [Tasks -> TaskStates]
         /\ \A r \in Tasks : task'[r].pc # "idle" => task'[r].k # NoPair
  BY IdleType, IdleQuiet, TaskTyped DEF Finish

LEMMA ActivePair ==
  ASSUME TypeOK, NEW t \in Tasks, task[t].pc # "idle"
  PROVE  task[t].k \in Pairs
  BY DEF TypeOK, TaskStates

LEMMA LoginTyped ==
  ASSUME TypeOK, NEW t \in Tasks, NEW u \in Users, Login(t, u)
  PROVE  TypeOK'
  <1>1. PICK p \in Fresh :
          /\ sessions' = sessions \cup {p}
          /\ pair' = [pair EXCEPT ![p] = [user |-> u, ses |-> p, from |-> NoPair, root |-> p]]
          /\ IF HasCache THEN Become(t, "put_refresh", p) /\ UNCHANGED handed
                         ELSE UNCHANGED task /\ handed' = handed \cup {p}
    BY DEF Login
  <1>2. p \in Pairs /\ [user |-> u, ses |-> p, from |-> NoPair, root |-> p] \in Claims
    BY DEF Fresh, Claims
  <1>3. /\ task' \in [Tasks -> TaskStates]
        /\ \A r \in Tasks : task'[r].pc # "idle" => task'[r].k # NoPair
    BY <1>1, <1>2, BecomeTyped DEF Steps, TypeOK
  <1>4. QED
    BY <1>1, <1>2, <1>3 DEF Login, TypeOK

LEMMA ExchangeTyped ==
  ASSUME TypeOK, AllDrawn, NEW t \in Tasks, Exchange(t)
  PROVE  TypeOK'
  <1>. DEFINE k == task[t].k
  <1>1. k \in Pairs /\ pair[k] \in Claims
    BY ActivePair DEF Exchange, TypeOK, AllDrawn, Drawn
  <1>2. CASE Finish(t) /\ UNCHANGED <<pair, refresh, uses>>
    BY <1>2, FinishTyped DEF Exchange, TypeOK
  <1>3. ASSUME NEW p \in Fresh,
               pair' = [pair EXCEPT ![p] = [user |-> pair[k].user, ses |-> NoPair,
                                            from |-> k, root |-> pair[k].root]],
               refresh' = refresh \ {k}, uses' = [uses EXCEPT ![k] = @ + 1],
               Become(t, "put_refresh", p)
        PROVE  TypeOK'
    <2>1. p \in Pairs /\ [user |-> pair[k].user, ses |-> NoPair,
                          from |-> k, root |-> pair[k].root] \in Claims
      BY <1>1 DEF Fresh, Claims
    <2>2. /\ task' \in [Tasks -> TaskStates]
          /\ \A r \in Tasks : task'[r].pc # "idle" => task'[r].k # NoPair
      BY <1>3, <2>1, BecomeTyped DEF Steps
    <2>3. QED
      BY <1>1, <1>3, <2>1, <2>2 DEF Exchange, TypeOK
  <1>4. QED
    BY <1>2, <1>3 DEF Exchange

LEMMA CallTyped ==
  ASSUME TypeOK, NEW t \in Tasks, NEW k \in Pairs,
         Refresh(t, k) \/ Logout(t, k) \/ LogoutSession(t, k)
  PROVE  TypeOK'
  <1>1. "exchange" \in Steps /\ "drop_access" \in Steps
    BY DEF Steps
  <1>2. CASE Refresh(t, k)
    BY <1>1, <1>2, BecomeTyped DEF Refresh, shared, TypeOK
  <1>3. CASE Logout(t, k)
    BY <1>1, <1>3, BecomeTyped DEF Logout, TypeOK
  <1>4. CASE LogoutSession(t, k)
    BY <1>4 DEF LogoutSession, TypeOK
  <1>5. QED
    BY <1>2, <1>3, <1>4

LEMMA StepTyped ==
  ASSUME TypeOK, AllDrawn, NEW t \in Tasks, Step(t)
  PROVE  TypeOK'
  <1>1. {"put_access", "put_latest", "revoke"} \subseteq Steps
    BY DEF Steps
  <1>2. CASE PutRefresh(t)
    BY <1>1, <1>2, ActivePair, BecomeTyped DEF PutRefresh, TypeOK
  <1>3. CASE PutAccess(t)
    BY <1>1, <1>3, ActivePair, BecomeTyped DEF PutAccess, TypeOK
  <1>4. CASE PutLatest(t)
    BY <1>4, ActivePair, FinishTyped DEF PutLatest, TypeOK
  <1>5. CASE Exchange(t)
    BY <1>5, ExchangeTyped
  <1>6. CASE DropAccess(t)
    BY <1>1, <1>6, ActivePair, BecomeTyped, FinishTyped DEF DropAccess, TypeOK
  <1>7. CASE Revoke(t)
    BY <1>7, ActivePair, FinishTyped DEF Revoke, TypeOK
  <1>8. QED
    BY <1>2, <1>3, <1>4, <1>5, <1>6, <1>7 DEF Step

LEMMA TypedNext == TypeOK /\ AllDrawn /\ [Next]_vars => TypeOK'
  <1>. SUFFICES ASSUME TypeOK, AllDrawn, [Next]_vars PROVE TypeOK'
    OBVIOUS
  <1>1. CASE UNCHANGED vars
    BY <1>1 DEF vars, TypeOK
  <1>2. CASE \E t \in Tasks : Call(t) \/ Step(t)
    BY <1>2, LoginTyped, CallTyped, StepTyped DEF Call
  <1>3. CASE \E k \in Pairs : LoseEntry(k)
    BY <1>3 DEF LoseEntry, TypeOK
  <1>4. CASE \E t \in Tasks : Fail(t)
    BY <1>4, FinishTyped DEF Fail, TypeOK
  <1>5. QED
    BY <1>1, <1>2, <1>3, <1>4 DEF Next, Environment

-----------------------------------------------------------------------------
(* The inductive invariant is preserved *)

LEMMA FreshPair == \A p \in Fresh : p \in Pairs /\ ~Drawn(p)
  BY DEF Fresh, Drawn

LEMMA CallIInv ==
  ASSUME IInv, TypeOK', NEW t \in Tasks, Call(t)
  PROVE  IInv'
  <1>1. ASSUME NEW u \in Users, Login(t, u)
        PROVE  IInv'
    <2>1. PICK p \in Fresh :
          /\ sessions' = sessions \cup {p}
          /\ pair' = [pair EXCEPT ![p] = [user |-> u, ses |-> p, from |-> NoPair, root |-> p]]
          /\ IF HasCache THEN Become(t, "put_refresh", p) /\ UNCHANGED handed
                         ELSE UNCHANGED task /\ handed' = handed \cup {p}
      BY <1>1 DEF Login
    <2>. DEFINE c == [user |-> u, ses |-> p, from |-> NoPair, root |-> p]
    <2>2. p \in Pairs /\ ~Drawn(p) /\ c \in Claims /\ c.root = p
      BY FreshPair DEF Claims
    <2>3. \A q \in Unspent : pair[q].root # p
      <3>1. \A q \in Unspent : q \in Pairs /\ Drawn(q)
        BY ActivePair DEF Unspent, IInv, TypeOK, AllDrawn
      <3>2. QED
        BY <2>2, <3>1 DEF IInv, AllDrawn
    <2>4. CASE HasCache
      <3>1. task' = [task EXCEPT ![t] = [pc |-> "put_refresh", k |-> p]]
        BY <2>1, <2>4 DEF Become
      <3>2. \A q \in refresh \cup {task[r].k : r \in {x \in Tasks \ {t} : Holder(x)}} :
               pair[q].root # p
        BY <2>3 DEF Unspent, Holder
      <3>3. refresh' = refresh /\ uses' = uses /\ handed' = handed
        BY <1>1, <2>1, <2>4 DEF Login
      <3>. HIDE DEF c
      <3>4. pair' = [pair EXCEPT ![p] = c]
        BY <2>1 DEF c
      <3>5. QED
        BY <2>2, <3>1, <3>2, <3>3, <3>4, Draw
    <2>5. CASE ~HasCache
      <3>1. task' = task /\ refresh' = refresh /\ uses' = uses /\ handed' = handed \cup {p}
        BY <1>1, <2>1, <2>5 DEF Login
      <3>2. /\ pair'[p] = c /\ c # Undrawn
            /\ \A q \in Pairs \ {p} : pair'[q] = pair[q]
        BY <2>1, <2>2, UsersAssumption DEF IInv, TypeOK, Claims, Undrawn
      <3>3. \A q \in Pairs : Drawn(q) => q # p /\ pair'[q] = pair[q] /\ pair'[q] # Undrawn
        BY <2>2, <3>2 DEF Drawn
      <3>4. \A q \in Unspent : q \in Pairs /\ Drawn(q)
        BY ActivePair DEF Unspent, IInv, TypeOK, AllDrawn
      <3>5. AllDrawn'
        <4>1. \A q \in refresh' \cup handed' : pair'[q] # Undrawn
          BY <3>1, <3>2, <3>3 DEF IInv, TypeOK, AllDrawn
        <4>2. \A r \in Tasks : task'[r].pc # "idle" => pair'[task'[r].k] # Undrawn
          BY <3>1, <3>3, ActivePair DEF IInv, AllDrawn
        <4>3. \A q \in Pairs : pair'[q] # Undrawn =>
                 pair'[pair'[q].root] # Undrawn /\ pair'[pair'[q].root].user = pair'[q].user
          <5>1. ASSUME NEW q \in Pairs \ {p}, pair'[q] # Undrawn
                PROVE  pair'[pair'[q].root] # Undrawn /\ pair'[pair'[q].root].user = pair'[q].user
            <6>1. pair'[q] = pair[q] /\ Drawn(q) /\ pair[q].root \in Pairs
              BY <3>2, <5>1 DEF Drawn, IInv, TypeOK, Claims
            <6>2. QED
              BY <3>3, <6>1 DEF IInv, AllDrawn
          <5>2. QED
            BY <3>2, <5>1
        <4>4. QED
          BY <4>1, <4>2, <4>3 DEF AllDrawn, Drawn
      <3>6. Held'
        BY <3>1, <3>3 DEF IInv, Held, Holder, Drawn
      <3>7. OneLive'
        BY <3>1, <3>3, <3>4 DEF IInv, OneLive, Unspent
      <3>8. QED
        BY <3>5, <3>6, <3>7 DEF IInv
    <2>6. QED
      BY <2>4, <2>5
  <1>2. ASSUME NEW k \in Pairs, Refresh(t, k)
        PROVE  IInv'
    <2>. DEFINE q == [pc |-> "exchange", k |-> k]
    <2>1. Drawn(k) /\ task' = [task EXCEPT ![t] = q]
      BY <1>2 DEF Refresh, Become, IInv, AllDrawn
    <2>2. UNCHANGED <<pair, refresh, uses>> /\ \A p \in handed' : Drawn(p)
      BY <1>2 DEF Refresh, shared, IInv, AllDrawn
    <2>3. q.pc # "put_refresh" /\ q.k = k
      OBVIOUS
    <2>4. QED
      BY <2>1, <2>2, <2>3, Quiet
  <1>3. ASSUME NEW k \in Pairs, Logout(t, k)
        PROVE  IInv'
    <2>. DEFINE q == IF HasCache THEN [pc |-> "drop_access", k |-> k] ELSE task[t]
    <2>1. task' = [task EXCEPT ![t] = q]
      BY <1>3 DEF Logout, Become, IInv, TypeOK
    <2>2. UNCHANGED <<pair, refresh, uses>> /\ \A p \in handed' : Drawn(p)
      BY <1>3 DEF Logout, IInv, AllDrawn
    <2>3. q.pc # "put_refresh" /\ (q.pc # "idle" => q.k = k) /\ Drawn(k)
      BY <1>3 DEF Logout, Idle, IInv, AllDrawn
    <2>4. QED
      BY <2>1, <2>2, <2>3, Quiet
  <1>4. ASSUME NEW k \in Pairs, LogoutSession(t, k)
        PROVE  IInv'
    <2>1. UNCHANGED <<pair, refresh, uses, handed, task>>
      BY <1>4 DEF LogoutSession
    <2>2. QED
      BY <2>1 DEF IInv, AllDrawn, Held, Holder, Drawn, OneLive, Unspent
  <1>5. QED
    BY <1>1, <1>2, <1>3, <1>4 DEF Call

(* The pair moves from the coroutine to the ledger: the line it is the live  *)
(* end of, and how often anything was exchanged, stay the same.              *)
LEMMA PutRefreshIInv ==
  ASSUME IInv, TypeOK', NEW t \in Tasks, PutRefresh(t)
  PROVE  IInv'
  <1>. DEFINE k == task[t].k
              q == [pc |-> "put_access", k |-> k]
  <1>1. k \in Pairs /\ Drawn(k) /\ Holder(t)
    BY ActivePair DEF PutRefresh, Holder, IInv, AllDrawn
  <1>2. /\ task'[t] = q
        /\ \A r \in Tasks \ {t} : task'[r] = task[r]
    BY Moves DEF PutRefresh, Become, IInv
  <1>3. refresh' = refresh \cup {k} /\ UNCHANGED <<pair, uses, handed>>
    BY DEF PutRefresh
  <1>4. AllDrawn'
    BY <1>1, <1>2, <1>3 DEF IInv, AllDrawn, Drawn
  <1>5. \A r \in Tasks : Holder(r)' => r # t /\ Holder(r) /\ task'[r] = task[r]
    BY <1>2 DEF Holder
  <1>6. Held'
    <2>1. \A r \in Tasks : Holder(r)' => task'[r].k # k
      BY <1>1, <1>5 DEF IInv, Held
    <2>2. uses[k] = 0
      BY <1>1 DEF IInv, Held
    <2>3. QED
      BY <1>3, <1>5, <2>1, <2>2 DEF IInv, Held, Drawn
  <1>7. OneLive'
    <2>1. Unspent' \subseteq Unspent
      BY <1>1, <1>3, <1>5 DEF Unspent, Holder
    <2>2. QED
      BY <1>3, <2>1 DEF IInv, OneLive
  <1>8. QED
    BY <1>4, <1>6, <1>7 DEF IInv

(* The entry that is deleted was the line's only live end, so the new pair   *)
(* of the line is drawn with none left.                                      *)
LEMMA ExchangeIInv ==
  ASSUME IInv, TypeOK', NEW t \in Tasks, Exchange(t)
  PROVE  IInv'
  <1>. DEFINE k == task[t].k
  <1>1. k \in Pairs /\ Drawn(k) /\ pair[k] \in Claims
    BY ActivePair DEF Exchange, IInv, TypeOK, AllDrawn, Drawn
  <1>2. CASE Finish(t) /\ UNCHANGED <<pair, refresh, uses>>
    BY <1>2, IdleQuiet, Quiet DEF Exchange, Finish, IInv, AllDrawn
  <1>3. ASSUME k \in refresh, NEW p \in Fresh,
               pair' = [pair EXCEPT ![p] = [user |-> pair[k].user, ses |-> NoPair,
                                            from |-> k, root |-> pair[k].root]],
               refresh' = refresh \ {k}, uses' = [uses EXCEPT ![k] = @ + 1],
               Become(t, "put_refresh", p)
        PROVE  IInv'
    <2>. DEFINE c == [user |-> pair[k].user, ses |-> NoPair,
                      from |-> k, root |-> pair[k].root]
    <2>1. p \in Pairs /\ ~Drawn(p) /\ c \in Claims
      BY <1>1, FreshPair DEF Claims
    <2>2. c.root = pair[k].root /\ Drawn(c.root) /\ pair[c.root].user = c.user
      BY <1>1 DEF IInv, AllDrawn
    <2>3. \A q \in Unspent \ {k} : pair[q].root # pair[k].root
      BY <1>3 DEF IInv, OneLive, Unspent
    <2>4. \A q \in refresh' \cup {task[r].k : r \in {x \in Tasks \ {t} : Holder(x)}} :
             q \in Unspent \ {k}
      BY <1>3 DEF IInv, Held, Holder, Unspent
    <2>. HIDE DEF c
    <2>5. task' = [task EXCEPT ![t] = [pc |-> "put_refresh", k |-> p]] /\ handed' = handed
      BY <1>3 DEF Become, Exchange
    <2>6. pair' = [pair EXCEPT ![p] = c]
      BY <1>3 DEF c
    <2>7. refresh' \subseteq refresh /\ k \in refresh \ refresh'
      BY <1>3
    <2>8. \A q \in refresh' \cup {task[r].k : r \in {x \in Tasks \ {t} : Holder(x)}} :
             pair[q].root # c.root
      BY <2>2, <2>3, <2>4
    <2>9. \E j \in refresh \ refresh' : uses' = [uses EXCEPT ![j] = @ + 1]
      BY <1>3, <2>7
    <2>10. QED
      BY <2>1, <2>2, <2>5, <2>6, <2>7, <2>8, <2>9, Draw
  <1>4. QED
    BY <1>2, <1>3 DEF Exchange

LEMMA StepIInv ==
  ASSUME IInv, TypeOK', NEW t \in Tasks, Step(t)
  PROVE  IInv'
  <1>1. task[t].pc # "idle" => task[t].k \in Pairs /\ Drawn(task[t].k)
    BY ActivePair DEF IInv, AllDrawn
  <1>2. CASE PutRefresh(t)
    BY <1>2, PutRefreshIInv
  <1>3. CASE PutAccess(t)
    <2>. DEFINE q == [pc |-> "put_latest", k |-> task[t].k]
    <2>1. task' = [task EXCEPT ![t] = q] /\ q.pc # "put_refresh" /\ Drawn(q.k)
      BY <1>1, <1>3 DEF PutAccess, Become
    <2>2. UNCHANGED <<pair, refresh, uses>> /\ \A p \in handed' : Drawn(p)
      BY <1>3 DEF PutAccess, IInv, AllDrawn
    <2>3. QED
      BY <2>1, <2>2, Quiet
  <1>4. CASE PutLatest(t)
    <2>1. UNCHANGED <<pair, refresh, uses>> /\ \A p \in handed' : Drawn(p)
      BY <1>1, <1>4 DEF PutLatest, IInv, AllDrawn
    <2>2. QED
      BY <1>4, <2>1, IdleQuiet, Quiet DEF PutLatest, Finish
  <1>5. CASE Exchange(t)
    BY <1>5, ExchangeIInv
  <1>6. CASE DropAccess(t)
    <2>. DEFINE q == IF pair[task[t].k].ses = NoPair THEN Idle
                     ELSE [pc |-> "revoke", k |-> task[t].k]
    <2>1. task' = [task EXCEPT ![t] = q]
      BY <1>6 DEF DropAccess, Become, Finish
    <2>2. q.pc # "put_refresh" /\ (q.pc # "idle" => Drawn(q.k))
      BY <1>1, <1>6 DEF DropAccess, Idle
    <2>3. UNCHANGED <<pair, refresh, uses>> /\ \A p \in handed' : Drawn(p)
      BY <1>6 DEF DropAccess, IInv, AllDrawn
    <2>4. QED
      BY <2>1, <2>2, <2>3, Quiet
  <1>7. CASE Revoke(t)
    <2>1. UNCHANGED <<pair, refresh, uses>> /\ \A p \in handed' : Drawn(p)
      BY <1>7 DEF Revoke, IInv, AllDrawn
    <2>2. QED
      BY <1>7, <2>1, IdleQuiet, Quiet DEF Revoke, Finish
  <1>8. QED
    BY <1>2, <1>3, <1>4, <1>5, <1>6, <1>7 DEF Step

LEMMA LoseEntryIInv ==
  ASSUME IInv, NEW k \in Pairs, LoseEntry(k)
  PROVE  AllDrawn' /\ Held' /\ OneLive'
  <1>1. refresh' \subseteq refresh /\ UNCHANGED <<pair, uses, handed, task>>
    BY DEF LoseEntry
  <1>2. Unspent' \subseteq Unspent
    BY <1>1 DEF Unspent
  <1>3. QED
    BY <1>1, <1>2 DEF IInv, AllDrawn, Held, Holder, Drawn, OneLive

LEMMA NextIInv == IInv /\ [Next]_vars => IInv'
  <1>. SUFFICES ASSUME IInv, [Next]_vars PROVE IInv'
    OBVIOUS
  <1>1. TypeOK'
    BY TypedNext DEF IInv
  <1>2. CASE UNCHANGED vars
    BY <1>1, <1>2 DEF vars, IInv, AllDrawn, Held, Holder, Drawn, OneLive, Unspent
  <1>3. CASE \E t \in Tasks : Call(t) \/ Step(t)
    BY <1>1, <1>3, CallIInv, StepIInv
  <1>4. CASE \E k \in Pairs : LoseEntry(k)
    BY <1>1, <1>4, LoseEntryIInv DEF IInv
  <1>5. ASSUME NEW t \in Tasks, Fail(t) PROVE IInv'
    <2>1. UNCHANGED <<pair, refresh, uses>> /\ \A p \in handed' : Drawn(p)
      BY <1>5 DEF Fail, IInv, AllDrawn
    <2>2. QED
      BY <1>1, <1>5, <2>1, IdleQuiet, Quiet DEF Fail, Finish
  <1>6. QED
    BY <1>2, <1>3, <1>4, <1>5 DEF Next, Environment

LEMMA Invariance == Spec => []IInv
  BY InitIInv, NextIInv, PTL DEF Spec

-----------------------------------------------------------------------------
(* Logout *)

Issuing(t) == task[t].pc \in {"put_refresh", "put_access", "put_latest"}
LoggingOut(t) == task[t].pc \in {"drop_access", "revoke"}

(* A pair that is being written to the ledgers is written by one coroutine   *)
(* and no client has it yet: a logout of a pair finds both entries written,  *)
(* and no later write brings the access entry back.  The first pair of a     *)
(* line names its own session.                                               *)
Settled ==
    /\ \A t \in Tasks : Issuing(t) => task[t].k \notin handed
    /\ \A r, t \in Tasks : Issuing(r) /\ Issuing(t) /\ task[r].k = task[t].k => r = t
    /\ \A t \in Tasks : LoggingOut(t) => task[t].k \in handed
    /\ \A t \in Tasks : task[t].pc = "revoke" => task[t].k \notin access
    /\ \A k \in Pairs : Drawn(k) /\ pair[k].from = NoPair => pair[k].ses = k
    /\ out \subseteq handed

OutInv == Settled /\ LoggedOut

LEMMA InitOutInv == Init => OutInv
  BY DEF Init, OutInv, Settled, LoggedOut, Issuing, LoggingOut, Drawn, Idle

(* t draws p, which nobody has: only p can be new in the sessions. *)
LEMMA DrawOut ==
  ASSUME IInv, OutInv, NEW t \in Tasks, NEW p \in Pairs, ~Drawn(p), NEW c \in Claims,
         pair' = [pair EXCEPT ![p] = c], c.from = NoPair => c.ses = p,
         task' = [task EXCEPT ![t] = [pc |-> "put_refresh", k |-> p]],
         UNCHANGED <<access, handed, out>>, sessions' \subseteq sessions \cup {p}
  PROVE  OutInv'
  <1>1. /\ task'[t] = [pc |-> "put_refresh", k |-> p]
        /\ \A r \in Tasks \ {t} : task'[r] = task[r]
    BY Moves DEF IInv
  <1>2. pair'[p] = c /\ \A q \in Pairs \ {p} : pair'[q] = pair[q]
    BY DEF IInv, TypeOK
  <1>3. p \notin handed /\ \A r \in Tasks : task[r].pc # "idle" => task[r].k # p
    BY DEF IInv, AllDrawn
  <1>4. Settled'
    <2>1. \A r \in Tasks : Issuing(r)' => r = t \/ (Issuing(r) /\ task'[r] = task[r])
      BY <1>1 DEF Issuing
    <2>2. \A r \in Tasks : Issuing(r) => task[r].k # p
      BY <1>3 DEF Issuing
    <2>3. /\ \A r \in Tasks : Issuing(r)' => task'[r].k \notin handed'
          /\ \A r, x \in Tasks : Issuing(r)' /\ Issuing(x)' /\ task'[r].k = task'[x].k => r = x
      BY <1>1, <1>3, <2>1, <2>2 DEF OutInv, Settled
    <2>4. \A r \in Tasks : /\ LoggingOut(r)' => task'[r].k \in handed'
                           /\ task'[r].pc = "revoke" => task'[r].k \notin access'
      BY <1>1 DEF OutInv, Settled, LoggingOut
    <2>5. \A k \in Pairs : Drawn(k)' /\ pair'[k].from = NoPair => pair'[k].ses = k
      BY <1>2 DEF OutInv, Settled, Drawn
    <2>6. QED
      BY <2>3, <2>4, <2>5 DEF OutInv, Settled
  <1>5. LoggedOut'
    <2>1. \A k \in out : k \in Pairs /\ k # p
      BY <1>3 DEF IInv, TypeOK, OutInv, Settled
    <2>2. QED
      BY <1>2, <2>1 DEF OutInv, LoggedOut
  <1>6. QED
    BY <1>4, <1>5 DEF OutInv

(* A step of t that draws no pair and writes no access entry. *)
LEMMA KeepOut ==
  ASSUME IInv, OutInv, NEW t \in Tasks, NEW q, task' = [task EXCEPT ![t] = q],
         pair' = pair, access' \subseteq access, sessions' \subseteq sessions,
         handed \subseteq handed',
         q.pc \in {"put_refresh", "put_access", "put_latest"} =>
            Issuing(t) /\ q.k = task[t].k,
         q.pc \in {"drop_access", "revoke"} => q.k \in handed,
         q.pc = "revoke" => q.k \notin access',
         \A k \in handed' \ handed : k = task[t].k /\ Issuing(t) /\ q.pc = "idle",
         \A k \in out' \ out : /\ k \in handed /\ k \notin access'
                               /\ pair[k].from = NoPair => k \notin sessions'
  PROVE  OutInv'
  <1>1. task'[t] = q /\ \A r \in Tasks \ {t} : task'[r] = task[r]
    BY Moves DEF IInv
  <1>2. \A r \in Tasks : Issuing(r)' => Issuing(r) /\ task'[r].k = task[r].k
    BY <1>1 DEF Issuing
  <1>3. \A r \in Tasks : Issuing(r)' => task'[r].k \notin handed'
    <2>. SUFFICES ASSUME NEW r \in Tasks, Issuing(r)', task'[r].k \in handed' \ handed
                  PROVE  FALSE
      BY <1>2 DEF OutInv, Settled
    <2>1. r = t
      BY <1>2 DEF OutInv, Settled
    <2>2. QED
      BY <1>1, <2>1 DEF Issuing
  <1>4. \A r \in Tasks : /\ LoggingOut(r)' => task'[r].k \in handed'
                         /\ task'[r].pc = "revoke" => task'[r].k \notin access'
    BY <1>1 DEF OutInv, Settled, LoggingOut
  <1>5. Settled'
    BY <1>2, <1>3, <1>4 DEF OutInv, Settled, Drawn
  <1>6. LoggedOut'
    BY DEF OutInv, LoggedOut
  <1>7. QED
    BY <1>5, <1>6 DEF OutInv

LEMMA CallOut ==
  ASSUME HasCache, IInv, OutInv, NEW t \in Tasks, Call(t)
  PROVE  OutInv'
  <1>1. ASSUME NEW u \in Users, Login(t, u)
        PROVE  OutInv'
    <2>1. PICK p \in Fresh :
          /\ sessions' = sessions \cup {p}
          /\ pair' = [pair EXCEPT ![p] = [user |-> u, ses |-> p, from |-> NoPair, root |-> p]]
          /\ Become(t, "put_refresh", p) /\ UNCHANGED handed
      BY <1>1 DEF Login
    <2>. DEFINE c == [user |-> u, ses |-> p, from |-> NoPair, root |-> p]
    <2>2. p \in Pairs /\ ~Drawn(p) /\ c \in Claims /\ c.ses = p
      BY FreshPair DEF Claims
    <2>3. UNCHANGED <<access, handed, out>>
      BY <1>1, <2>1 DEF Login
    <2>4. pair' = [pair EXCEPT ![p] = c]
      BY <2>1
    <2>5. task' = [task EXCEPT ![t] = [pc |-> "put_refresh", k |-> p]]
      BY <2>1 DEF Become
    <2>. HIDE DEF c
    <2>6. QED
      BY <2>1, <2>2, <2>3, <2>4, <2>5, DrawOut
  <1>2. ASSUME NEW k \in Pairs, Refresh(t, k) \/ Logout(t, k)
        PROVE  OutInv'
    <2>1. PICK step \in {"exchange", "drop_access"} : Become(t, step, k)
      BY <1>2 DEF Refresh, Logout
    <2>2. k \in handed /\ UNCHANGED <<pair, access, sessions, handed, out>>
      BY <1>2 DEF Refresh, Logout, shared
    <2>3. QED
      BY <2>1, <2>2, KeepOut DEF Become
  <1>3. ASSUME NEW k \in Pairs, LogoutSession(t, k)
        PROVE  OutInv'
    <2>1. sessions' \subseteq sessions /\ UNCHANGED <<pair, access, handed, out, task>>
      BY <1>3 DEF LogoutSession
    <2>2. QED
      BY <2>1 DEF OutInv, Settled, LoggedOut, Issuing, LoggingOut, Drawn
  <1>4. QED
    BY <1>1, <1>2, <1>3 DEF Call

LEMMA PutOut ==
  ASSUME IInv, OutInv, NEW t \in Tasks, PutRefresh(t) \/ PutAccess(t) \/ PutLatest(t)
  PROVE  OutInv'
  <1>1. CASE PutRefresh(t)
    BY <1>1, KeepOut DEF PutRefresh, Become, Issuing
  <1>2. CASE PutLatest(t)
    BY <1>2, IdleQuiet, KeepOut DEF PutLatest, Finish, Issuing
  <1>3. CASE PutAccess(t)
    <2>. DEFINE k == task[t].k
    <2>1. /\ access' = access \cup {k} /\ task[t].pc = "put_access"
          /\ UNCHANGED <<pair, sessions, handed, out>>
      BY <1>3 DEF PutAccess
    <2>2. /\ task'[t] = [pc |-> "put_latest", k |-> k]
          /\ \A r \in Tasks \ {t} : task'[r] = task[r]
      BY <1>3, Moves DEF PutAccess, Become, IInv
    <2>3. k \notin handed
      BY <2>1 DEF OutInv, Settled, Issuing
    <2>4. \A r \in Tasks : /\ Issuing(r)' => Issuing(r) /\ task'[r].k = task[r].k
                           /\ LoggingOut(r)' => LoggingOut(r) /\ task'[r] = task[r]
      BY <2>1, <2>2 DEF Issuing, LoggingOut
    <2>5. \A r \in Tasks : task'[r].pc = "revoke" => task'[r].k \notin access'
      BY <2>1, <2>2, <2>3, <2>4 DEF OutInv, Settled, LoggingOut
    <2>6. Settled'
      BY <2>1, <2>4, <2>5 DEF OutInv, Settled, Drawn
    <2>7. LoggedOut'
      BY <2>1, <2>3 DEF OutInv, Settled, LoggedOut
    <2>8. QED
      BY <2>6, <2>7 DEF OutInv
  <1>4. QED
    BY <1>1, <1>2, <1>3

LEMMA ExchangeOut ==
  ASSUME IInv, OutInv, NEW t \in Tasks, Exchange(t)
  PROVE  OutInv'
  <1>. DEFINE k == task[t].k
  <1>1. k \in Pairs /\ pair[k] \in Claims
    BY ActivePair DEF Exchange, IInv, TypeOK, AllDrawn, Drawn
  <1>2. UNCHANGED <<access, sessions, handed, out>>
    BY DEF Exchange
  <1>3. CASE Finish(t) /\ UNCHANGED pair
    BY <1>2, <1>3, IdleQuiet, KeepOut DEF Finish
  <1>4. ASSUME NEW p \in Fresh,
               pair' = [pair EXCEPT ![p] = [user |-> pair[k].user, ses |-> NoPair,
                                            from |-> k, root |-> pair[k].root]],
               Become(t, "put_refresh", p)
        PROVE  OutInv'
    <2>. DEFINE c == [user |-> pair[k].user, ses |-> NoPair, from |-> k, root |-> pair[k].root]
    <2>1. c \in Claims /\ c.from # NoPair
      BY <1>1 DEF Claims, Pairs, NoPair
    <2>2. p \in Pairs /\ ~Drawn(p)
      BY FreshPair
    <2>3. pair' = [pair EXCEPT ![p] = c]
      BY <1>4
    <2>. HIDE DEF c
    <2>4. QED
      BY <1>2, <1>4, <2>1, <2>2, <2>3, DrawOut DEF Become
  <1>5. QED
    BY <1>3, <1>4 DEF Exchange

LEMMA LeaveOut ==
  ASSUME IInv, OutInv, NEW t \in Tasks, DropAccess(t) \/ Revoke(t)
  PROVE  OutInv'
  <1>. DEFINE k == task[t].k
  <1>1. LoggingOut(t) /\ k \in handed /\ k \in Pairs /\ Drawn(k)
    BY ActivePair DEF DropAccess, Revoke, LoggingOut, OutInv, Settled, IInv, AllDrawn
  <1>2. pair[k].from = NoPair => pair[k].ses = k
    BY <1>1 DEF OutInv, Settled
  <1>3. CASE DropAccess(t)
    <2>1. access' = access \ {k} /\ UNCHANGED <<pair, sessions, handed>>
      BY <1>3 DEF DropAccess
    <2>2. CASE pair[k].ses = NoPair
      <3>1. Finish(t) /\ out' = out \cup {k}
        BY <1>3, <2>2 DEF DropAccess
      <3>2. pair[k].from # NoPair
        BY <1>1, <1>2, <2>2 DEF Pairs, NoPair
      <3>3. QED
        BY <1>1, <2>1, <3>1, <3>2, IdleQuiet, KeepOut DEF Finish
    <2>3. CASE pair[k].ses # NoPair
      <3>1. Become(t, "revoke", k) /\ out' = out
        BY <1>3, <2>3 DEF DropAccess
      <3>2. QED
        BY <1>1, <2>1, <3>1, KeepOut DEF Become
    <2>4. QED
      BY <2>2, <2>3
  <1>4. CASE Revoke(t)
    <2>1. /\ sessions' = sessions \ {pair[k].ses} /\ UNCHANGED <<pair, access, handed>>
          /\ out' = out \cup {k} /\ Finish(t) /\ k \notin access
      BY <1>4 DEF Revoke, OutInv, Settled
    <2>2. QED
      BY <1>1, <1>2, <2>1, IdleQuiet, KeepOut DEF Finish
  <1>5. QED
    BY <1>3, <1>4

LEMMA NextOutInv ==
  ASSUME HasCache
  PROVE  IInv /\ OutInv /\ [Next]_vars => OutInv'
  <1>. SUFFICES ASSUME IInv, OutInv, [Next]_vars PROVE OutInv'
    OBVIOUS
  <1>1. CASE UNCHANGED vars
    BY <1>1 DEF vars, OutInv, Settled, LoggedOut, Issuing, LoggingOut, Drawn
  <1>2. ASSUME NEW k \in Pairs, LoseEntry(k)
        PROVE  OutInv'
    <2>1. access' \subseteq access /\ UNCHANGED <<pair, sessions, handed, out, task>>
      BY <1>2 DEF LoseEntry
    <2>2. QED
      BY <2>1 DEF OutInv, Settled, LoggedOut, Issuing, LoggingOut, Drawn
  <1>3. ASSUME NEW t \in Tasks, Fail(t)
        PROVE  OutInv'
    BY <1>3, IdleQuiet, KeepOut DEF Fail, Finish
  <1>4. QED
    BY <1>1, <1>2, <1>3, CallOut, PutOut, ExchangeOut, LeaveOut DEF Next, Step, Environment

-----------------------------------------------------------------------------
(* Theorems *)

(* The ledgers of _issue_token_pair and refresh_token stay well typed.       *)
THEOREM TypeCorrect == Spec => []TypeOK
  <1>1. IInv => TypeOK
    BY DEF IInv
  <1>2. QED
    BY <1>1, Invariance, PTL

(* refresh_token: of the pairs that descend from one login at most one       *)
(* refresh token is exchangeable, whatever races, is lost or is aborted.     *)
THEOREM OneLiveAlways == Spec => []OneLive
  <1>1. IInv => OneLive
    BY DEF IInv
  <1>2. QED
    BY <1>1, Invariance, PTL

(* refresh_token hands out only pairs of the user whose login the line of    *)
(* exchanges began with.                                                     *)
THEOREM OwnersKept == Spec => []SameUser
  <1>1. IInv => SameUser
    BY DEF IInv, AllDrawn, SameUser, Drawn
  <1>2. QED
    BY <1>1, Invariance, PTL

(* The refresh ledger implements the ledger of one-time tokens: writing the  *)
(* entry issues the token, the delete of refresh_token uses it, a lost entry *)
(* expires, and everything else leaves the ledger alone.                     *)
THEOREM ExchangesOnce == Spec => ExchangedOnce
  <1>1. Init => Once!Init
    BY DEF Init, Once!Init
  <1>2. IInv /\ [Next]_vars => [Once!Next]_<<refresh, uses>>
    <2>. SUFFICES ASSUME IInv, [Next]_vars PROVE [Once!Next]_<<refresh, uses>>
      OBVIOUS
    <2>1. ASSUME NEW t \in Tasks, PutRefresh(t)
          PROVE  \E k \in Pairs : Once!Issue(k)
      BY <2>1, ActivePair DEF PutRefresh, IInv, Held, Holder, Once!Issue
    <2>2. ASSUME NEW t \in Tasks, Exchange(t)
          PROVE  (\E k \in Pairs : Once!Use(k)) \/ UNCHANGED <<refresh, uses>>
      BY <2>2, ActivePair DEF Exchange, IInv, Once!Use
    <2>3. ASSUME NEW k \in Pairs, LoseEntry(k)
          PROVE  Once!Expire(k) \/ UNCHANGED <<refresh, uses>>
      BY <2>3 DEF LoseEntry, Once!Expire
    <2>4. ASSUME NEW t \in Tasks, Call(t)
          PROVE  UNCHANGED <<refresh, uses>>
      BY <2>4 DEF Call, Login, Refresh, Logout, LogoutSession, shared
    <2>5. ASSUME NEW t \in Tasks, PutAccess(t) \/ PutLatest(t) \/ DropAccess(t) \/ Revoke(t)
          PROVE  UNCHANGED <<refresh, uses>>
      BY <2>5 DEF PutAccess, PutLatest, DropAccess, Revoke
    <2>6. CASE UNCHANGED vars \/ \E t \in Tasks : Fail(t)
      BY <2>6 DEF Fail, vars
    <2>7. QED
      BY <2>1, <2>2, <2>3, <2>4, <2>5, <2>6 DEF Next, Environment, Step, Once!Next
  <1>3. QED
    BY <1>1, <1>2, Invariance, PTL DEF Spec, ExchangedOnce, Once!Spec

(* logout_user, with a cache configured (without one it follows no           *)
(* session_id): a completed logout leaves neither the access entry of its    *)
(* token nor the session of its login, and no later call brings them back.   *)
THEOREM StaysLoggedOut ==
  ASSUME HasCache
  PROVE  Spec => []LoggedOut
  <1>1. IInv /\ OutInv /\ [Next]_vars => OutInv'
    BY NextOutInv
  <1>2. OutInv => LoggedOut
    BY DEF OutInv
  <1>3. QED
    BY <1>1, <1>2, InitIInv, NextIInv, InitOutInv, PTL DEF Spec

-------------------------------------------------------------------------------
(* MagicLink *)

(* Which locals a call has at which await: a send has an address, and from   *)
(* the write of the link on a token that was drawn; a verification has a     *)
(* token, and from the delete on the address of its record.                  *)
LinkDrawn(k) == k \in Tokens /\ email[k] # NoEmail
Shape ==
    \A t \in Requests :
        /\ request[t].pc \in Sending \cup {"delete", "user", "create"} => request[t].e \in Emails
        /\ request[t].pc \in {"incr", "check_ttl", "expire", "mail"} \cup Verifying => LinkDrawn(request[t].k)

LinkIInv == LinkTypeOK /\ Shape

LEMMA Constants ==
  /\ NoEmail \notin Emails
  /\ MaxSends \in Nat /\ MaxSends > 0 /\ Window \in Nat /\ Window > 0
  BY EmailsAssumption, ConfigAssumption

LEMMA NoRequestType == NoRequest \in RequestStates /\ NoRequest.pc = "idle"
  BY DEF NoRequest, RequestStates

LEMMA InitLinkIInv == LinkInit => LinkIInv
  <1>. SUFFICES ASSUME LinkInit PROVE LinkIInv
    OBVIOUS
  <1>1. LinkTypeOK
    <2>1. ttl \in [Emails -> 0..Window]
      BY Constants DEF LinkInit
    <2>2. request \in [Requests -> RequestStates]
      BY NoRequestType DEF LinkInit
    <2>3. late \in BOOLEAN
      BY DEF LinkInit
    <2>4. QED
      BY <2>1, <2>2, <2>3 DEF LinkInit, LinkTypeOK
  <1>2. Shape
    BY NoRequestType DEF LinkInit, Shape, Sending, Verifying
  <1>3. QED
    BY <1>1, <1>2 DEF LinkIInv

(* The locals of a call after a step that gives it the locals q, and of the  *)
(* others.                                                                   *)
GoodLocals(q) ==
    /\ q \in RequestStates
    /\ q.pc \in Sending \cup {"delete", "user", "create"} => q.e \in Emails
    /\ q.pc \in {"incr", "check_ttl", "expire", "mail"} \cup Verifying =>
          q.k \in Tokens /\ email'[q.k] # NoEmail

LEMMA RequestMoves ==
  ASSUME LinkIInv, NEW t \in Requests, NEW q, GoodLocals(q), request' = [request EXCEPT ![t] = q],
         \A k \in Tokens : email[k] # NoEmail => email'[k] # NoEmail
  PROVE  request' \in [Requests -> RequestStates] /\ Shape'
  <1>1. request' \in [Requests -> RequestStates]
    BY DEF LinkIInv, LinkTypeOK, GoodLocals
  <1>2. request'[t] = q /\ \A r \in Requests \ {t} : request'[r] = request[r]
    BY DEF LinkIInv, LinkTypeOK
  <1>3. ASSUME NEW r \in Requests
        PROVE  /\ request'[r].pc \in Sending \cup {"delete", "user", "create"} => request'[r].e \in Emails
               /\ request'[r].pc \in {"incr", "check_ttl", "expire", "mail"} \cup Verifying =>
                     request'[r].k \in Tokens /\ email'[request'[r].k] # NoEmail
    <2>1. CASE r = t
      BY <1>2, <2>1 DEF GoodLocals
    <2>2. CASE r # t
      BY <1>2, <2>2 DEF LinkIInv, Shape, LinkDrawn
    <2>3. QED
      BY <2>1, <2>2
  <1>4. QED
    BY <1>1, <1>3 DEF Shape, LinkDrawn

LEMMA FinishMoves ==
  ASSUME LinkIInv, NEW t \in Requests, EndRequest(t), UNCHANGED email
  PROVE  request' \in [Requests -> RequestStates] /\ Shape'
  <1>1. GoodLocals(NoRequest)
    BY NoRequestType DEF GoodLocals, Sending, Verifying
  <1>2. QED
    BY <1>1, RequestMoves DEF EndRequest

(* A step of a send goes on with its address and token. *)
LEMMA SendMoves ==
  ASSUME LinkIInv, NEW t \in Requests, UNCHANGED email,
         NEW step \in Sending, Goto(t, step), request[t].pc \in Sending,
         step \in {"incr", "check_ttl", "expire", "mail"} =>
             request[t].pc \in {"incr", "check_ttl", "expire", "mail"}
  PROVE  request' \in [Requests -> RequestStates] /\ Shape'
  <1>. DEFINE q == [pc |-> step, e |-> request[t].e, k |-> request[t].k]
  <1>1. request[t].e \in Emails /\ request[t].k \in Tokens \cup {NoToken}
    BY DEF LinkIInv, LinkTypeOK, RequestStates, Shape
  <1>2. q \in RequestStates
    BY <1>1 DEF RequestStates
  <1>3. step \notin Verifying
    BY DEF Sending, Verifying
  <1>4. GoodLocals(q)
    BY <1>1, <1>2, <1>3 DEF GoodLocals, LinkIInv, Shape, LinkDrawn
  <1>5. QED
    BY <1>4, RequestMoves DEF Goto, MoveTo

LEMMA SendSteps ==
  {"get_sends", "get_ttl", "rearm", "put_link", "incr", "check_ttl", "expire", "mail"} = Sending
  BY DEF Sending

LEMMA RearmedType ==
  ASSUME LinkTypeOK, NEW e \in Emails
  PROVE  Rearmed(e) \in 0..Window /\ (sends[e] = 0 => Rearmed(e) = 0)
  BY Constants DEF LinkTypeOK, Rearmed

LEMMA SendIInv ==
  ASSUME LinkIInv, NEW t \in Requests,
         \/ GetSends(t) \/ GetTtl(t) \/ CheckTtl(t) \/ \E e \in Emails : Send(t, e)
  PROVE  LinkIInv'
  <1>1. UNCHANGED <<email, live, sends, ttl, account, sent, mails, grants, late, aborted>>
    BY DEF GetSends, GetTtl, CheckTtl, Send
  <1>2. request' \in [Requests -> RequestStates] /\ Shape'
    <2>1. CASE GetSends(t)
      <3>1. PICK s \in {"get_ttl", "put_link"} : Goto(t, s)
        BY <2>1 DEF GetSends
      <3>2. QED
        BY <1>1, <2>1, <3>1, SendMoves, SendSteps DEF GetSends
    <2>2. CASE GetTtl(t)
      BY <1>1, <2>2, SendMoves, SendSteps, FinishMoves DEF GetTtl
    <2>3. CASE CheckTtl(t)
      <3>1. PICK s \in {"expire", "mail"} : Goto(t, s)
        BY <2>3 DEF CheckTtl
      <3>2. QED
        BY <1>1, <2>3, <3>1, SendMoves, SendSteps DEF CheckTtl
    <2>4. ASSUME NEW e \in Emails, Send(t, e)
          PROVE  request' \in [Requests -> RequestStates] /\ Shape'
      <3>. DEFINE q == [pc |-> "get_sends", e |-> e, k |-> NoToken]
      <3>1. GoodLocals(q)
        BY DEF GoodLocals, RequestStates, Sending, Verifying
      <3>2. QED
        BY <1>1, <2>4, <3>1, RequestMoves DEF Send, MoveTo
    <2>5. QED
      BY <2>1, <2>2, <2>3, <2>4
  <1>3. QED
    BY <1>1, <1>2 DEF LinkIInv, LinkTypeOK

LEMMA CountIInv ==
  ASSUME LinkIInv, NEW t \in Requests, Rearm(t) \/ Incr(t) \/ Expire(t) \/ Mail(t)
  PROVE  LinkIInv'
  <1>1. UNCHANGED <<email, live, account, grants, late, aborted>>
    BY DEF Rearm, Incr, Expire, Mail
  <1>2. request[t].pc \in Sending /\ request[t].e \in Emails
    BY SendSteps DEF Rearm, Incr, Expire, Mail, LinkIInv, Shape
  <1>3. request' \in [Requests -> RequestStates] /\ Shape'
    <2>1. CASE Rearm(t) \/ Mail(t)
      BY <1>1, <2>1, FinishMoves DEF Rearm, Mail
    <2>2. CASE Incr(t)
      <3>1. PICK s \in {"expire", "check_ttl"} : Goto(t, s)
        BY <2>2 DEF Incr
      <3>2. QED
        BY <1>1, <2>2, <3>1, SendMoves, SendSteps DEF Incr
    <2>3. CASE Expire(t)
      BY <1>1, <2>3, SendMoves, SendSteps DEF Expire
    <2>4. QED
      BY <2>1, <2>2, <2>3
  <1>4. /\ sends' \in [Emails -> Nat] /\ ttl' \in [Emails -> 0..Window]
        /\ \A e \in Emails : sends'[e] = 0 => ttl'[e] = 0
    <2>1. CASE Rearm(t) \/ Expire(t)
      <3>1. Rearmed(request[t].e) \in 0..Window /\ (sends[request[t].e] = 0 => Rearmed(request[t].e) = 0)
        BY <1>2, RearmedType DEF LinkIInv
      <3>2. sends' = sends /\ ttl' = [ttl EXCEPT ![request[t].e] = Rearmed(request[t].e)]
        BY <2>1 DEF Rearm, Expire
      <3>3. QED
        BY <1>2, <3>1, <3>2 DEF LinkIInv, LinkTypeOK
    <2>2. CASE Incr(t)
      BY <1>2, <2>2 DEF Incr, LinkIInv, LinkTypeOK
    <2>3. CASE Mail(t)
      BY <2>3 DEF Mail, LinkIInv, LinkTypeOK
    <2>4. QED
      BY <2>1, <2>2, <2>3
  <1>5. mails' \in [Emails -> Nat]
    BY <1>2 DEF Rearm, Incr, Expire, Mail, LinkIInv, LinkTypeOK
  <1>6. \A k \in live' \cup sent' : k \in Tokens /\ email'[k] # NoEmail
    <2>1. Mail(t) => LinkDrawn(request[t].k)
      BY DEF Mail, LinkIInv, Shape
    <2>2. QED
      BY <1>1, <2>1 DEF Rearm, Incr, Expire, Mail, LinkIInv, LinkTypeOK, LinkDrawn
  <1>7. QED
    BY <1>1, <1>3, <1>4, <1>5, <1>6 DEF LinkIInv, LinkTypeOK

LEMMA FreshToken == \A k \in FreshLink : k \in Tokens /\ email[k] = NoEmail
  BY DEF FreshLink

LEMMA PutLinkIInv ==
  ASSUME LinkIInv, NEW t \in Requests, PutLink(t)
  PROVE  LinkIInv'
  <1>. DEFINE e == request[t].e
  <1>1. PICK k \in FreshLink : /\ email' = [email EXCEPT ![k] = e]
                               /\ live' = live \cup {k}
                               /\ MoveTo(t, "incr", e, k)
    BY DEF PutLink
  <1>2. k \in Tokens /\ e \in Emails
    BY FreshToken, SendSteps DEF PutLink, LinkIInv, Shape
  <1>3. email' \in [Tokens -> Emails \cup {NoEmail}] /\ email'[k] # NoEmail
    BY <1>1, <1>2, Constants DEF LinkIInv, LinkTypeOK
  <1>4. \A j \in Tokens : email[j] # NoEmail => email'[j] # NoEmail
    BY <1>1, <1>2, <1>3 DEF LinkIInv, LinkTypeOK
  <1>5. GoodLocals([pc |-> "incr", e |-> e, k |-> k])
    BY <1>2, <1>3 DEF GoodLocals, RequestStates, Sending
  <1>6. request' \in [Requests -> RequestStates] /\ Shape'
    BY <1>1, <1>4, <1>5, RequestMoves DEF MoveTo
  <1>7. QED
    BY <1>1, <1>2, <1>3, <1>4, <1>6 DEF PutLink, LinkIInv, LinkTypeOK

LEMMA VerifyIInv ==
  ASSUME LinkIInv, NEW t \in Requests,
         \/ GetLink(t) \/ Delete(t) \/ FindUser(t) \/ CreateUser(t)
         \/ \E k \in Tokens : Verify(t, k)
  PROVE  LinkIInv'
  <1>1. UNCHANGED <<email, sends, ttl, sent, mails, late, aborted>> /\ live' \subseteq live
    BY DEF GetLink, Delete, FindUser, CreateUser, Verify
  <1>2. CASE \E k \in Tokens : Verify(t, k)
    <2>1. PICK k \in Tokens : Verify(t, k)
      BY <1>2
    <2>2. GoodLocals([pc |-> "get_link", e |-> NoEmail, k |-> k])
      BY <1>1, <2>1 DEF Verify, GoodLocals, RequestStates, Sending, Verifying, LinkIInv, LinkTypeOK
    <2>3. request' \in [Requests -> RequestStates] /\ Shape'
      BY <1>1, <2>1, <2>2, RequestMoves DEF Verify, MoveTo
    <2>4. QED
      BY <1>1, <2>1, <2>3 DEF Verify, LinkIInv, LinkTypeOK
  <1>3. CASE ~\E k \in Tokens : Verify(t, k)
    <2>. DEFINE k == request[t].k
                e == request[t].e
    <2>1. request[t].pc \in Verifying /\ LinkDrawn(k)
      BY <1>3 DEF GetLink, Delete, FindUser, CreateUser, Verifying, LinkIInv, Shape
    <2>2. CASE GetLink(t)
      <3>1. GoodLocals([pc |-> "delete", e |-> email[k], k |-> k])
        BY <1>1, <2>1 DEF LinkDrawn, GoodLocals, RequestStates, Sending, Verifying, LinkIInv, LinkTypeOK
      <3>2. request' \in [Requests -> RequestStates] /\ Shape'
        BY <1>1, <2>2, <3>1, RequestMoves, FinishMoves DEF GetLink, MoveTo
      <3>3. QED
        BY <1>1, <2>2, <3>2 DEF GetLink, LinkIInv, LinkTypeOK
    <2>3. ASSUME request[t].pc \in {"delete", "user", "create"},
                 NEW step \in {"user", "create"}, Goto(t, step)
          PROVE  request' \in [Requests -> RequestStates] /\ Shape'
      <3>1. e \in Emails
        BY <2>3 DEF LinkIInv, Shape
      <3>2. GoodLocals([pc |-> step, e |-> e, k |-> k])
        BY <1>1, <2>1, <3>1 DEF LinkDrawn, GoodLocals, RequestStates, Sending, Verifying
      <3>3. QED
        BY <1>1, <2>3, <3>2, RequestMoves DEF Goto, MoveTo
    <2>4. CASE Delete(t)
      BY <1>1, <2>3, <2>4 DEF Delete, LinkIInv, LinkTypeOK
    <2>5. Grant(t) => /\ grants' \in [Tokens -> Nat]
                      /\ request' \in [Requests -> RequestStates] /\ Shape'
      BY <1>1, <2>1, FinishMoves DEF Grant, LinkDrawn, LinkIInv, LinkTypeOK
    <2>6. CASE FindUser(t)
      <3>1. grants' \in [Tokens -> Nat] /\ request' \in [Requests -> RequestStates] /\ Shape'
        BY <1>1, <2>3, <2>5, <2>6, FinishMoves DEF FindUser, LinkIInv, LinkTypeOK
      <3>2. QED
        BY <1>1, <2>6, <3>1 DEF FindUser, LinkIInv, LinkTypeOK
    <2>7. CASE CreateUser(t)
      <3>1. grants' \in [Tokens -> Nat] /\ request' \in [Requests -> RequestStates] /\ Shape'
        BY <1>1, <2>5, <2>7, FinishMoves DEF CreateUser, LinkIInv, LinkTypeOK
      <3>2. e \in Emails
        BY <2>7 DEF CreateUser, LinkIInv, Shape
      <3>3. account' \subseteq Emails
        BY <2>7, <3>2 DEF CreateUser, LinkIInv, LinkTypeOK
      <3>4. QED
        BY <1>1, <2>7, <3>1, <3>3 DEF CreateUser, LinkIInv, LinkTypeOK
    <2>8. QED
      BY <1>3, <2>2, <2>4, <2>6, <2>7
  <1>4. QED
    BY <1>2, <1>3

LEMMA NextLinkIInv == LinkIInv /\ [LinkNext]_linkVars => LinkIInv'
  <1>. SUFFICES ASSUME LinkIInv, [LinkNext]_linkVars PROVE LinkIInv'
    OBVIOUS
  <1>1. CASE UNCHANGED linkVars
    BY <1>1 DEF linkVars, LinkIInv, LinkTypeOK, Shape, LinkDrawn
  <1>2. ASSUME NEW t \in Requests, LinkCall(t) \/ RequestStep(t)
        PROVE  LinkIInv'
    BY <1>2, SendIInv, CountIInv, PutLinkIInv, VerifyIInv DEF LinkCall, RequestStep
  <1>3. CASE Tick
    <2>1. \A n \in 0..Window : Less(n) \in 0..Window /\ (n # 1 /\ Less(n) # 0 => n # 0)
      BY Constants DEF Less
    <2>2. /\ sends' \in [Emails -> Nat] /\ ttl' \in [Emails -> 0..Window]
          /\ mails' \in [Emails -> Nat]
      BY <1>3, <2>1 DEF Tick, LinkIInv, LinkTypeOK
    <2>3. \A e \in Emails : sends'[e] = 0 => ttl'[e] = 0
      BY <1>3, Constants DEF Tick, Less, LinkIInv, LinkTypeOK
    <2>4. QED
      BY <1>3, <2>2, <2>3 DEF Tick, LinkIInv, LinkTypeOK, Shape, LinkDrawn
  <1>4. ASSUME NEW k \in Tokens, LoseLink(k)
        PROVE  LinkIInv'
    BY <1>4 DEF LoseLink, LinkIInv, LinkTypeOK, Shape, LinkDrawn
  <1>5. ASSUME NEW t \in Requests, Abort(t)
        PROVE  LinkIInv'
    BY <1>5, FinishMoves DEF Abort, LinkIInv, LinkTypeOK
  <1>6. ASSUME NEW e \in Emails, Register(e)
        PROVE  LinkIInv'
    BY <1>6 DEF Register, LinkIInv, LinkTypeOK, Shape, LinkDrawn
  <1>7. QED
    BY <1>1, <1>2, <1>3, <1>4, <1>5, <1>6 DEF LinkNext, LinkEnvironment

LEMMA LinkInvariance == LinkSpec => []LinkIInv
  BY InitLinkIInv, NextLinkIInv, PTL DEF LinkSpec

-----------------------------------------------------------------------------
(* A spent link *)

(* A step of t that neither draws k nor makes t hold it. *)
LEMMA KeepsSpent ==
  ASSUME LinkIInv, NEW k \in Tokens, Spent(k), NEW t \in Requests, NEW q,
         request' = [request EXCEPT ![t] = q],
         ~(q.k = k /\ q.pc \in {"delete", "user", "create"}),
         email'[k] = email[k], k \notin live'
  PROVE  Spent(k)'
  <1>1. request'[t] = q /\ \A r \in Requests \ {t} : request'[r] = request[r]
    BY DEF LinkIInv, LinkTypeOK
  <1>2. QED
    BY <1>1 DEF Spent, Holding

LEMMA SpentSend ==
  ASSUME LinkIInv, NEW k \in Tokens, Spent(k), NEW t \in Requests,
         \/ \E e \in Emails : Send(t, e)
         \/ GetSends(t) \/ GetTtl(t) \/ Rearm(t) \/ PutLink(t)
         \/ Incr(t) \/ CheckTtl(t) \/ Expire(t) \/ Mail(t)
  PROVE  Spent(k)' /\ grants'[k] = grants[k]
  <1>1. grants' = grants
    BY DEF Send, GetSends, GetTtl, Rearm, PutLink, Incr, CheckTtl, Expire, Mail
  <1>2. email'[k] = email[k] /\ k \notin live'
    <2>1. CASE PutLink(t)
      BY <2>1, FreshToken DEF PutLink, Spent, LinkIInv, LinkTypeOK
    <2>2. CASE ~PutLink(t)
      BY <2>2 DEF Send, GetSends, GetTtl, Rearm, Incr, CheckTtl, Expire, Mail, Spent
    <2>3. QED
      BY <2>1, <2>2
  <1>3. \E q : q.pc \notin {"delete", "user", "create"} /\ request' = [request EXCEPT ![t] = q]
    <2>1. EndRequest(t) => \E q : q.pc = "idle" /\ request' = [request EXCEPT ![t] = q]
      BY NoRequestType DEF EndRequest
    <2>2. ASSUME NEW step \in Sending, NEW e, NEW j, MoveTo(t, step, e, j)
          PROVE  \E q : q.pc = step /\ request' = [request EXCEPT ![t] = q]
      <3>1. [pc |-> step, e |-> e, k |-> j].pc = step
        OBVIOUS
      <3>2. QED
        BY <2>2, <3>1 DEF MoveTo
    <2>3. EndRequest(t) \/ \E step \in Sending : \E e, j : MoveTo(t, step, e, j)
      BY SendSteps DEF Send, GetSends, GetTtl, Rearm, PutLink, Incr, CheckTtl, Expire, Mail, Goto
    <2>4. Sending \cap {"delete", "user", "create"} = {}
      BY DEF Sending
    <2>5. QED
      BY <2>1, <2>2, <2>3, <2>4
  <1>4. QED
    BY <1>1, <1>2, <1>3, KeepsSpent

LEMMA SpentVerify ==
  ASSUME LinkIInv, NEW k \in Tokens, Spent(k), NEW t \in Requests,
         \/ \E j \in Tokens : Verify(t, j)
         \/ GetLink(t) \/ Delete(t) \/ FindUser(t) \/ CreateUser(t)
  PROVE  Spent(k)' /\ grants'[k] = grants[k]
  <1>1. email'[k] = email[k] /\ k \notin live'
    BY DEF Verify, GetLink, Delete, FindUser, CreateUser, Spent
  <1>2. CASE \E j \in Tokens : Verify(t, j)
    <2>1. PICK j \in Tokens : request' = [request EXCEPT ![t] =
                                         [pc |-> "get_link", e |-> NoEmail, k |-> j]]
      BY <1>2 DEF Verify, MoveTo
    <2>2. grants'[k] = grants[k]
      BY <1>2 DEF Verify
    <2>3. QED
      BY <1>1, <2>1, <2>2, KeepsSpent
  <1>3. CASE GetLink(t)
    <2>1. CASE request[t].k \in live
      <3>1. request[t].k # k /\ MoveTo(t, "delete", email[request[t].k], request[t].k)
        BY <1>3, <2>1 DEF GetLink, Spent
      <3>2. request' = [request EXCEPT ![t] =
                       [pc |-> "delete", e |-> email[request[t].k], k |-> request[t].k]]
        BY <3>1 DEF MoveTo
      <3>3. QED
        BY <1>1, <1>3, <3>1, <3>2, KeepsSpent DEF GetLink
    <2>2. CASE request[t].k \notin live
      BY <1>1, <1>3, <2>2, NoRequestType, KeepsSpent DEF GetLink, EndRequest
    <2>3. QED
      BY <2>1, <2>2
  <1>4. CASE Delete(t) \/ FindUser(t) \/ CreateUser(t)
    <2>1. request[t].k # k
      BY <1>4 DEF Delete, FindUser, CreateUser, Spent, Holding
    <2>2. grants'[k] = grants[k]
      BY <1>4, <2>1 DEF Delete, FindUser, CreateUser, Grant, LinkIInv, LinkTypeOK
    <2>3. CASE EndRequest(t)
      BY <1>1, <2>2, <2>3, NoRequestType, KeepsSpent DEF EndRequest
    <2>4. ASSUME NEW step, Goto(t, step)
          PROVE  Spent(k)' /\ grants'[k] = grants[k]
      BY <1>1, <2>1, <2>2, <2>4, KeepsSpent DEF Goto, MoveTo
    <2>5. QED
      BY <1>4, <2>3, <2>4 DEF Delete, FindUser, CreateUser, Grant
  <1>5. QED
    BY <1>2, <1>3, <1>4

-----------------------------------------------------------------------------
(* The send budget *)

(* Sends to e that passed the check and are not counted, and those that are  *)
(* counted and not mailed.                                                   *)
IsAdmitted(call, e) == call.e = e /\ call.pc \in {"put_link", "incr"}
IsCounted(call, e) == call.e = e /\ call.pc \in {"check_ttl", "expire", "mail"}
Admitted(e) == {t \in Requests : IsAdmitted(request[t], e)}
Counted(e) == {t \in Requests : IsCounted(request[t], e)}

(* Every mail was counted, and whatever the counter and the sends on their   *)
(* way to it add up to was admitted below the maximum, but for the sends     *)
(* that read the counter together.                                           *)
Metered(e) ==
    /\ mails[e] + Cardinality(Counted(e)) <= sends[e]
    /\ sends[e] + Cardinality(Admitted(e)) <= MaxSends - 1 + Cardinality(Requests)
Budget == ~late => \A e \in Emails : Metered(e)

LEMMA Empty == Cardinality({}) = 0
  BY FS_EmptySet

LEMMA Sizes ==
  /\ Cardinality(Requests) \in Nat
  /\ \A e \in Emails : /\ Cardinality(Admitted(e)) \in Nat /\ Cardinality(Counted(e)) \in Nat
                       /\ Cardinality(Admitted(e)) <= Cardinality(Requests)
  <1>1. IsFiniteSet(Requests) /\ Cardinality(Requests) \in Nat
    BY RequestsAssumption, FS_CardinalityType
  <1>2. ASSUME NEW e \in Emails
        PROVE  /\ Cardinality(Admitted(e)) \in Nat /\ Cardinality(Counted(e)) \in Nat
               /\ Cardinality(Admitted(e)) <= Cardinality(Requests)
    <2>1. Admitted(e) \in SUBSET Requests /\ Counted(e) \in SUBSET Requests
      BY DEF Admitted, Counted
    <2>2. /\ IsFiniteSet(Admitted(e)) /\ IsFiniteSet(Counted(e))
          /\ Cardinality(Admitted(e)) <= Cardinality(Requests)
      BY <1>1, <2>1, FS_Subset
    <2>3. QED
      BY <2>2, FS_CardinalityType
  <1>3. QED
    BY <1>1, <1>2

(* A set of calls of which at most t's membership changes. *)
LEMMA Recount ==
  ASSUME NEW S \in SUBSET Requests, NEW U \in SUBSET Requests, NEW t \in Requests,
         S \ {t} = U \ {t}
  PROVE  Cardinality(U) = Cardinality(S) + (IF t \in U THEN 1 ELSE 0)
                                         - (IF t \in S THEN 1 ELSE 0)
  <1>1. IsFiniteSet(S) /\ IsFiniteSet(U)
    BY RequestsAssumption, FS_Subset
  <1>2. Cardinality(S) \in Nat /\ Cardinality(U) \in Nat
    BY <1>1, FS_CardinalityType
  <1>3. /\ Cardinality(S \ {t}) = IF t \in S THEN Cardinality(S) - 1 ELSE Cardinality(S)
        /\ Cardinality(U \ {t}) = IF t \in U THEN Cardinality(U) - 1 ELSE Cardinality(U)
    BY <1>1, FS_RemoveElement
  <1>4. QED
    BY <1>2, <1>3

LEMMA Restaged ==
  ASSUME NEW t \in Requests, \A r \in Requests \ {t} : request'[r] = request[r], NEW e \in Emails
  PROVE  /\ Cardinality(Admitted(e)') = Cardinality(Admitted(e))
              + (IF IsAdmitted(request'[t], e) THEN 1 ELSE 0) - (IF IsAdmitted(request[t], e) THEN 1 ELSE 0)
         /\ Cardinality(Counted(e)') = Cardinality(Counted(e))
              + (IF IsCounted(request'[t], e) THEN 1 ELSE 0) - (IF IsCounted(request[t], e) THEN 1 ELSE 0)
  <1>1. /\ Admitted(e)' \in SUBSET Requests /\ Admitted(e) \in SUBSET Requests
        /\ Admitted(e) \ {t} = Admitted(e)' \ {t}
        /\ t \in Admitted(e)' <=> IsAdmitted(request'[t], e)
        /\ t \in Admitted(e) <=> IsAdmitted(request[t], e)
    BY DEF Admitted
  <1>2. /\ Counted(e)' \in SUBSET Requests /\ Counted(e) \in SUBSET Requests
        /\ Counted(e) \ {t} = Counted(e)' \ {t}
        /\ t \in Counted(e)' <=> IsCounted(request'[t], e)
        /\ t \in Counted(e) <=> IsCounted(request[t], e)
    BY DEF Counted
  <1>3. Cardinality(Admitted(e)') = Cardinality(Admitted(e))
          + (IF IsAdmitted(request'[t], e) THEN 1 ELSE 0) - (IF IsAdmitted(request[t], e) THEN 1 ELSE 0)
    BY <1>1, Recount
  <1>4. Cardinality(Counted(e)') = Cardinality(Counted(e))
          + (IF IsCounted(request'[t], e) THEN 1 ELSE 0) - (IF IsCounted(request[t], e) THEN 1 ELSE 0)
    BY <1>2, Recount
  <1>5. QED
    BY <1>3, <1>4

LEMMA InitBudget == LinkInit => Budget
  <1>. SUFFICES ASSUME LinkInit, NEW e \in Emails PROVE Metered(e)
    BY DEF Budget
  <1>1. Counted(e) = {} /\ Admitted(e) = {}
    BY NoRequestType DEF LinkInit, Counted, Admitted, IsCounted, IsAdmitted
  <1>2. QED
    BY <1>1, Empty, Sizes, Constants DEF LinkInit, Metered

(* A step of t that mails and counts nothing. *)
LEMMA StillMetered ==
  ASSUME LinkIInv, NEW t \in Requests, NEW q, request' = [request EXCEPT ![t] = q],
         NEW e \in Emails, sends'[e] = sends[e], mails'[e] = mails[e], Metered(e),
         IsCounted(q, e) => IsCounted(request[t], e),
         IsAdmitted(q, e) => IsAdmitted(request[t], e) \/ sends[e] < MaxSends
  PROVE  Metered(e)'
  <1>1. request'[t] = q /\ \A r \in Requests \ {t} : request'[r] = request[r]
    BY DEF LinkIInv, LinkTypeOK
  <1>2. Cardinality(Counted(e)') \in Nat /\ Cardinality(Admitted(e)') \in Nat
        /\ Cardinality(Admitted(e)') <= Cardinality(Requests)
    <2>1. Admitted(e)' \in SUBSET Requests /\ Counted(e)' \in SUBSET Requests
      BY DEF Admitted, Counted
    <2>2. QED
      BY <2>1, RequestsAssumption, FS_Subset, FS_CardinalityType
  <1>3. Cardinality(Counted(e)') <= Cardinality(Counted(e))
    BY <1>1, Restaged, Sizes
  <1>4. mails'[e] + Cardinality(Counted(e)') <= sends'[e]
    BY <1>2, <1>3, Sizes DEF Metered, LinkIInv, LinkTypeOK
  <1>5. sends'[e] + Cardinality(Admitted(e)') <= MaxSends - 1 + Cardinality(Requests)
    <2>1. CASE sends[e] < MaxSends
      BY <1>2, <2>1, Sizes, Constants DEF LinkIInv, LinkTypeOK
    <2>2. CASE IsAdmitted(q, e) => IsAdmitted(request[t], e)
      <3>1. Cardinality(Admitted(e)') <= Cardinality(Admitted(e))
        BY <1>1, <2>2, Restaged, Sizes
      <3>2. QED
        BY <1>2, <3>1, Sizes, Constants DEF Metered, LinkIInv, LinkTypeOK
    <2>3. QED
      BY <2>1, <2>2
  <1>6. QED
    BY <1>4, <1>5 DEF Metered

(* t, moving to the locals q, is neither newly counted nor admitted unread. *)
Harmless(t, q) ==
    \A e \in Emails : /\ IsCounted(q, e) => IsCounted(request[t], e)
                      /\ IsAdmitted(q, e) => IsAdmitted(request[t], e) \/ sends[e] < MaxSends

(* Where the steps that touch neither counter nor mails leave their call. *)
LEMMA QuietStep ==
  ASSUME LinkIInv, NEW t \in Requests,
         \/ LinkCall(t) \/ Abort(t)
         \/ GetSends(t) \/ GetTtl(t) \/ Rearm(t) \/ PutLink(t) \/ CheckTtl(t) \/ Expire(t)
         \/ GetLink(t) \/ Delete(t) \/ FindUser(t) \/ CreateUser(t)
  PROVE  /\ UNCHANGED <<sends, mails, late>>
         /\ \E q : request' = [request EXCEPT ![t] = q] /\ Harmless(t, q)
  <1>1. UNCHANGED <<sends, mails, late>>
    BY DEF LinkCall, Send, Verify, Abort, GetSends, GetTtl, Rearm, PutLink, CheckTtl, Expire, GetLink,
           Delete, FindUser, CreateUser
  <1>2. CASE EndRequest(t)
    <2>1. Harmless(t, NoRequest)
      BY NoRequestType DEF Harmless, IsCounted, IsAdmitted
    <2>2. QED
      BY <1>1, <1>2, <2>1 DEF EndRequest
  <1>3. CASE ~EndRequest(t) /\ (LinkCall(t) \/ GetTtl(t) \/ GetLink(t) \/ Delete(t) \/ FindUser(t))
    <2>1. PICK step \in {"get_sends", "rearm", "get_link", "delete", "user", "create"},
               e \in Emails \cup {NoEmail}, k \in Tokens \cup {NoToken} :
             request' = [request EXCEPT ![t] = [pc |-> step, e |-> e, k |-> k]]
      BY <1>3 DEF LinkCall, Send, Verify, GetTtl, GetLink, Delete, FindUser, Goto, MoveTo, LinkIInv,
                  LinkTypeOK, RequestStates, Grant
    <2>2. Harmless(t, [pc |-> step, e |-> e, k |-> k])
      BY DEF Harmless, IsCounted, IsAdmitted
    <2>3. QED
      BY <1>1, <2>1, <2>2
  <1>4. CASE GetSends(t)
    <2>. DEFINE q == [pc |-> IF sends[request[t].e] >= MaxSends THEN "get_ttl" ELSE "put_link",
                      e |-> request[t].e, k |-> request[t].k]
    <2>1. request' = [request EXCEPT ![t] = q]
      BY <1>4 DEF GetSends, Goto, MoveTo
    <2>2. Harmless(t, q)
      BY Constants DEF LinkIInv, LinkTypeOK, Harmless, IsCounted, IsAdmitted
    <2>3. QED
      BY <1>1, <2>1, <2>2
  <1>5. CASE PutLink(t)
    <2>1. PICK k \in FreshLink : request' = [request EXCEPT ![t] = [pc |-> "incr", e |-> request[t].e, k |-> k]]
      BY <1>5 DEF PutLink, MoveTo
    <2>2. Harmless(t, [pc |-> "incr", e |-> request[t].e, k |-> k])
      BY <1>5 DEF PutLink, Harmless, IsCounted, IsAdmitted
    <2>3. QED
      BY <1>1, <2>1, <2>2
  <1>6. CASE CheckTtl(t) \/ Expire(t)
    <2>1. PICK step \in {"expire", "mail"} :
             request' = [request EXCEPT ![t] = [pc |-> step, e |-> request[t].e, k |-> request[t].k]]
      BY <1>6 DEF CheckTtl, Expire, Goto, MoveTo
    <2>2. Harmless(t, [pc |-> step, e |-> request[t].e, k |-> request[t].k])
      BY <1>6 DEF CheckTtl, Expire, Harmless, IsCounted, IsAdmitted
    <2>3. QED
      BY <1>1, <2>1, <2>2
  <1>7. QED
    BY <1>2, <1>3, <1>4, <1>5, <1>6 DEF Abort, Rearm, CreateUser, Grant

LEMMA QuietBudget ==
  ASSUME LinkIInv, Budget, NEW t \in Requests,
         \/ LinkCall(t) \/ Abort(t)
         \/ GetSends(t) \/ GetTtl(t) \/ Rearm(t) \/ PutLink(t) \/ CheckTtl(t) \/ Expire(t)
         \/ GetLink(t) \/ Delete(t) \/ FindUser(t) \/ CreateUser(t)
  PROVE  Budget'
  <1>1. UNCHANGED <<sends, mails, late>>
    BY QuietStep
  <1>2. PICK q : request' = [request EXCEPT ![t] = q] /\ Harmless(t, q)
    BY QuietStep
  <1>3. ASSUME NEW e \in Emails, Metered(e) PROVE Metered(e)'
    BY <1>1, <1>2, <1>3, StillMetered DEF Harmless
  <1>4. QED
    BY <1>1, <1>3 DEF Budget

(* A send that is counted was admitted, and one that is mailed was counted. *)
LEMMA CountBudget ==
  ASSUME LinkIInv, Budget, NEW t \in Requests, Incr(t) \/ Mail(t)
  PROVE  Budget'
  <1>. DEFINE a == request[t].e
  <1>1. a \in Emails /\ late' = late /\ (\A r \in Requests \ {t} : request'[r] = request[r])
    BY DEF Incr, Mail, Goto, MoveTo, EndRequest, LinkIInv, LinkTypeOK, Shape, Sending
  <1>2. ASSUME NEW e \in Emails, Metered(e), ~late
        PROVE  Metered(e)'
    <2>1. /\ {mails[e], sends[e], Cardinality(Counted(e)), Cardinality(Admitted(e)),
              Cardinality(Requests)} \subseteq Nat
      BY Sizes DEF LinkIInv, LinkTypeOK
    <2>2. CASE Incr(t)
      <3>1. /\ IsAdmitted(request[t], e) <=> e = a
            /\ IsCounted(request'[t], e) <=> e = a
            /\ ~IsAdmitted(request'[t], e) /\ ~IsCounted(request[t], e)
        BY <2>2 DEF Incr, Goto, MoveTo, LinkIInv, LinkTypeOK, IsAdmitted, IsCounted
      <3>2. mails' = mails /\ sends'[e] = IF e = a THEN sends[e] + 1 ELSE sends[e]
        BY <1>1, <2>2 DEF Incr, LinkIInv, LinkTypeOK
      <3>3. /\ Cardinality(Counted(e)') = IF e = a THEN Cardinality(Counted(e)) + 1
                                                   ELSE Cardinality(Counted(e))
            /\ Cardinality(Admitted(e)') = IF e = a THEN Cardinality(Admitted(e)) - 1
                                                    ELSE Cardinality(Admitted(e))
        BY <1>1, <2>1, <3>1, Restaged
      <3>4. QED
        BY <1>2, <2>1, <3>2, <3>3, Constants DEF Metered
    <2>3. CASE Mail(t)
      <3>1. /\ IsCounted(request[t], e) <=> e = a
            /\ ~IsAdmitted(request'[t], e) /\ ~IsCounted(request'[t], e) /\ ~IsAdmitted(request[t], e)
        BY <2>3, NoRequestType DEF Mail, EndRequest, LinkIInv, LinkTypeOK, IsAdmitted, IsCounted
      <3>2. sends' = sends /\ mails'[e] = IF e = a THEN mails[e] + 1 ELSE mails[e]
        BY <1>1, <1>2, <2>3 DEF Mail, LinkIInv, LinkTypeOK
      <3>3. /\ Cardinality(Counted(e)') = IF e = a THEN Cardinality(Counted(e)) - 1
                                                   ELSE Cardinality(Counted(e))
            /\ Cardinality(Admitted(e)') = Cardinality(Admitted(e))
        BY <1>1, <2>1, <3>1, Restaged
      <3>4. QED
        BY <1>2, <2>1, <3>2, <3>3, Constants DEF Metered
    <2>4. QED
      BY <2>2, <2>3
  <1>3. QED
    BY <1>1, <1>2 DEF Budget

(* Time that passes while no send is in flight ends a window whole. *)
LEMMA TickBudget ==
  ASSUME LinkIInv, Budget, Tick
  PROVE  Budget'
  <1>. SUFFICES ASSUME ~late', NEW e \in Emails PROVE Metered(e)'
    BY DEF Budget
  <1>1. ~(late \/ \E t \in Requests : request[t].pc \in Sending)
    BY DEF Tick
  <1>2. Metered(e)
    BY <1>1 DEF Budget
  <1>3. request' = request /\ Counted(e) = {} /\ Admitted(e) = {}
    BY <1>1 DEF Tick, Counted, Admitted, IsCounted, IsAdmitted, Sending
  <1>4. Cardinality(Counted(e)') = 0 /\ Cardinality(Admitted(e)') = 0
    BY <1>3, Empty DEF Counted, Admitted
  <1>5. \/ sends'[e] = 0 /\ mails'[e] = 0
        \/ sends'[e] = sends[e] /\ mails'[e] = mails[e]
    BY DEF Tick
  <1>6. QED
    BY <1>2, <1>3, <1>4, <1>5, Empty, Sizes, Constants DEF Metered, LinkIInv, LinkTypeOK

LEMMA NextBudget == LinkIInv /\ Budget /\ [LinkNext]_linkVars => Budget'
  <1>. SUFFICES ASSUME LinkIInv, Budget, [LinkNext]_linkVars PROVE Budget'
    OBVIOUS
  <1>. USE DEF Budget, Metered, Admitted, Counted
  <1>1. CASE UNCHANGED linkVars
    BY <1>1 DEF linkVars
  <1>2. CASE \E k \in Tokens : LoseLink(k)
    BY <1>2 DEF LoseLink
  <1>3. CASE \E e \in Emails : Register(e)
    BY <1>3 DEF Register
  <1>. USE DEF LinkNext, LinkEnvironment, RequestStep
  <1>4. QED
    BY <1>1, <1>2, <1>3, TickBudget, QuietBudget, CountBudget

-----------------------------------------------------------------------------
(* Theorems *)

(* The keys and accounts of magic_link.py stay well typed, and every link    *)
(* that is live or was mailed was drawn.                                     *)
THEOREM LinkTypeCorrect == LinkSpec => []LinkTypeOK
  <1>1. LinkIInv => LinkTypeOK
    BY DEF LinkIInv
  <1>2. QED
    BY <1>1, LinkInvariance, PTL

(* verify_magic_link: once a link was consumed or has expired and no         *)
(* verification of it is under way, it never logs anybody in again.          *)
THEOREM NeverAgain == LinkSpec => SpentStaysSpent
  <1>1. ASSUME LinkIInv, [LinkNext]_linkVars
        PROVE  [\A k \in Tokens : Spent(k) => Spent(k)' /\ grants'[k] = grants[k]]_linkVars
    <2>. SUFFICES ASSUME NEW k \in Tokens, Spent(k), LinkNext
                  PROVE  Spent(k)' /\ grants'[k] = grants[k]
      BY <1>1
    <2>1. ASSUME NEW t \in Requests, LinkCall(t) \/ RequestStep(t)
          PROVE  Spent(k)' /\ grants'[k] = grants[k]
      BY <1>1, <2>1, SpentSend, SpentVerify DEF LinkCall, RequestStep
    <2>2. CASE Tick
      BY <2>2 DEF Tick, Spent, Holding
    <2>3. ASSUME NEW j \in Tokens, LoseLink(j)
          PROVE  Spent(k)' /\ grants'[k] = grants[k]
      BY <2>3 DEF LoseLink, Spent, Holding
    <2>4. ASSUME NEW t \in Requests, Abort(t)
          PROVE  Spent(k)' /\ grants'[k] = grants[k]
      BY <1>1, <2>4, NoRequestType, KeepsSpent DEF Abort, EndRequest, Spent
    <2>5. ASSUME NEW e \in Emails, Register(e)
          PROVE  Spent(k)' /\ grants'[k] = grants[k]
      BY <2>5 DEF Register, Spent, Holding
    <2>6. QED
      BY <2>1, <2>2, <2>3, <2>4, <2>5 DEF LinkNext, LinkEnvironment
  <1>2. QED
    BY <1>1, LinkInvariance, PTL DEF LinkSpec, SpentStaysSpent

(* send_magic_link: however the sends to an address interleave, they         *)
(* overshoot its budget by at most the other calls in flight.                *)
THEOREM Budgeted == LinkSpec => []SendBudget
  <1>1. LinkIInv /\ Budget => SendBudget
    <2>. SUFFICES ASSUME LinkIInv, Budget, ~late, NEW e \in Emails
                  PROVE  mails[e] <= MaxSends - 1 + Cardinality(Requests)
      BY DEF SendBudget
    <2>1. Metered(e) /\ mails[e] \in Nat /\ sends[e] \in Nat
      BY DEF Budget, LinkIInv, LinkTypeOK
    <2>2. QED
      BY <2>1, Sizes, Constants DEF Metered
  <1>2. QED
    BY <1>1, InitLinkIInv, NextLinkIInv, InitBudget, NextBudget, PTL DEF LinkSpec

-------------------------------------------------------------------------------
(* Webhooks *)

-----------------------------------------------------------------------------
(* Every job in one place, and one end of it *)

(* A coroutine holds a job it has taken from the queue or made itself. *)
HandSteps == {"lookup", "post", "record", "insert", "retry", "putback"}
Holds(r) == r.pc \in HandSteps

Places == 1..Len(queue)

(* The attempts at one delivery: the event e to the endpoint p. *)
Is(j, e, p) == EventOf(j) = e /\ EndpointOf(j) = p
Same(j, k) == Is(j, EventOf(k), EndpointOf(k))
Ends(f, j) == Is(j, f[1], f[2])

Fate == {"delivered", "exhausted", "dropped", "lost"}
DeleteSteps == {"delete", "deliveries", "profile"}

RowStates == [job : Jobs, ok : BOOLEAN]
CoroStates == [pc : HandSteps \cup DeleteSteps \cup {"idle", "push", "pop"},
               job : Jobs \cup {NoJob} \cup {Job("none", p, 0) : p \in Endpoints},
               ok : BOOLEAN, event : Events \cup {"none"},
               list : SUBSET (Endpoints \cup RowStates), now : SUBSET Jobs,
               seen : Nat, requeued : Nat]

(* Which locals a coroutine has at which await. *)
CallShape(c, r) ==
    /\ r.pc \in {"pop", "putback"} => c \in Workers
    /\ r.pc \in DeleteSteps \cup {"push"} => c \in Clients
    /\ r.pc \in HandSteps => r.job \in Jobs
    /\ r.pc \in {"idle", "pop", "push"} => r.job = NoJob
    /\ r.pc \in DeleteSteps => EndpointOf(r.job) \in Endpoints
    /\ r.pc = "push" => r.event \in Events /\ r.list \subseteq Endpoints
    /\ r.pc = "retry" => Attempts(r.job) < MaxRetries /\ ~r.ok
    /\ r.requeued <= r.seen /\ r.seen <= MaxJobs
    /\ r.pc = "putback" => r.requeued < r.seen

Typed ==
    /\ backend \in Backends
    /\ state \in [Endpoints -> {"new", "on", "off", "gone"}]
    /\ rows \subseteq RowStates
    /\ queue \in Seq(Jobs) /\ due \subseteq Jobs
    /\ used \subseteq Events /\ raced \subseteq Endpoints
    /\ fates \subseteq Events \X Endpoints \X Fate
    /\ co \in [Coros -> CoroStates]
    /\ \A c \in Coros : CallShape(c, co[c])

(* A delivery has one place in the queue, one coroutine that holds it, one    *)
(* dispatch that is going to queue it, or one end.                            *)
Single ==
    /\ \A i, k \in Places : Same(queue[i], queue[k]) => i = k
    /\ \A c, d \in Coros : Holds(co[c]) /\ Holds(co[d]) /\ Same(co[c].job, co[d].job) => c = d
    /\ \A c, d \in Coros :
         co[c].pc = "push" /\ co[d].pc = "push" /\ co[c].event = co[d].event => c = d
    /\ \A f, g \in fates : f[1] = g[1] /\ f[2] = g[2] => f = g

(* What is queued is not held, and what has come to its end is neither. *)
Exclusive ==
    /\ \A i \in Places : \A c \in Coros : Holds(co[c]) => ~Same(queue[i], co[c].job)
    /\ \A f \in fates : \A i \in Places : ~Ends(f, queue[i])
    /\ \A f \in fates : \A c \in Coros : Holds(co[c]) => ~Ends(f, co[c].job)

(* A dispatch has still to queue what nobody has seen. *)
Unseen(e, p) ==
    /\ \A i \in Places : ~Is(queue[i], e, p)
    /\ \A c \in Coros : Holds(co[c]) => ~Is(co[c].job, e, p)
    /\ \A f \in fates : ~(f[1] = e /\ f[2] = p)
    /\ \A r \in rows : ~Is(r.job, e, p)
Ahead == \A c \in Coros : co[c].pc = "push" => \A p \in co[c].list : Unseen(co[c].event, p)

(* Whatever there is of an event came after it was drawn. *)
Dispatched ==
    /\ \A i \in Places : EventOf(queue[i]) \in used
    /\ \A c \in Coros : Holds(co[c]) => EventOf(co[c].job) \in used
    /\ \A c \in Coros : co[c].pc = "push" => co[c].event \in used
    /\ \A f \in fates : f[1] \in used
    /\ \A r \in rows : EventOf(r.job) \in used

(* The attempts recorded of a job that is still to be made are earlier ones,  *)
(* and failed.                                                                *)
Earlier(r, j) == Same(r.job, j) => ~r.ok /\ Attempts(r.job) < Attempts(j)
Recorded(r, q) ==
    Holds(q) /\ Same(r.job, q.job) =>
        /\ ~r.ok
        /\ \/ Attempts(r.job) < Attempts(q.job)
           \/ q.pc = "retry" /\ r.job = q.job
RowsOnce ==
    /\ \A r \in rows : \A i \in Places : Earlier(r, queue[i])
    /\ \A r \in rows : \A c \in Coros : Recorded(r, co[c])
    /\ \A r, s \in rows : r.job = s.job => r = s

(* A row that outlives its endpoint was being written when it was deleted. *)
Deletes(r, p) == r.pc \in {"deliveries", "profile"} /\ EndpointOf(r.job) = p
Writes(r, p) == r.pc = "insert" /\ EndpointOf(r.job) = p
MarkedRows == \A p \in Endpoints : state[p] = "gone" => RowsOf(p) = {} \/ p \in raced
MarkedWrites ==
    \A p \in Endpoints, c \in Coros : Writes(co[c], p) =>
        /\ backend # "memory"
        /\ state[p] = "gone" => p \in raced
        /\ \A d \in Coros : Deletes(co[d], p) => p \in raced
MarkedDeletes ==
    \A p \in Endpoints, c \in Coros : Deletes(co[c], p) =>
        /\ backend \in {"mongodb", "dynamodb"}
        /\ p \in raced \/ RowsOf(p) \subseteq (IF co[c].pc = "deliveries" THEN co[c].list ELSE {})
Survivors == MarkedRows /\ MarkedWrites /\ MarkedDeletes

KInv == Single /\ Exclusive /\ Ahead /\ Dispatched /\ RowsOnce
HookInv == Typed /\ KInv /\ Survivors

-----------------------------------------------------------------------------
(* Jobs and the queue *)

LEMMA JobParts ==
  \A e, p, n : EventOf(Job(e, p, n)) = e /\ EndpointOf(Job(e, p, n)) = p /\ Attempts(Job(e, p, n)) = n
  BY DEF Job, EventOf, EndpointOf, Attempts

LEMMA JobTypes ==
  ASSUME NEW j \in Jobs
  PROVE  /\ EventOf(j) \in Events /\ EndpointOf(j) \in Endpoints
         /\ Attempts(j) \in Nat /\ Attempts(j) <= MaxRetries
         /\ j = Job(EventOf(j), EndpointOf(j), Attempts(j)) /\ j # NoJob
  <1>1. PICK e \in Events, p \in Endpoints, n \in 0..MaxRetries : j = Job(e, p, n)
    BY DEF Jobs
  <1>2. n \in Nat /\ n <= MaxRetries
    BY RetriesAssumption
  <1>3. j # NoJob
    BY <1>1 DEF Job, NoJob
  <1>4. QED
    BY <1>1, <1>2, <1>3, JobParts

LEMMA JobIn ==
  ASSUME NEW e \in Events, NEW p \in Endpoints, NEW n \in Nat, n <= MaxRetries
  PROVE  Job(e, p, n) \in Jobs
  <1>1. n \in 0..MaxRetries
    BY RetriesAssumption
  <1>2. QED
    BY <1>1 DEF Jobs

LEMMA PushHead ==
  ASSUME queue \in Seq(Jobs), NEW j \in Jobs, queue' = <<j>> \o queue
  PROVE  /\ queue' \in Seq(Jobs)
         /\ 1 \in Places' /\ queue'[1] = j
         /\ \A i \in Places' : i # 1 => i - 1 \in Places /\ queue'[i] = queue[i - 1]
  BY DEF Places

LEMMA PopLast ==
  ASSUME queue \in Seq(Jobs), queue # <<>>, queue' = SubSeq(queue, 1, Len(queue) - 1)
  PROVE  /\ queue' \in Seq(Jobs)
         /\ Len(queue) \in Places /\ queue[Len(queue)] \in Jobs
         /\ \A i \in Places' : i \in Places /\ i # Len(queue) /\ queue'[i] = queue[i]
  <1>1. Len(queue) \in Nat /\ Len(queue) # 0
    BY EmptySeq
  <1>2. \A i \in 1..(Len(queue) - 1) : queue[i] \in Jobs
    BY <1>1
  <1>3. /\ queue' \in Seq(Jobs) /\ Len(queue') = Len(queue) - 1
        /\ \A i \in 1..(Len(queue) - 1) : queue'[i] = queue[i]
    <2>. DEFINE n == Len(queue) - 1
    <2>1. n \in Nat /\ 1 \in Int /\ Nat \subseteq Int
      BY <1>1
    <2>2. /\ SubSeq(queue, 1, n) \in Seq(Jobs)
          /\ Len(SubSeq(queue, 1, n)) = IF 1 <= n THEN n - 1 + 1 ELSE 0
          /\ \A i \in 1..(n - 1 + 1) : SubSeq(queue, 1, n)[i] = queue[1 + i - 1]
      <3>. HIDE DEF n
      <3>1. QED
        BY <1>2, <2>1, SubSeqProperties DEF n
    <2>3. n - 1 + 1 = n /\ \A i \in 1..n : 1 + i - 1 = i
      <3>. HIDE DEF n
      <3>1. QED
        BY <2>1
    <2>4. 1 <= n \/ n = 0
      <3>. HIDE DEF n
      <3>1. QED
        BY <2>1
    <2>5. SubSeq(queue, 1, n) \in Seq(Jobs) /\ Len(SubSeq(queue, 1, n)) = n
          /\ \A i \in 1..n : SubSeq(queue, 1, n)[i] = queue[i]
      <3>. HIDE DEF n
      <3>1. QED
        BY <2>1, <2>2, <2>3, <2>4
    <2>6. QED
      BY <2>5
  <1>4. QED
    BY <1>1, <1>3 DEF Places

LEMMA QueueTyped ==
  ASSUME queue \in Seq(Jobs)
  PROVE  \A i \in Places : queue[i] \in Jobs
  BY DEF Places

-----------------------------------------------------------------------------
(* One coroutine takes a step *)

Turn(c, q) == co' = [co EXCEPT ![c] = q]

LEMMA Turned ==
  ASSUME Typed, NEW c \in Coros, NEW q, Turn(c, q)
  PROVE  co'[c] = q /\ \A d \in Coros \ {c} : co'[d] = co[d]
  BY DEF Typed, Turn

LEMMA TurnTyped ==
  ASSUME Typed, NEW c \in Coros, NEW q \in CoroStates, CallShape(c, q), Turn(c, q)
  PROVE  co' \in [Coros -> CoroStates] /\ \A d \in Coros : CallShape(d, co'[d])
  BY DEF Typed, Turn

LEMMA IdleTyped == NoCall \in CoroStates /\ \A c : CallShape(c, NoCall)
  BY RetriesAssumption DEF NoCall, CoroStates, CallShape, HandSteps, DeleteSteps, NoJob

-----------------------------------------------------------------------------
(* What keeps every delivery in one place *)

(* The coroutine c keeps what it holds and has still to queue, or less. *)
Lets(q, r) ==
    /\ Holds(r) => Holds(q) /\ r.job = q.job /\ (q.pc = "retry" => r.pc = "retry")
    /\ r.pc = "push" => q.pc = "push" /\ r.event = q.event /\ r.list \subseteq q.list

Only(c) == \A d \in Coros \ {c} : co'[d] = co[d]

LEMMA QuietKeys ==
  ASSUME KInv, NEW c \in Coros, Only(c), Lets(co[c], co'[c]),
         UNCHANGED <<queue, fates, used>>, rows' \subseteq rows
  PROVE  KInv'
  <1>1. Places' = Places
    BY DEF Places
  <1>2. \A d \in Coros : Lets(co[d], co'[d])
    BY DEF Only, Lets
  <1>3. Single'
    BY <1>1, <1>2 DEF KInv, Single, Lets
  <1>4. Exclusive'
    BY <1>1, <1>2 DEF KInv, Exclusive, Lets
  <1>5. Ahead'
    BY <1>1, <1>2 DEF KInv, Ahead, Unseen, Lets
  <1>6. Dispatched'
    BY <1>1, <1>2 DEF KInv, Dispatched, Lets
  <1>7. RowsOnce'
    <2>1. \A r \in rows', d \in Coros : Recorded(r, co'[d])
      BY <1>2 DEF KInv, RowsOnce, Recorded, Lets
    <2>2. QED
      BY <1>1, <2>1 DEF KInv, RowsOnce
  <1>8. QED
    BY <1>3, <1>4, <1>5, <1>6, <1>7 DEF KInv

(* The job that c holds comes to its end, its attempt recorded or not. *)
LEMMA SettleKeys ==
  ASSUME KInv, NEW c \in Coros, Only(c), Holds(co[c]), ~Holds(co'[c]), co'[c].pc # "push",
         NEW f, Ends(f, co[c].job), fates' = fates \cup {f}, UNCHANGED <<queue, used>>,
         \/ rows' = rows
         \/ co[c].pc # "retry" /\ \E ok : rows' = rows \cup {[job |-> co[c].job, ok |-> ok]},
         \A d \in Coros : Holds(co[d]) => co[d].job \in Jobs, queue \in Seq(Jobs)
  PROVE  KInv'
  <1>. USE DEF KInv
  <1>1. Places' = Places
    BY DEF Places
  <1>2. \A d \in Coros : /\ Holds(co'[d]) => d # c /\ Holds(co[d]) /\ co'[d] = co[d]
                         /\ co'[d].pc = "push" => d # c /\ co'[d] = co[d]
    BY DEF Only
  <1>3. Single'
    BY <1>1, <1>2 DEF Single, Exclusive, Ends, Is
  <1>4. Exclusive'
    BY <1>1, <1>2 DEF Exclusive, Single, Ends, Is, Same
  <1>5. \A r \in rows' : r \in rows \/ r.job = co[c].job
    OBVIOUS
  <1>6. Ahead'
    BY <1>1, <1>2, <1>5 DEF Ahead, Unseen, Ends, Is
  <1>7. Dispatched'
    BY <1>1, <1>2, <1>5 DEF Dispatched, Ends, Is
  <1>8. RowsOnce'
    <2>1. \A r \in rows' : \A i \in Places : Earlier(r, queue[i])
      BY <1>5 DEF RowsOnce, Exclusive, Earlier, Same, Is
    <2>2. \A r \in rows', d \in Coros : Recorded(r, co'[d])
      BY <1>2, <1>5 DEF RowsOnce, Single, Recorded, Same, Is
    <2>3. \A r, s \in rows' : r.job = s.job => r = s
      <3>1. CASE rows' = rows
        BY <3>1 DEF RowsOnce
      <3>2. CASE co[c].pc # "retry" /\ \E ok : rows' = rows \cup {[job |-> co[c].job, ok |-> ok]}
        <4>1. \A r \in rows : r.job # co[c].job
          <5>1. ASSUME NEW r \in rows, r.job = co[c].job
                PROVE  FALSE
            <6>1. Attempts(r.job) < Attempts(r.job) /\ Attempts(r.job) \in Nat
              BY <3>2, <5>1, JobTypes DEF RowsOnce, Recorded, Same, Is
            <6>2. QED
              BY <6>1
          <5>2. QED
            BY <5>1
        <4>2. QED
          BY <3>2, <4>1 DEF RowsOnce
      <3>3. QED
        BY <3>1, <3>2
    <2>4. QED
      BY <1>1, <2>1, <2>2, <2>3 DEF RowsOnce
  <1>9. QED
    BY <1>3, <1>4, <1>6, <1>7, <1>8

(* A job of a delivery nobody else has goes to the head of the queue: it is   *)
(* new, put back or tried again.                                              *)
LEMMA EnqueueKeys ==
  ASSUME KInv, queue \in Seq(Jobs), NEW c \in Coros, Only(c), NEW j \in Jobs,
         queue' = <<j>> \o queue, UNCHANGED <<fates, used, rows>>,
         ~Holds(co'[c]), co'[c].pc = "push" => Lets(co[c], co'[c]),
         \/ /\ Holds(co[c]) /\ Same(j, co[c].job)
            /\ \A r \in rows : Earlier(r, j)
         \/ /\ co[c].pc = "push" /\ Is(j, co[c].event, EndpointOf(j))
            /\ EndpointOf(j) \in co[c].list /\ EndpointOf(j) \notin co'[c].list
  PROVE  KInv'
  <1>. USE DEF KInv
  <1>1. /\ \A i \in Places' : i # 1 => i - 1 \in Places /\ queue'[i] = queue[i - 1]
        /\ queue'[1] = j
    BY PushHead
  <1>2. \A d \in Coros : /\ Holds(co'[d]) => d # c /\ Holds(co[d]) /\ co'[d] = co[d]
                         /\ co'[d].pc = "push" => Lets(co[d], co'[d])
    BY DEF Only, Lets
  <1>3. /\ \A i \in Places : ~Same(queue[i], j)
        /\ \A f \in fates : ~Ends(f, j)
        /\ \A d \in Coros : Holds(co'[d]) => ~Same(j, co'[d].job)
        /\ \A r \in rows : Earlier(r, j)
        /\ EventOf(j) \in used
    <2>1. CASE Holds(co[c]) /\ Same(j, co[c].job) /\ \A r \in rows : Earlier(r, j)
      BY <1>2, <2>1, SMTT(20) DEF Same, Is, Ends, Exclusive, Single, Dispatched
    <2>2. CASE /\ co[c].pc = "push" /\ Is(j, co[c].event, EndpointOf(j))
               /\ EndpointOf(j) \in co[c].list
      BY <1>2, <2>2 DEF Same, Is, Ends, Ahead, Unseen, Earlier, Dispatched
    <2>3. QED
      BY <2>1, <2>2
  <1>4. Single'
    <2>1. \A i, k \in Places' : Same(queue'[i], queue'[k]) => i = k
      <3>1. ASSUME NEW i \in Places', NEW k \in Places', Same(queue'[i], queue'[k]), i # 1, k # 1
            PROVE  i = k
        <4>1. i - 1 = k - 1
          BY <1>1, <3>1 DEF Single
        <4>2. QED
          BY <4>1 DEF Places
      <3>2. ASSUME NEW i \in Places', i # 1
            PROVE  ~Same(queue'[i], j) /\ ~Same(j, queue'[i])
        BY <1>1, <1>3, <3>2 DEF Same, Is
      <3>3. QED
        BY <1>1, <3>1, <3>2, ZenonT(30)
    <2>2. \A d, e \in Coros :
            Holds(co'[d]) /\ Holds(co'[e]) /\ Same(co'[d].job, co'[e].job) => d = e
      BY <1>2 DEF Single
    <2>3. \A d, e \in Coros :
            co'[d].pc = "push" /\ co'[e].pc = "push" /\ co'[d].event = co'[e].event => d = e
      BY <1>2 DEF Single, Lets, Holds
    <2>4. QED
      BY <2>1, <2>2, <2>3 DEF Single
  <1>5. Exclusive'
    BY <1>1, <1>2, <1>3, ZenonT(30) DEF Exclusive
  <1>6. Ahead'
    <2>1. ASSUME NEW d \in Coros, co'[d].pc = "push", NEW p \in co'[d].list
          PROVE  ~Is(j, co'[d].event, p)
      <3>1. CASE Holds(co[c])
        BY <1>2, <2>1, <3>1, SMTT(20) DEF Ahead, Unseen, Lets, Same, Is, Holds, HandSteps
      <3>2. CASE co[c].pc = "push" /\ d # c
        BY <1>2, <2>1, <3>2 DEF Single, Lets, Is, Holds, HandSteps
      <3>3. CASE co[c].pc = "push" /\ d = c
        BY <2>1, <3>3 DEF Is, Holds, HandSteps
      <3>4. QED
        BY <3>1, <3>2, <3>3
    <2>2. ASSUME NEW d \in Coros, co'[d].pc = "push", NEW p \in co'[d].list
          PROVE  Unseen(co[d].event, p)'
      <3>1. Unseen(co[d].event, p) /\ co'[d].event = co[d].event
        BY <1>2, <2>2 DEF Ahead, Lets
      <3>2. \A i \in Places' : ~Is(queue'[i], co'[d].event, p)
        BY <1>1, <2>1, <2>2, <3>1 DEF Unseen
      <3>3. \A e \in Coros : Holds(co'[e]) => ~Is(co'[e].job, co'[d].event, p)
        BY <1>2, <3>1 DEF Unseen
      <3>4. QED
        BY <3>1, <3>2, <3>3 DEF Unseen
    <2>3. QED
      BY <2>2 DEF Ahead
  <1>7. Dispatched'
    BY <1>1, <1>2, <1>3 DEF Dispatched, Lets
  <1>8. RowsOnce'
    <2>1. \A r \in rows, i \in Places' : Earlier(r, queue'[i])
      BY <1>1, <1>3 DEF RowsOnce
    <2>2. \A r \in rows, d \in Coros : Recorded(r, co'[d])
      BY <1>2 DEF RowsOnce, Recorded
    <2>3. QED
      BY <2>1, <2>2 DEF RowsOnce
  <1>9. QED
    BY <1>4, <1>5, <1>6, <1>7, <1>8

(* The job at the end of the queue passes into the hands of c. *)
LEMMA PopKeys ==
  ASSUME KInv, queue \in Seq(Jobs), queue # <<>>, NEW c \in Coros, Only(c),
         queue' = SubSeq(queue, 1, Len(queue) - 1), UNCHANGED <<fates, used, rows>>,
         ~Holds(co[c]), co[c].pc # "push", Holds(co'[c]), co'[c].job = queue[Len(queue)]
  PROVE  KInv'
  <1>. USE DEF KInv
  <1>. DEFINE n == Len(queue)
  <1>1. /\ n \in Places
        /\ \A i \in Places' : i \in Places /\ i # n /\ queue'[i] = queue[i]
    BY PopLast
  <1>. HIDE DEF n
  <1>2. \A d \in Coros \ {c} : co'[d] = co[d]
    BY DEF Only
  <1>3. co'[c].job = queue[n] /\ Holds(co'[c]) /\ co'[c].pc # "push"
    BY DEF n, Holds, HandSteps
  <1>4. Single'
    <2>1. \A i, k \in Places' : Same(queue'[i], queue'[k]) => i = k
      BY <1>1 DEF Single
    <2>2. \A d, e \in Coros :
            Holds(co'[d]) /\ Holds(co'[e]) /\ Same(co'[d].job, co'[e].job) => d = e
      BY <1>1, <1>2, <1>3 DEF Single, Exclusive, Same, Is
    <2>3. \A d, e \in Coros :
            co'[d].pc = "push" /\ co'[e].pc = "push" /\ co'[d].event = co'[e].event => d = e
      BY <1>2, <1>3 DEF Single
    <2>4. QED
      BY <2>1, <2>2, <2>3 DEF Single
  <1>5. Exclusive'
    <2>1. \A i \in Places', d \in Coros : Holds(co'[d]) => ~Same(queue'[i], co'[d].job)
      BY <1>1, <1>2, <1>3 DEF Single, Exclusive
    <2>2. \A f \in fates, i \in Places' : ~Ends(f, queue'[i])
      BY <1>1 DEF Exclusive
    <2>3. \A f \in fates, d \in Coros : Holds(co'[d]) => ~Ends(f, co'[d].job)
      BY <1>1, <1>2, <1>3 DEF Exclusive
    <2>4. QED
      BY <2>1, <2>2, <2>3 DEF Exclusive
  <1>6. Ahead'
    <2>1. ASSUME NEW d \in Coros, co'[d].pc = "push", NEW p \in co'[d].list
          PROVE  Unseen(co[d].event, p)'
      <3>1. Unseen(co[d].event, p) /\ co'[d] = co[d]
        BY <1>2, <1>3, <2>1 DEF Ahead
      <3>2. \A i \in Places' : ~Is(queue'[i], co'[d].event, p)
        BY <1>1, <3>1 DEF Unseen
      <3>3. \A e \in Coros : Holds(co'[e]) => ~Is(co'[e].job, co'[d].event, p)
        BY <1>1, <1>2, <1>3, <3>1 DEF Unseen
      <3>4. QED
        BY <3>1, <3>2, <3>3 DEF Unseen
    <2>2. QED
      BY <2>1 DEF Ahead
  <1>7. Dispatched'
    BY <1>1, <1>2, <1>3 DEF Dispatched
  <1>8. RowsOnce'
    <2>1. \A r \in rows, i \in Places' : Earlier(r, queue'[i])
      BY <1>1 DEF RowsOnce
    <2>2. \A r \in rows, d \in Coros : Recorded(r, co'[d])
      BY <1>1, <1>2, <1>3 DEF RowsOnce, Recorded, Earlier
    <2>3. QED
      BY <2>1, <2>2 DEF RowsOnce
  <1>9. QED
    BY <1>4, <1>5, <1>6, <1>7, <1>8

(* A new event is drawn: for one job in hand, or for a dispatch. *)
LEMMA DrawKeys ==
  ASSUME KInv, NEW c \in Coros, Only(c), NEW e \in Events \ used, used' = used \cup {e},
         UNCHANGED <<queue, fates, rows>>,
         Holds(co'[c]) => EventOf(co'[c].job) = e,
         co'[c].pc = "push" => co'[c].event = e
  PROVE  KInv'
  <1>. USE DEF KInv
  <1>1. Places' = Places
    BY DEF Places
  <1>2. \A d \in Coros \ {c} : co'[d] = co[d]
    BY DEF Only
  <1>3. Single'
    BY <1>1, <1>2 DEF Single, Dispatched, Same, Is
  <1>4. Exclusive'
    BY <1>1, <1>2 DEF Exclusive, Dispatched, Same, Is, Ends
  <1>5. Ahead'
    <2>1. ASSUME NEW d \in Coros, co'[d].pc = "push", NEW p \in co'[d].list
          PROVE  Unseen(co[d].event, p)'
      <3>1. CASE d = c
        BY <1>1, <1>2, <2>1, <3>1 DEF Unseen, Dispatched, Is, Holds, HandSteps
      <3>2. CASE d # c
        BY <1>1, <1>2, <2>1, <3>2 DEF Ahead, Unseen, Dispatched, Is
      <3>3. QED
        BY <3>1, <3>2
    <2>2. QED
      BY <2>1 DEF Ahead
  <1>6. Dispatched'
    BY <1>1, <1>2 DEF Dispatched
  <1>7. RowsOnce'
    <2>1. \A r \in rows, d \in Coros : Recorded(r, co'[d])
      BY <1>2 DEF RowsOnce, Recorded, Dispatched, Same, Is
    <2>2. QED
      BY <1>1, <2>1 DEF RowsOnce
  <1>8. QED
    BY <1>3, <1>4, <1>5, <1>6, <1>7

(* A failed attempt that will be retried is recorded. *)
LEMMA RecordKeys ==
  ASSUME KInv, NEW c \in Coros, Only(c), Holds(co[c]), co[c].pc # "retry",
         Holds(co'[c]), co'[c].pc = "retry", co'[c].job = co[c].job,
         rows' = rows \cup {[job |-> co[c].job, ok |-> FALSE]},
         UNCHANGED <<queue, fates, used>>, co[c].job \in Jobs
  PROVE  KInv'
  <1>. USE DEF KInv
  <1>1. Places' = Places
    BY DEF Places
  <1>2. \A d \in Coros : /\ Holds(co'[d]) => Holds(co[d]) /\ co'[d].job = co[d].job
                         /\ co'[d].pc = "push" => co'[d] = co[d]
                         /\ d # c => co'[d] = co[d]
    BY DEF Only
  <1>3. Single'
    BY <1>1, <1>2 DEF Single
  <1>4. Exclusive'
    BY <1>1, <1>2 DEF Exclusive
  <1>5. \A r \in rows' : r \in rows \/ (r.job = co[c].job /\ ~r.ok)
    OBVIOUS
  <1>6. Ahead'
    <2>1. ASSUME NEW d \in Coros, co'[d].pc = "push", NEW p \in co'[d].list
          PROVE  Unseen(co[d].event, p)'
      BY <1>1, <1>2, <1>5, <2>1 DEF Ahead, Unseen
    <2>2. QED
      BY <2>1 DEF Ahead
  <1>7. Dispatched'
    BY <1>1, <1>2, <1>5 DEF Dispatched
  <1>8. RowsOnce'
    <2>1. \A r \in rows' : \A i \in Places : Earlier(r, queue[i])
      BY <1>5 DEF RowsOnce, Exclusive, Earlier, Same, Is
    <2>2. \A r \in rows', d \in Coros : Recorded(r, co'[d])
      <3>1. \A r \in rows' : Recorded(r, co'[c])
        BY <1>5 DEF RowsOnce, Recorded
      <3>2. ASSUME NEW r \in rows', NEW d \in Coros, d # c
            PROVE  Recorded(r, co'[d])
        BY <1>2, <1>5, <3>2 DEF RowsOnce, Single, Recorded, Same, Is
      <3>3. QED
        BY <3>1, <3>2
    <2>3. \A r \in rows : r.job # co[c].job
      <3>1. ASSUME NEW r \in rows, r.job = co[c].job
            PROVE  FALSE
        <4>1. Attempts(r.job) < Attempts(r.job) /\ Attempts(r.job) \in Nat
          BY <3>1, JobTypes DEF RowsOnce, Recorded, Same, Is
        <4>2. QED
          BY <4>1
      <3>2. QED
        BY <3>1
    <2>4. \A r, s \in rows' : r.job = s.job => r = s
      <3>1. \A r \in rows' : r.job = co[c].job => r = [job |-> co[c].job, ok |-> FALSE]
        BY <2>3
      <3>2. \A r, s \in rows : r.job = s.job => r = s
        BY DEF RowsOnce
      <3>3. \A r \in rows' : r \in rows \/ r.job = co[c].job
        BY <1>5
      <3>4. QED
        BY <3>1, <3>2, <3>3
    <2>5. QED
      BY <1>1, <2>1, <2>2, <2>4 DEF RowsOnce
  <1>9. QED
    BY <1>3, <1>4, <1>6, <1>7, <1>8

-----------------------------------------------------------------------------
(* Rows and the endpoints they belong to *)

(* The coroutine neither starts to write a row nor to delete an endpoint. *)
Calm(q, r) ==
    /\ r.pc = "insert" => q.pc = "insert" /\ r.job = q.job
    /\ r.pc \in {"deliveries", "profile"} => r.pc = q.pc /\ r.job = q.job /\ r.list = q.list

LEMMA CalmSurvivors ==
  ASSUME Survivors, NEW c \in Coros, Only(c), Calm(co[c], co'[c]), backend' = backend,
         rows' \subseteq rows, raced \subseteq raced',
         \A p \in Endpoints : state'[p] = "gone" => state[p] = "gone"
  PROVE  Survivors'
  <1>. USE DEF Survivors
  <1>1. \A d \in Coros, p \in Endpoints :
          /\ Writes(co'[d], p) => Writes(co[d], p)
          /\ Deletes(co'[d], p) => Deletes(co[d], p) /\ co'[d].pc = co[d].pc /\ co'[d].list = co[d].list
    BY DEF Only, Calm, Writes, Deletes
  <1>2. \A p \in Endpoints : RowsOf(p)' \subseteq RowsOf(p)
    BY DEF RowsOf
  <1>3. MarkedRows'
    BY <1>2 DEF MarkedRows
  <1>4. MarkedWrites'
    BY <1>1 DEF MarkedWrites
  <1>5. MarkedDeletes'
    BY <1>1, <1>2 DEF MarkedDeletes
  <1>6. QED
    BY <1>3, <1>4, <1>5

(* A row is written of an endpoint that is still there, or was being deleted. *)
LEMMA RowSurvivors ==
  ASSUME Survivors, NEW c \in Coros, Only(c),
         co'[c].pc \notin {"insert", "deliveries", "profile"}, UNCHANGED <<backend, state, raced>>,
         NEW r, rows' = rows \cup {r}, NEW p \in Endpoints, EndpointOf(r.job) = p,
         Writes(co[c], p) \/ (backend = "memory" /\ state[p] # "gone")
  PROVE  Survivors'
  <1>. USE DEF Survivors
  <1>1. \A d \in Coros, e \in Endpoints :
          /\ Writes(co'[d], e) => Writes(co[d], e)
          /\ Deletes(co'[d], e) => Deletes(co[d], e) /\ co'[d].pc = co[d].pc /\ co'[d].list = co[d].list
    BY DEF Only, Writes, Deletes
  <1>2. \A e \in Endpoints : e # p => RowsOf(e)' \subseteq RowsOf(e)
    BY DEF RowsOf
  <1>3. /\ state[p] = "gone" => p \in raced
        /\ \A d \in Coros : Deletes(co[d], p) => p \in raced
    BY DEF MarkedWrites, MarkedDeletes
  <1>4. MarkedRows'
    BY <1>2, <1>3 DEF MarkedRows
  <1>5. MarkedWrites'
    BY <1>1 DEF MarkedWrites
  <1>6. MarkedDeletes'
    BY <1>1, <1>2, <1>3 DEF MarkedDeletes
  <1>7. QED
    BY <1>4, <1>5, <1>6

(* A row is going to be written of an endpoint that is still there. *)
LEMMA WriteSurvivors ==
  ASSUME Survivors, NEW c \in Coros, Only(c), NEW p \in Endpoints,
         Writes(co'[c], p), state[p] # "gone", backend # "memory",
         UNCHANGED <<backend, state, rows>>, raced \subseteq raced',
         \A d \in Coros : Deletes(co[d], p) => p \in raced'
  PROVE  Survivors'
  <1>. USE DEF Survivors
  <1>1. \A d \in Coros, e \in Endpoints :
          /\ Writes(co'[d], e) => Writes(co[d], e) \/ e = p
          /\ Deletes(co'[d], e) => Deletes(co[d], e) /\ co'[d].pc = co[d].pc /\ co'[d].list = co[d].list
    BY DEF Only, Writes, Deletes
  <1>2. \A e \in Endpoints : RowsOf(e)' = RowsOf(e)
    BY DEF RowsOf
  <1>3. MarkedRows'
    BY <1>2 DEF MarkedRows
  <1>4. MarkedWrites'
    BY <1>1 DEF MarkedWrites
  <1>5. MarkedDeletes'
    BY <1>1, <1>2 DEF MarkedDeletes
  <1>6. QED
    BY <1>3, <1>4, <1>5

(* The rows of an endpoint are listed or deleted: whoever is writing one      *)
(* meanwhile leaves its mark.                                                 *)
LEMMA SweepSurvivors ==
  ASSUME Survivors, NEW c \in Coros, Only(c), NEW p \in Endpoints,
         Deletes(co'[c], p), co[c].pc \in DeleteSteps, EndpointOf(co[c].job) = p,
         backend \in {"mongodb", "dynamodb"},
         UNCHANGED <<backend, state>>, rows' \subseteq rows, Stamp(p),
         \/ RowsOf(p)' \subseteq (IF co'[c].pc = "deliveries" THEN co'[c].list ELSE {})
         \/ p \in raced
  PROVE  Survivors'
  <1>. USE DEF Survivors
  <1>1. \A d \in Coros, e \in Endpoints :
          /\ Writes(co'[d], e) => Writes(co[d], e)
          /\ Deletes(co'[d], e) => e = p \/ (Deletes(co[d], e) /\ d # c /\ co'[d] = co[d])
    BY DEF Only, Writes, Deletes
  <1>2. /\ \A e \in Endpoints : RowsOf(e)' \subseteq RowsOf(e)
        /\ raced \subseteq raced'
        /\ \A d \in Coros : Writes(co[d], p) => p \in raced'
    BY DEF RowsOf, Stamp, Writing, Writes, At, Target
  <1>3. MarkedRows'
    BY <1>2 DEF MarkedRows
  <1>4. MarkedWrites'
    BY <1>1, <1>2 DEF MarkedWrites
  <1>5. MarkedDeletes'
    <2>1. ASSUME NEW d \in Coros, NEW e \in Endpoints, Deletes(co'[d], e), d # c
          PROVE  /\ backend \in {"mongodb", "dynamodb"}
                 /\ \/ e \in raced'
                    \/ RowsOf(e)' \subseteq (IF co'[d].pc = "deliveries" THEN co'[d].list ELSE {})
      <3>1. co'[d] = co[d]
        BY <2>1 DEF Only
      <3>2. QED
        BY <1>2, <2>1, <3>1 DEF MarkedDeletes
    <2>2. \A e \in Endpoints : Deletes(co'[c], e) => e = p
      BY DEF Deletes
    <2>3. QED
      BY <1>2, <2>1, <2>2 DEF MarkedDeletes
  <1>6. QED
    BY <1>3, <1>4, <1>5

(* An endpoint goes, and its rows with it but for those that are marked. *)
LEMMA GoneSurvivors ==
  ASSUME Survivors, NEW c \in Coros, Only(c), co'[c] = NoCall, NEW p \in Endpoints,
         backend' = backend, rows' \subseteq rows, raced \subseteq raced',
         \A e \in Endpoints : e # p => state'[e] = state[e],
         RowsOf(p)' = {} \/ p \in raced',
         \A d \in Coros : Writes(co[d], p) => p \in raced'
  PROVE  Survivors'
  <1>. USE DEF Survivors
  <1>1. \A d \in Coros, e \in Endpoints :
          /\ Writes(co'[d], e) => Writes(co[d], e)
          /\ Deletes(co'[d], e) => Deletes(co[d], e) /\ co'[d] = co[d]
    BY DEF Only, Writes, Deletes, NoCall
  <1>2. \A e \in Endpoints : RowsOf(e)' \subseteq RowsOf(e)
    BY DEF RowsOf
  <1>3. MarkedRows'
    BY <1>2 DEF MarkedRows
  <1>4. MarkedWrites'
    BY <1>1 DEF MarkedWrites
  <1>5. MarkedDeletes'
    BY <1>1, <1>2 DEF MarkedDeletes
  <1>6. QED
    BY <1>3, <1>4, <1>5

-----------------------------------------------------------------------------
(* The actions *)

(* A step that moves no job: one coroutine goes on with what it has, or with  *)
(* less.                                                                      *)
LEMMA QuietHookStep ==
  ASSUME HookInv, NEW c \in Coros, NEW q \in CoroStates, CallShape(c, q), Turn(c, q),
         Lets(co[c], q), Calm(co[c], q),
         UNCHANGED <<backend, state, rows, queue, due, used, fates, raced>>
  PROVE  HookInv'
  <1>1. co'[c] = q /\ Only(c)
    BY Turned DEF HookInv, Only
  <1>2. Typed'
    BY TurnTyped DEF HookInv, Typed
  <1>3. KInv'
    BY <1>1, QuietKeys DEF HookInv
  <1>4. Survivors'
    BY <1>1, CalmSurvivors DEF HookInv
  <1>5. QED
    BY <1>2, <1>3, <1>4 DEF HookInv

LEMMA IdleStep ==
  ASSUME NEW q
  PROVE  Lets(q, NoCall) /\ Calm(q, NoCall) /\ ~Holds(NoCall) /\ NoCall.pc = "idle"
  BY DEF Lets, Calm, NoCall, Holds, HandSteps

LEMMA RequestInv ==
  ASSUME HookInv, NEW c \in Clients, Request(c)
  PROVE  HookInv'
  <1>1. c \in Coros /\ c \notin Workers /\ co[c] \in CoroStates /\ CallShape(c, co[c])
    BY CorosAssumption DEF Coros, HookInv, Typed
  <1>2. CASE DispatchEvent(c)
    <2>1. PICK e \in Events \ used :
            /\ At(c, "idle") /\ used' = used \cup {e}
            /\ co' = [co EXCEPT ![c].pc = "push", ![c].event = e,
                                ![c].list = {p \in Endpoints : Subscribed(p, e)}]
            /\ UNCHANGED <<backend, state, rows, queue, due, fates, raced>>
      BY <1>2 DEF DispatchEvent, endpoint, jobs
    <2>. DEFINE l == {p \in Endpoints : Subscribed(p, e)}
                q == [co[c] EXCEPT !.pc = "push", !.event = e, !.list = l]
    <2>2. Turn(c, q)
      BY <2>1 DEF Turn
    <2>3. l \subseteq Endpoints
      OBVIOUS
    <2>. HIDE DEF l
    <2>4. /\ q \in CoroStates /\ q.pc = "push" /\ q.event = e /\ q.list = l
          /\ q.job = co[c].job /\ q.seen = co[c].seen /\ q.requeued = co[c].requeued
      BY <1>1, <2>3 DEF CoroStates
    <2>. HIDE DEF q
    <2>5. CallShape(c, q)
      BY <1>1, <2>1, <2>3, <2>4 DEF CallShape, At, HandSteps, DeleteSteps
    <2>6. co'[c] = q /\ Only(c)
      BY <1>1, <2>2, Turned DEF HookInv, Only
    <2>7. Typed'
      BY <1>1, <2>1, <2>2, <2>4, <2>5, TurnTyped DEF HookInv, Typed
    <2>8. KInv'
      BY <1>1, <2>1, <2>4, <2>6, DrawKeys DEF HookInv, Holds, HandSteps
    <2>9. Survivors'
      BY <1>1, <2>1, <2>4, <2>6, CalmSurvivors DEF HookInv, Calm
    <2>10. QED
      BY <2>7, <2>8, <2>9 DEF HookInv
  <1>3. CASE SendTestEvent(c)
    <2>1. PICK e \in Events \ used, p \in Endpoints :
            /\ At(c, "idle") /\ used' = used \cup {e}
            /\ co' = [co EXCEPT ![c].pc = "lookup", ![c].job = Job(e, p, 0)]
            /\ UNCHANGED <<backend, state, rows, queue, due, fates, raced>>
      BY <1>3 DEF SendTestEvent, endpoint, jobs
    <2>. DEFINE j == Job(e, p, 0)
                q == [co[c] EXCEPT !.pc = "lookup", !.job = j]
    <2>2. Turn(c, q)
      BY <2>1 DEF Turn
    <2>3. j \in Jobs /\ EventOf(j) = e
      BY JobIn, JobParts, RetriesAssumption
    <2>. HIDE DEF j
    <2>4. /\ q \in CoroStates /\ q.pc = "lookup" /\ q.job = j
          /\ q.seen = co[c].seen /\ q.requeued = co[c].requeued
      BY <1>1, <2>3 DEF CoroStates, HandSteps
    <2>. HIDE DEF q
    <2>5. CallShape(c, q)
      BY <1>1, <2>1, <2>3, <2>4 DEF CallShape, At, HandSteps, DeleteSteps
    <2>6. co'[c] = q /\ Only(c)
      BY <1>1, <2>2, Turned DEF HookInv, Only
    <2>7. Typed'
      BY <1>1, <2>1, <2>2, <2>4, <2>5, TurnTyped DEF HookInv, Typed
    <2>8. KInv'
      BY <1>1, <2>1, <2>3, <2>4, <2>6, DrawKeys DEF HookInv
    <2>9. Survivors'
      BY <1>1, <2>1, <2>4, <2>6, CalmSurvivors DEF HookInv, Calm
    <2>10. QED
      BY <2>7, <2>8, <2>9 DEF HookInv
  <1>4. CASE DeleteEndpoint(c)
    <2>1. PICK p \in Endpoints :
            /\ At(c, "idle")
            /\ co' = [co EXCEPT ![c].pc = "delete", ![c].job = Job("none", p, 0)]
            /\ UNCHANGED <<backend, state, rows, queue, due, used, fates, raced>>
      BY <1>4 DEF DeleteEndpoint, endpoint, jobs
    <2>. DEFINE j == Job("none", p, 0)
                q == [co[c] EXCEPT !.pc = "delete", !.job = j]
    <2>2. Turn(c, q)
      BY <2>1 DEF Turn
    <2>3. j \in {Job("none", e, 0) : e \in Endpoints} /\ EndpointOf(j) \in Endpoints
      BY JobParts
    <2>. HIDE DEF j
    <2>4. /\ q \in CoroStates /\ q.pc = "delete" /\ q.job = j
          /\ q.seen = co[c].seen /\ q.requeued = co[c].requeued
      BY <1>1, <2>3 DEF CoroStates, DeleteSteps
    <2>. HIDE DEF q
    <2>5. CallShape(c, q)
      BY <1>1, <2>1, <2>3, <2>4 DEF CallShape, At, HandSteps, DeleteSteps
    <2>6. Lets(co[c], q) /\ Calm(co[c], q)
      BY <2>4 DEF Lets, Calm, Holds, HandSteps
    <2>7. QED
      BY <1>1, <2>1, <2>2, <2>4, <2>5, <2>6, QuietHookStep
  <1>5. QED
    BY <1>2, <1>3, <1>4 DEF Request

LEMMA PushNextInv ==
  ASSUME HookInv, NEW c \in Clients, PushNext(c)
  PROVE  HookInv'
  <1>1. c \in Coros /\ co[c] \in CoroStates /\ CallShape(c, co[c]) /\ co[c].pc = "push"
        /\ co[c].event \in Events /\ co[c].list \subseteq Endpoints
    BY DEF Coros, HookInv, Typed, PushNext, At, CallShape
  <1>2. CASE Return(c) /\ UNCHANGED jobs
    BY <1>1, <1>2, QuietHookStep, IdleStep, IdleTyped DEF PushNext, Return, Turn, endpoint, jobs
  <1>3. CASE \E p \in co[c].list :
               LET job == Job(co[c].event, p, 0) IN
               /\ queue' = <<job>> \o queue
               /\ due' = due \cup {job}
               /\ co' = [co EXCEPT ![c].list = @ \ {p}]
    <2>1. PICK p \in co[c].list :
            /\ queue' = <<Job(co[c].event, p, 0)>> \o queue
            /\ due' = due \cup {Job(co[c].event, p, 0)}
            /\ co' = [co EXCEPT ![c].list = @ \ {p}]
      BY <1>3
    <2>2. UNCHANGED <<backend, state, rows, used, fates, raced>>
      BY DEF PushNext, endpoint
    <2>. DEFINE j == Job(co[c].event, p, 0)
                q == [co[c] EXCEPT !.list = co[c].list \ {p}]
    <2>3. j \in Jobs /\ EventOf(j) = co[c].event /\ EndpointOf(j) = p
      BY <1>1, JobIn, JobParts, RetriesAssumption
    <2>4. /\ q \in CoroStates /\ q.pc = "push" /\ q.list = co[c].list \ {p}
          /\ q.event = co[c].event /\ q.job = co[c].job
          /\ q.seen = co[c].seen /\ q.requeued = co[c].requeued
      BY <1>1 DEF CoroStates
    <2>5. Turn(c, q)
      BY <2>1 DEF Turn
    <2>. HIDE DEF q
    <2>6. CallShape(c, q)
      BY <1>1, <2>4 DEF CallShape, HandSteps, DeleteSteps
    <2>7. co'[c] = q /\ Only(c)
      BY <1>1, <2>5, Turned DEF HookInv, Only
    <2>8. queue' = <<j>> \o queue /\ due' = due \cup {j}
      BY <2>1
    <2>. HIDE DEF j
    <2>9. Typed'
      BY <1>1, <2>2, <2>3, <2>4, <2>5, <2>6, <2>8, TurnTyped, PushHead DEF HookInv, Typed
    <2>10. KInv'
      <3>1. ~Holds(q) /\ Lets(co[c], q)
        BY <1>1, <2>4 DEF Holds, HandSteps, Lets
      <3>2. Is(j, co[c].event, EndpointOf(j)) /\ EndpointOf(j) \notin q.list
        BY <2>3, <2>4 DEF Is
      <3>3. queue \in Seq(Jobs)
        BY DEF HookInv, Typed
      <3>4. QED
        BY <1>1, <2>2, <2>3, <2>7, <2>8, <3>1, <3>2, <3>3, EnqueueKeys DEF HookInv
    <2>11. Survivors'
      BY <1>1, <2>2, <2>4, <2>7, CalmSurvivors DEF HookInv, Calm
    <2>12. QED
      BY <2>9, <2>10, <2>11 DEF HookInv
  <1>4. QED
    BY <1>2, <1>3 DEF PushNext

LEMMA DeleteInv ==
  ASSUME HookInv, NEW c \in Clients,
         MemoryDelete(c) \/ SqlDelete(c) \/ MongoDelete(c) \/ DynamoDelete(c)
  PROVE  HookInv'
  <1>0. PICK p \in Endpoints : p = Target(c)
    BY DEF Coros, HookInv, Typed, MemoryDelete, SqlDelete, MongoDelete, DynamoDelete, At, CallShape,
           DeleteSteps, Target
  <1>1. /\ c \in Coros /\ co[c] \in CoroStates /\ CallShape(c, co[c])
        /\ co[c].pc \in DeleteSteps /\ p \in Endpoints /\ EndpointOf(co[c].job) = p
        /\ rows \subseteq RowStates
        /\ UNCHANGED <<queue, due, used, fates, backend>>
    BY <1>0 DEF Coros, HookInv, Typed, MemoryDelete, SqlDelete, MongoDelete, DynamoDelete, At, CallShape,
                DeleteSteps, Target, jobs
  <1>2. rows' \subseteq rows /\ raced \subseteq raced' /\ raced' \subseteq Endpoints
    <2>1. raced \subseteq Endpoints
      BY DEF HookInv, Typed
    <2>2. QED
      BY <1>0, <1>1, <2>1 DEF MemoryDelete, SqlDelete, MongoDelete, DynamoDelete, Stamp
  <1>3. ASSUME NEW q \in CoroStates, CallShape(c, q), Turn(c, q), q.pc \in DeleteSteps \cup {"idle"},
               state' \in [Endpoints -> {"new", "on", "off", "gone"}]
        PROVE  Typed' /\ KInv' /\ co'[c] = q /\ Only(c)
    <2>1. co'[c] = q /\ Only(c)
      BY <1>1, <1>3, Turned DEF HookInv, Only
    <2>2. Typed'
      BY <1>1, <1>2, <1>3, TurnTyped DEF HookInv, Typed
    <2>3. Lets(co[c], q)
      BY <1>3 DEF Lets, Holds, HandSteps, DeleteSteps
    <2>4. KInv'
      BY <1>1, <1>2, <2>1, <2>3, QuietKeys DEF HookInv
    <2>5. QED
      BY <2>1, <2>2, <2>4
  <1>4. ASSUME DropProfile(c), RowsOf(p)' = {} \/ p \in raced',
               \A d \in Coros : Writes(co[d], p) => p \in raced'
        PROVE  HookInv'
    <2>1. Turn(c, NoCall) /\ state' = [state EXCEPT ![p] = "gone"]
      BY <1>0, <1>4 DEF DropProfile, Return, Turn
    <2>2. /\ state' \in [Endpoints -> {"new", "on", "off", "gone"}]
          /\ \A e \in Endpoints : e # p => state'[e] = state[e]
      BY <1>1, <2>1 DEF HookInv, Typed
    <2>3. Typed' /\ KInv' /\ co'[c] = NoCall /\ Only(c)
      BY <1>3, <2>1, <2>2, IdleTyped, IdleStep
    <2>4. Survivors'
      BY <1>1, <1>2, <1>4, <2>2, <2>3, GoneSurvivors DEF HookInv
    <2>5. QED
      BY <2>3, <2>4 DEF HookInv
  <1>5. ASSUME NEW q \in CoroStates, CallShape(c, q), Turn(c, q), q.pc \in {"deliveries", "profile"},
               q.job = co[c].job, state' = state, Stamp(p), backend \in {"mongodb", "dynamodb"},
               \/ RowsOf(p)' \subseteq (IF q.pc = "deliveries" THEN q.list ELSE {})
               \/ p \in raced
        PROVE  HookInv'
    <2>1. Typed' /\ KInv' /\ co'[c] = q /\ Only(c)
      BY <1>3, <1>5 DEF DeleteSteps, HookInv, Typed
    <2>2. Deletes(q, p)
      BY <1>1, <1>5 DEF Deletes
    <2>3. Survivors'
      BY <1>1, <1>2, <1>5, <2>1, <2>2, SweepSurvivors DEF HookInv
    <2>4. QED
      BY <2>1, <2>3 DEF HookInv
  <1>6. CASE MemoryDelete(c)
    <2>1. RowsOf(p)' = {}
      BY <1>0, <1>6 DEF MemoryDelete, RowsOf
    <2>2. \A d \in Coros : ~Writes(co[d], p)
      BY <1>1, <1>6 DEF MemoryDelete, HookInv, Survivors, MarkedWrites
    <2>3. QED
      BY <1>4, <1>6, <2>1, <2>2 DEF MemoryDelete
  <1>7. Stamp(p) => \A d \in Coros : Writes(co[d], p) => p \in raced'
    BY DEF Stamp, Writing, Writes, At, Target
  <1>8. CASE SqlDelete(c)
    <2>1. RowsOf(p)' = {} /\ Stamp(p) /\ DropProfile(c)
      BY <1>0, <1>8 DEF SqlDelete, RowsOf
    <2>2. QED
      BY <1>4, <1>7, <2>1
  <1>9. CASE MongoDelete(c) /\ At(c, "delete")
    <2>. DEFINE q == [co[c] EXCEPT !.pc = "profile"]
    <2>1. /\ rows' = rows \ RowsOf(p) /\ Turn(c, q) /\ state' = state /\ Stamp(p)
          /\ backend = "mongodb"
      BY <1>0, <1>9 DEF MongoDelete, Enter, At, Turn
    <2>2. /\ q \in CoroStates /\ q.pc = "profile" /\ q.job = co[c].job
          /\ q.seen = co[c].seen /\ q.requeued = co[c].requeued
      BY <1>1 DEF CoroStates, DeleteSteps
    <2>. HIDE DEF q
    <2>3. CallShape(c, q)
      BY <1>1, <1>9, <2>2 DEF CallShape, At, HandSteps, DeleteSteps
    <2>4. RowsOf(p)' = {}
      BY <2>1 DEF RowsOf
    <2>5. QED
      BY <1>5, <2>1, <2>2, <2>3, <2>4
  <1>10. CASE MongoDelete(c) /\ At(c, "profile")
    <2>1. DropProfile(c) /\ rows' = rows /\ Stamp(p) /\ Deletes(co[c], p)
      BY <1>0, <1>1, <1>10 DEF MongoDelete, At, Deletes
    <2>2. RowsOf(p)' = {} \/ p \in raced'
      BY <1>1, <1>2, <1>10, <2>1 DEF HookInv, Survivors, MarkedDeletes, RowsOf, At
    <2>3. QED
      BY <1>4, <1>7, <2>1, <2>2
  <1>11. CASE DynamoDelete(c) /\ At(c, "delete")
    <2>. DEFINE l == RowsOf(p)
                q == [co[c] EXCEPT !.pc = "deliveries", !.list = l]
    <2>1. rows' = rows /\ Turn(c, q) /\ state' = state /\ Stamp(p) /\ backend = "dynamodb"
      BY <1>0, <1>11 DEF DynamoDelete, At, Turn
    <2>2. l \subseteq RowStates
      BY <1>1 DEF RowsOf
    <2>3. RowsOf(p)' \subseteq l
      BY <2>1 DEF RowsOf
    <2>. HIDE DEF l
    <2>4. /\ q \in CoroStates /\ q.pc = "deliveries" /\ q.job = co[c].job /\ q.list = l
          /\ q.seen = co[c].seen /\ q.requeued = co[c].requeued
      BY <1>1, <2>2 DEF CoroStates, DeleteSteps
    <2>. HIDE DEF q
    <2>5. CallShape(c, q)
      BY <1>1, <1>11, <2>4 DEF CallShape, At, HandSteps, DeleteSteps
    <2>6. QED
      BY <1>5, <2>1, <2>3, <2>4, <2>5
  <1>12. CASE DynamoDelete(c) /\ At(c, "deliveries")
    <2>1. Stamp(p) /\ backend = "dynamodb" /\ Deletes(co[c], p)
      BY <1>0, <1>1, <1>12 DEF DynamoDelete, At, Deletes
    <2>2. RowsOf(p) \subseteq co[c].list \/ p \in raced
      BY <1>1, <1>12, <2>1 DEF HookInv, Survivors, MarkedDeletes, At
    <2>3. CASE DropProfile(c) /\ rows' = rows /\ co[c].list = {}
      <3>1. RowsOf(p)' = {} \/ p \in raced'
        BY <1>2, <2>2, <2>3 DEF RowsOf
      <3>2. QED
        BY <1>4, <1>7, <2>1, <2>3, <3>1
    <2>4. CASE \E r \in co[c].list : /\ rows' = rows \ {r}
                                     /\ co' = [co EXCEPT ![c].list = @ \ {r}]
                                     /\ state' = state
      <3>1. PICK r \in co[c].list : /\ rows' = rows \ {r}
                                    /\ co' = [co EXCEPT ![c].list = @ \ {r}]
        BY <2>4
      <3>. DEFINE q == [co[c] EXCEPT !.list = co[c].list \ {r}]
      <3>2. Turn(c, q)
        BY <3>1 DEF Turn
      <3>3. /\ q \in CoroStates /\ q.pc = "deliveries" /\ q.job = co[c].job
            /\ q.list = co[c].list \ {r}
            /\ q.seen = co[c].seen /\ q.requeued = co[c].requeued
        BY <1>1, <1>12 DEF CoroStates, At
      <3>. HIDE DEF q
      <3>4. CallShape(c, q)
        BY <1>1, <1>12, <3>3 DEF CallShape, At, HandSteps, DeleteSteps
      <3>5. RowsOf(p)' \subseteq q.list \/ p \in raced
        BY <2>2, <3>1, <3>3 DEF RowsOf
      <3>6. QED
        BY <1>5, <2>1, <2>4, <3>2, <3>3, <3>4, <3>5
    <2>5. QED
      BY <1>12, <2>3, <2>4 DEF DynamoDelete, At
  <1>13. QED
    BY <1>6, <1>8, <1>9, <1>10, <1>11, <1>12 DEF MongoDelete, DynamoDelete

LEMMA CycleInv ==
  ASSUME HookInv, NEW w \in Workers, StartCycle(w) \/ PopJob(w) \/ PutBack(w)
  PROVE  HookInv'
  <1>1. /\ w \in Coros /\ w \notin Clients /\ co[w] \in CoroStates /\ CallShape(w, co[w])
        /\ queue \in Seq(Jobs) /\ due \subseteq Jobs
    BY CorosAssumption DEF Coros, HookInv, Typed
  <1>2. CASE StartCycle(w)
    <2>. DEFINE q == [co[w] EXCEPT !.pc = "pop", !.now = due]
    <2>1. Turn(w, q) /\ UNCHANGED <<backend, state, rows, queue, due, used, fates, raced>>
      BY <1>2 DEF StartCycle, Turn, endpoint, jobs
    <2>2. /\ q \in CoroStates /\ q.pc = "pop" /\ q.job = co[w].job
          /\ q.seen = co[w].seen /\ q.requeued = co[w].requeued
      BY <1>1 DEF CoroStates
    <2>. HIDE DEF q
    <2>3. CallShape(w, q)
      BY <1>1, <1>2, <2>2 DEF StartCycle, At, CallShape, HandSteps, DeleteSteps
    <2>4. Lets(co[w], q) /\ Calm(co[w], q)
      BY <2>2 DEF Lets, Calm, Holds, HandSteps
    <2>5. QED
      BY <1>1, <2>1, <2>2, <2>3, <2>4, QuietHookStep
  <1>3. CASE PopJob(w)
    <2>. DEFINE n == Len(queue)
                step == IF queue[n] \in co[w].now THEN "lookup" ELSE "putback"
                m == co[w].seen + 1
                q == [co[w] EXCEPT !.pc = step, !.job = queue[n], !.seen = m]
    <2>1. UNCHANGED <<backend, state, rows, due, used, fates, raced>> /\ co[w].pc = "pop"
      BY <1>3 DEF PopJob, endpoint, At
    <2>2. CASE Return(w) /\ queue' = queue
      BY <1>1, <2>1, <2>2, QuietHookStep, IdleStep, IdleTyped DEF Return, Turn
    <2>3. CASE /\ queue # <<>> /\ co[w].seen # MaxJobs
               /\ queue' = SubSeq(queue, 1, n - 1) /\ Turn(w, q)
      <3>1. queue' \in Seq(Jobs) /\ n \in Places /\ queue[n] \in Jobs
        BY <1>1, <2>3, PopLast
      <3>2. step \in {"lookup", "putback"}
        OBVIOUS
      <3>. HIDE DEF n, step
      <3>10. m \in Nat /\ m = co[w].seen + 1 /\ co[w].seen \in Nat /\ co[w].requeued \in Nat
        BY <1>1 DEF CoroStates
      <3>. HIDE DEF m
      <3>3. /\ q \in CoroStates /\ q.pc = step /\ q.job = queue[n]
            /\ q.seen = co[w].seen + 1 /\ q.requeued = co[w].requeued
            /\ q.seen \in Nat /\ co[w].seen \in Nat /\ co[w].requeued \in Nat
        BY <1>1, <3>1, <3>2, <3>10 DEF CoroStates, HandSteps
      <3>. HIDE DEF q
      <3>4. CallShape(w, q)
        <4>1. q.requeued <= q.seen /\ q.seen <= MaxJobs /\ q.requeued < q.seen
          BY <1>1, <2>3, <3>3, RetriesAssumption, SMTT(20) DEF CallShape
        <4>2. QED
          BY <1>1, <3>1, <3>2, <3>3, <4>1 DEF CallShape, HandSteps, DeleteSteps
      <3>5. co'[w] = q /\ Only(w)
        BY <1>1, <2>3, Turned DEF HookInv, Only
      <3>6. Typed'
        BY <1>1, <2>1, <2>3, <3>1, <3>3, <3>4, TurnTyped DEF HookInv, Typed
      <3>7. KInv'
        BY <1>1, <2>1, <2>3, <3>2, <3>3, <3>5, PopKeys DEF HookInv, Holds, HandSteps, n
      <3>8. Survivors'
        BY <1>1, <2>1, <3>2, <3>3, <3>5, CalmSurvivors DEF HookInv, Calm
      <3>9. QED
        BY <3>6, <3>7, <3>8 DEF HookInv
    <2>4. QED
      BY <1>3, <2>2, <2>3 DEF PopJob, Turn
  <1>4. CASE PutBack(w)
    <2>. DEFINE m == co[w].requeued + 1
                q == [co[w] EXCEPT !.pc = "pop", !.job = NoJob, !.requeued = m]
                j == co[w].job
    <2>1. UNCHANGED <<backend, state, rows, due, used, fates, raced>> /\ co[w].pc = "putback"
          /\ queue' = <<j>> \o queue /\ j \in Jobs
      BY <1>1, <1>4 DEF PutBack, endpoint, At, CallShape, HandSteps
    <2>2. PICK r \in CoroStates : CallShape(w, r) /\ Turn(w, r) /\ r.pc \in {"pop", "idle"}
      <3>1. CASE Return(w)
        BY <3>1, IdleTyped, IdleStep DEF Return, Turn
      <3>2. CASE ~(co[w].requeued + 1 >= co[w].seen) /\ Turn(w, q)
        <4>0. m \in Nat /\ m = co[w].requeued + 1
          BY <1>1 DEF CoroStates
        <4>. HIDE DEF m
        <4>1. /\ q \in CoroStates /\ q.pc = "pop" /\ q.job = NoJob
              /\ q.seen = co[w].seen /\ q.requeued = co[w].requeued + 1
              /\ co[w].seen \in Nat /\ co[w].requeued \in Nat
          BY <1>1, <4>0 DEF CoroStates
        <4>. HIDE DEF q
        <4>2. q.requeued <= q.seen /\ q.seen <= MaxJobs
          BY <1>1, <3>2, <4>1 DEF CallShape
        <4>3. CallShape(w, q)
          BY <1>1, <4>1, <4>2 DEF CallShape, HandSteps, DeleteSteps
        <4>4. QED
          BY <3>2, <4>1, <4>3
      <3>3. QED
        BY <1>4, <3>1, <3>2 DEF PutBack, Turn
    <2>3. co'[w] = r /\ Only(w)
      BY <1>1, <2>2, Turned DEF HookInv, Only
    <2>. HIDE DEF j
    <2>4. Typed'
      BY <1>1, <2>1, <2>2, TurnTyped, PushHead DEF HookInv, Typed
    <2>5. KInv'
      <3>1. Holds(co[w]) /\ ~Holds(r) /\ r.pc # "push" /\ Same(j, co[w].job)
        BY <2>1, <2>2 DEF Holds, HandSteps, Same, Is, j
      <3>2. \A s \in rows : Earlier(s, j)
        BY <1>1, <2>1, <3>1 DEF HookInv, KInv, RowsOnce, Recorded, Earlier, j
      <3>3. QED
        BY <1>1, <2>1, <2>3, <3>1, <3>2, EnqueueKeys DEF HookInv
    <2>6. Survivors'
      BY <1>1, <2>1, <2>2, <2>3, CalmSurvivors DEF HookInv, Calm
    <2>7. QED
      BY <2>4, <2>5, <2>6 DEF HookInv
  <1>5. QED
    BY <1>2, <1>3, <1>4

-----------------------------------------------------------------------------
(* Delivery *)

(* Done with its job, a worker goes on and a request returns. *)
LEMMA NextTyped ==
  ASSUME Typed, NEW c \in Coros, Holds(co[c]), NextJob(c)
  PROVE  \E q \in CoroStates : CallShape(c, q) /\ Turn(c, q) /\ q.pc \in {"pop", "idle"}
  <1>1. co[c] \in CoroStates /\ CallShape(c, co[c])
    BY DEF Typed
  <1>2. CASE Return(c)
    BY <1>2, IdleTyped, IdleStep DEF Return, Turn
  <1>3. CASE c \in Workers
    <2>. DEFINE q == [co[c] EXCEPT !.pc = "pop", !.job = NoJob, !.ok = FALSE]
    <2>1. Turn(c, q)
      BY <1>3 DEF NextJob, Turn
    <2>2. /\ q \in CoroStates /\ q.pc = "pop" /\ q.job = NoJob
          /\ q.seen = co[c].seen /\ q.requeued = co[c].requeued
      BY <1>1 DEF CoroStates
    <2>. HIDE DEF q
    <2>3. CallShape(c, q)
      BY <1>1, <1>3, <2>2 DEF CallShape, HandSteps, DeleteSteps
    <2>4. QED
      BY <2>1, <2>2, <2>3
  <1>4. QED
    BY <1>2, <1>3 DEF NextJob

LEMMA SettleTyped ==
  ASSUME HookInv, NEW c \in Coros, Holds(co[c]), NEW q \in CoroStates, CallShape(c, q), Turn(c, q),
         NEW fate \in Fate, Settle(c, fate), UNCHANGED <<backend, state, queue, used>>,
         rows' \subseteq RowStates, raced' \subseteq Endpoints
  PROVE  Typed'
  <1>1. co[c].job \in Jobs
    BY DEF HookInv, Typed, CallShape, Holds
  <1>2. EventOf(co[c].job) \in Events /\ EndpointOf(co[c].job) \in Endpoints
    BY <1>1, JobTypes
  <1>3. fates' \subseteq Events \X Endpoints \X Fate
    BY <1>2 DEF Settle, HookInv, Typed
  <1>4. due' \subseteq Jobs
    BY DEF Settle, HookInv, Typed
  <1>5. QED
    BY <1>3, <1>4, TurnTyped DEF HookInv, Typed

(* A job comes to its end, and no attempt of it is recorded. *)
LEMMA SettleInv ==
  ASSUME HookInv, NEW c \in Coros, Holds(co[c]), NEW q \in CoroStates, CallShape(c, q), Turn(c, q),
         q.pc \in {"pop", "idle"}, NEW fate \in Fate, Settle(c, fate),
         UNCHANGED <<backend, state, queue, used, rows>>,
         raced \subseteq raced', raced' \subseteq Endpoints
  PROVE  HookInv'
  <1>1. co'[c] = q /\ Only(c)
    BY Turned DEF HookInv, Only
  <1>2. Typed'
    BY SettleTyped DEF HookInv, Typed
  <1>3. KInv'
    <2>. DEFINE f == <<EventOf(co[c].job), EndpointOf(co[c].job), fate>>
    <2>1. fates' = fates \cup {f}
      BY DEF Settle
    <2>2. Ends(f, co[c].job)
      BY DEF Ends, Is
    <2>. HIDE DEF f
    <2>3. (\A d \in Coros : Holds(co[d]) => co[d].job \in Jobs) /\ queue \in Seq(Jobs)
      BY DEF HookInv, Typed, CallShape, Holds
    <2>4. ~Holds(co'[c]) /\ co'[c].pc # "push"
      BY <1>1 DEF Holds, HandSteps
    <2>5. QED
      BY <1>1, <2>1, <2>2, <2>3, <2>4, SettleKeys DEF HookInv
  <1>4. Survivors'
    BY <1>1, CalmSurvivors DEF HookInv, Calm
  <1>5. QED
    BY <1>2, <1>3, <1>4 DEF HookInv

(* The endpoint of a job that is to be recorded is still there, or somebody   *)
(* who deletes it has left a mark.                                            *)
Standing(c) ==
    \/ co[c].pc = "insert"
    \/ co[c].pc = "record" /\ backend = "memory" /\ Live(Target(c))

LEMMA SaveRowInv ==
  ASSUME HookInv, NEW c \in Coros, SaveRow(c), Standing(c),
         UNCHANGED <<backend, state, queue, used, raced>>
  PROVE  HookInv'
  <1>1. /\ co[c] \in CoroStates /\ CallShape(c, co[c]) /\ Holds(co[c]) /\ co[c].pc # "retry"
        /\ co[c].job \in Jobs /\ co[c].ok \in BOOLEAN /\ rows \subseteq RowStates
        /\ raced \subseteq Endpoints
    BY DEF Standing, HookInv, Typed, CallShape, Holds, HandSteps, CoroStates
  <1>. DEFINE r == [job |-> co[c].job, ok |-> co[c].ok]
  <1>2. rows' = rows \cup {r} /\ r.job = co[c].job /\ r \in RowStates
    BY <1>1 DEF SaveRow, RowStates
  <1>3. PICK p \in Endpoints : p = EndpointOf(r.job)
    BY <1>1, JobTypes
  <1>4. Writes(co[c], p) \/ (backend = "memory" /\ state[p] # "gone")
    BY <1>2, <1>3 DEF Standing, Writes, Live, Target
  <1>5. CASE Retries(c)
    <2>. DEFINE q == [co[c] EXCEPT !.pc = "retry"]
    <2>1. Turn(c, q) /\ UNCHANGED <<fates, due>> /\ ~co[c].ok /\ Attempts(co[c].job) < MaxRetries
      BY <1>5 DEF SaveRow, Retries, Enter, Turn
    <2>2. /\ q \in CoroStates /\ q.pc = "retry" /\ q.job = co[c].job /\ q.ok = co[c].ok
          /\ q.seen = co[c].seen /\ q.requeued = co[c].requeued
      BY <1>1 DEF CoroStates, HandSteps
    <2>. HIDE DEF q
    <2>3. CallShape(c, q)
      BY <1>1, <2>1, <2>2 DEF CallShape, HandSteps, DeleteSteps
    <2>4. co'[c] = q /\ Only(c)
      BY <2>1, Turned DEF HookInv, Only
    <2>5. Typed'
      BY <1>1, <1>2, <2>1, <2>2, <2>3, TurnTyped DEF HookInv, Typed
    <2>6. rows' = rows \cup {[job |-> co[c].job, ok |-> FALSE]}
      BY <1>1, <1>2, <2>1
    <2>7. KInv'
      BY <1>1, <2>1, <2>2, <2>4, <2>6, RecordKeys DEF HookInv, Holds, HandSteps
    <2>8. Survivors'
      <3>. HIDE DEF r
      <3>1. QED
        BY <1>2, <1>3, <1>4, <2>2, <2>4, RowSurvivors DEF HookInv
    <2>9. QED
      BY <2>5, <2>7, <2>8 DEF HookInv
  <1>6. CASE ~Retries(c)
    <2>. DEFINE fate == IF co[c].ok THEN "delivered" ELSE "exhausted"
    <2>1. Settle(c, fate) /\ NextJob(c) /\ fate \in Fate
      BY <1>6 DEF SaveRow, Fate
    <2>. HIDE DEF fate
    <2>2. PICK q \in CoroStates : CallShape(c, q) /\ Turn(c, q) /\ q.pc \in {"pop", "idle"}
      BY <1>1, <2>1, NextTyped DEF HookInv
    <2>3. co'[c] = q /\ Only(c)
      BY <2>2, Turned DEF HookInv, Only
    <2>4. rows' \subseteq RowStates
      BY <1>1, <1>2
    <2>5. Typed'
      BY <1>1, <2>1, <2>2, <2>4, SettleTyped
    <2>6. KInv'
      <3>. DEFINE f == <<EventOf(co[c].job), EndpointOf(co[c].job), fate>>
      <3>1. fates' = fates \cup {f}
        BY <2>1 DEF Settle
      <3>2. Ends(f, co[c].job)
        BY DEF Ends, Is
      <3>. HIDE DEF f
      <3>3. (\A d \in Coros : Holds(co[d]) => co[d].job \in Jobs) /\ queue \in Seq(Jobs)
        BY DEF HookInv, Typed, CallShape, Holds
      <3>4. ~Holds(co'[c]) /\ co'[c].pc # "push"
        BY <2>2, <2>3 DEF Holds, HandSteps
      <3>5. \E ok : rows' = rows \cup {[job |-> co[c].job, ok |-> ok]}
        BY <1>2
      <3>. HIDE DEF r
      <3>6. QED
        BY <1>1, <2>3, <3>1, <3>2, <3>3, <3>4, <3>5, SettleKeys DEF HookInv
    <2>7. Survivors'
      <3>. HIDE DEF r
      <3>1. QED
        BY <1>2, <1>3, <1>4, <2>2, <2>3, RowSurvivors DEF HookInv
    <2>8. QED
      BY <2>5, <2>6, <2>7 DEF HookInv
  <1>7. QED
    BY <1>5, <1>6

LEMMA CheckInv ==
  ASSUME HookInv, NEW c \in Coros, CheckEndpoint(c), backend # "memory"
  PROVE  HookInv'
  <1>1. /\ co[c] \in CoroStates /\ CallShape(c, co[c]) /\ Holds(co[c]) /\ co[c].pc = "record"
        /\ co[c].job \in Jobs /\ UNCHANGED <<backend, state, queue, used>>
    BY DEF CheckEndpoint, At, HookInv, Typed, CallShape, Holds, HandSteps, endpoint
  <1>2. PICK p \in Endpoints : p = EndpointOf(co[c].job)
    BY <1>1, JobTypes
  <1>3. raced' = IF Deleting(p) THEN raced \cup {p} ELSE raced
    BY <1>2 DEF CheckEndpoint, Target
  <1>4. raced \subseteq raced' /\ raced' \subseteq Endpoints
    BY <1>2, <1>3 DEF HookInv, Typed
  <1>5. CASE Live(Target(c))
    <2>. DEFINE q == [co[c] EXCEPT !.pc = "insert"]
    <2>1. Turn(c, q) /\ UNCHANGED <<rows, fates, due>> /\ state[p] # "gone"
      BY <1>2, <1>5 DEF CheckEndpoint, Enter, Turn, Live, Target
    <2>2. /\ q \in CoroStates /\ q.pc = "insert" /\ q.job = co[c].job /\ q.ok = co[c].ok
          /\ q.seen = co[c].seen /\ q.requeued = co[c].requeued
      BY <1>1 DEF CoroStates, HandSteps
    <2>. HIDE DEF q
    <2>3. CallShape(c, q)
      BY <1>1, <2>1, <2>2 DEF CallShape, HandSteps, DeleteSteps
    <2>4. co'[c] = q /\ Only(c)
      BY <2>1, Turned DEF HookInv, Only
    <2>5. Typed'
      BY <1>1, <1>4, <2>1, <2>2, <2>3, TurnTyped DEF HookInv, Typed
    <2>6. Lets(co[c], q)
      BY <1>1, <2>2 DEF Lets, Holds
    <2>7. KInv'
      BY <1>1, <2>1, <2>4, <2>6, QuietKeys DEF HookInv
    <2>8. \A d \in Coros : Deletes(co[d], p) => p \in raced'
      <3>1. ASSUME NEW d \in Coros, Deletes(co[d], p)
            PROVE  Deleting(p)
        <4>1. d \in Clients
          BY <3>1 DEF Deletes, HookInv, Typed, CallShape, DeleteSteps
        <4>2. QED
          BY <3>1, <4>1 DEF Deleting, Deletes, Target
      <3>2. QED
        BY <1>3, <3>1
    <2>9. Survivors'
      BY <1>1, <1>2, <1>4, <2>1, <2>2, <2>4, <2>8, WriteSurvivors DEF HookInv, Writes
    <2>10. QED
      BY <2>5, <2>7, <2>9 DEF HookInv
  <1>6. CASE DropJob(c)
    <2>1. Turn(c, NoCall) /\ rows' = rows /\ Settle(c, "dropped") /\ "dropped" \in Fate
      BY <1>6 DEF DropJob, Return, Turn, Fate
    <2>2. QED
      BY <1>1, <1>4, <2>1, IdleTyped, IdleStep, SettleInv
  <1>7. QED
    BY <1>5, <1>6 DEF CheckEndpoint

LEMMA RetryInv ==
  ASSUME HookInv, NEW c \in Coros, Retry(c)
  PROVE  HookInv'
  <1>1. /\ co[c] \in CoroStates /\ CallShape(c, co[c]) /\ Holds(co[c]) /\ co[c].pc = "retry"
        /\ co[c].job \in Jobs /\ Attempts(co[c].job) < MaxRetries /\ queue \in Seq(Jobs)
        /\ due' \subseteq Jobs
    BY DEF Retry, At, HookInv, Typed, CallShape, Holds, HandSteps
  <1>. DEFINE n == Attempts(co[c].job) + 1
              j == Job(EventOf(co[c].job), EndpointOf(co[c].job), n)
  <1>2. n \in Nat /\ n <= MaxRetries /\ n = Attempts(co[c].job) + 1
        /\ Attempts(co[c].job) < n
    BY <1>1, JobTypes, RetriesAssumption
  <1>3. queue' = <<j>> \o queue
    BY DEF Retry
  <1>. HIDE DEF n
  <1>4. j \in Jobs /\ Same(j, co[c].job) /\ Attempts(j) = n
    BY <1>1, <1>2, JobTypes, JobParts, JobIn DEF Same, Is
  <1>. HIDE DEF j
  <1>5. PICK q \in CoroStates : CallShape(c, q) /\ Turn(c, q) /\ q.pc \in {"pop", "idle"}
    BY <1>1, NextTyped DEF Retry, HookInv
  <1>6. co'[c] = q /\ Only(c)
    BY <1>5, Turned DEF HookInv, Only
  <1>7. UNCHANGED <<backend, state, rows, used, fates, raced>>
    BY DEF Retry, endpoint
  <1>8. Typed'
    BY <1>1, <1>3, <1>4, <1>5, <1>7, TurnTyped, PushHead DEF HookInv, Typed
  <1>9. \A r \in rows : Earlier(r, j)
    <2>1. ASSUME NEW r \in rows, Same(r.job, j)
          PROVE  ~r.ok /\ Attempts(r.job) < n
      <3>1. Same(r.job, co[c].job)
        BY <1>4, <2>1 DEF Same, Is
      <3>2. ~r.ok /\ (Attempts(r.job) < Attempts(co[c].job) \/ r.job = co[c].job)
        BY <1>1, <3>1 DEF HookInv, KInv, RowsOnce, Recorded
      <3>3. Attempts(r.job) \in Nat /\ Attempts(co[c].job) \in Nat
        BY <1>1, JobTypes DEF HookInv, Typed, RowStates
      <3>4. QED
        BY <1>2, <3>2, <3>3
    <2>2. QED
      BY <1>4, <2>1 DEF Earlier
  <1>10. KInv'
    <2>1. ~Holds(co'[c]) /\ co'[c].pc # "push"
      BY <1>5, <1>6 DEF Holds, HandSteps
    <2>2. QED
      BY <1>1, <1>3, <1>4, <1>6, <1>7, <1>9, <2>1, EnqueueKeys DEF HookInv
  <1>11. Survivors'
    BY <1>5, <1>6, <1>7, CalmSurvivors DEF HookInv, Calm
  <1>12. QED
    BY <1>8, <1>10, <1>11 DEF HookInv

LEMMA DeliveryInv ==
  ASSUME HookInv, NEW c \in Coros, Delivery(c)
  PROVE  HookInv'
  <1>1. co[c] \in CoroStates /\ CallShape(c, co[c]) /\ raced \subseteq Endpoints
    BY DEF HookInv, Typed
  <1>2. CASE ReadEndpoint(c)
    <2>1. /\ Holds(co[c]) /\ co[c].pc = "lookup"
          /\ UNCHANGED <<backend, state, rows, queue, used, raced>>
      BY <1>2 DEF ReadEndpoint, At, Holds, HandSteps, endpoint
    <2>2. CASE Enter(c, "post") /\ UNCHANGED <<fates, due>>
      <3>. DEFINE q == [co[c] EXCEPT !.pc = "post"]
      <3>1. Turn(c, q)
        BY <2>2 DEF Enter, Turn
      <3>2. /\ q \in CoroStates /\ q.pc = "post" /\ q.job = co[c].job
            /\ q.seen = co[c].seen /\ q.requeued = co[c].requeued
        BY <1>1 DEF CoroStates, HandSteps
      <3>. HIDE DEF q
      <3>3. CallShape(c, q)
        BY <1>1, <2>1, <3>2 DEF CallShape, HandSteps, DeleteSteps
      <3>4. Lets(co[c], q) /\ Calm(co[c], q)
        BY <2>1, <3>2 DEF Lets, Calm
      <3>5. QED
        BY <2>1, <2>2, <3>1, <3>2, <3>3, <3>4, QuietHookStep
    <2>3. CASE Settle(c, "dropped") /\ NextJob(c)
      <3>1. PICK q \in CoroStates : CallShape(c, q) /\ Turn(c, q) /\ q.pc \in {"pop", "idle"}
        BY <2>1, <2>3, NextTyped DEF HookInv
      <3>2. "dropped" \in Fate
        BY DEF Fate
      <3>3. QED
        BY <1>1, <2>1, <2>3, <3>1, <3>2, SettleInv
    <2>4. QED
      BY <1>2, <2>2, <2>3 DEF ReadEndpoint
  <1>3. CASE Post(c)
    <2>1. PICK ok \in BOOLEAN : co' = [co EXCEPT ![c].pc = "record", ![c].ok = ok]
      BY <1>3 DEF Post
    <2>. DEFINE q == [co[c] EXCEPT !.pc = "record", !.ok = ok]
    <2>2. Turn(c, q)
      BY <2>1 DEF Turn
    <2>3. /\ q \in CoroStates /\ q.pc = "record" /\ q.job = co[c].job
          /\ q.seen = co[c].seen /\ q.requeued = co[c].requeued
      BY <1>1 DEF CoroStates, HandSteps
    <2>. HIDE DEF q
    <2>4. /\ Holds(co[c]) /\ co[c].pc = "post"
          /\ UNCHANGED <<backend, state, rows, queue, due, used, fates, raced>>
      BY <1>3 DEF Post, At, Holds, HandSteps, endpoint, jobs
    <2>5. CallShape(c, q)
      BY <1>1, <2>3, <2>4 DEF CallShape, HandSteps, DeleteSteps
    <2>6. Lets(co[c], q) /\ Calm(co[c], q)
      BY <2>3, <2>4 DEF Lets, Calm
    <2>7. QED
      BY <2>2, <2>3, <2>4, <2>5, <2>6, QuietHookStep
  <1>4. CASE InsertRow(c)
    BY <1>4, SaveRowInv DEF InsertRow, Standing, At, endpoint
  <1>5. CASE Retry(c)
    BY <1>5, RetryInv
  <1>6. CASE MemoryRecord(c)
    <2>1. CASE Live(Target(c))
      BY <1>6, <2>1, SaveRowInv DEF MemoryRecord, Standing, At, endpoint
    <2>2. CASE DropJob(c)
      <3>1. /\ Turn(c, NoCall) /\ Settle(c, "dropped") /\ "dropped" \in Fate /\ Holds(co[c])
            /\ UNCHANGED <<backend, state, queue, used, raced, rows>>
        BY <1>6, <2>2 DEF MemoryRecord, At, Holds, HandSteps, DropJob, Return, Turn, Fate, endpoint
      <3>2. QED
        BY <1>1, <3>1, IdleTyped, IdleStep, SettleInv
    <2>3. QED
      BY <1>6, <2>1, <2>2 DEF MemoryRecord
  <1>7. CASE SqlRecord(c) \/ MongoRecord(c) \/ DynamoRecord(c)
    BY <1>7, CheckInv DEF SqlRecord, MongoRecord, DynamoRecord
  <1>8. QED
    BY <1>2, <1>3, <1>4, <1>5, <1>6, <1>7 DEF Delivery

(* A coroutine dies, and the job in its hands with it. *)
LEMMA HandOf ==
  ASSUME Typed, NEW c \in Coros
  PROVE  /\ ~Holds(co[c]) => InHand(c) = {}
         /\ Holds(co[c]) => InHand(c) = {co[c].job} /\ co[c].job \in Jobs
  <1>1. CallShape(c, co[c]) /\ co[c] \in CoroStates
    BY DEF Typed
  <1>2. Holds(co[c]) => co[c].job \in Jobs /\ co[c].job # NoJob
    BY <1>1, JobTypes DEF CallShape, Holds
  <1>3. Holds(co[c]) => InHand(c) = {co[c].job}
    BY <1>1, <1>2 DEF Holds, HandSteps, InHand, CallShape
  <1>4. ~Holds(co[c]) => InHand(c) = {}
    BY <1>1, CorosAssumption DEF Holds, HandSteps, InHand, CallShape, CoroStates, DeleteSteps
  <1>5. QED
    BY <1>2, <1>3, <1>4

LEMMA DiesInv ==
  ASSUME HookInv, NEW c \in Coros, Dies(c)
  PROVE  HookInv'
  <1>1. /\ Turn(c, NoCall) /\ UNCHANGED <<backend, state, rows, queue, used, raced>>
        /\ due' = due \ InHand(c) /\ raced \subseteq Endpoints
        /\ fates' = fates \cup {<<EventOf(j), EndpointOf(j), "lost">> : j \in InHand(c)}
    BY DEF Dies, Return, Turn, endpoint, HookInv, Typed
  <1>2. CASE Holds(co[c])
    <2>1. Settle(c, "lost") /\ "lost" \in Fate
      BY <1>1, <1>2, HandOf DEF Settle, Fate, HookInv
    <2>2. QED
      BY <1>1, <1>2, <2>1, IdleTyped, IdleStep, SettleInv
  <1>3. CASE ~Holds(co[c])
    <2>1. UNCHANGED <<fates, due>>
      BY <1>1, <1>3, HandOf DEF HookInv
    <2>2. QED
      BY <1>1, <2>1, IdleTyped, IdleStep, QuietHookStep
  <1>4. QED
    BY <1>2, <1>3

(* Endpoints are registered and changed, and time passes. *)
LEMMA SettingsInv ==
  ASSUME HookInv, UNCHANGED <<backend, rows, queue, co, used, fates, raced>>,
         state' \in [Endpoints -> {"new", "on", "off", "gone"}], due' \subseteq Jobs,
         \A p \in Endpoints : state'[p] = "gone" => state[p] = "gone"
  PROVE  HookInv'
  <1>1. Typed'
    BY DEF HookInv, Typed
  <1>2. KInv'
    BY DEF HookInv, KInv, Single, Exclusive, Ahead, Unseen, Dispatched, RowsOnce, Places
  <1>3. \A p \in Endpoints : RowsOf(p)' = RowsOf(p)
    BY DEF RowsOf
  <1>4. Survivors'
    BY <1>3 DEF HookInv, Survivors, MarkedRows, MarkedWrites, MarkedDeletes
  <1>5. QED
    BY <1>1, <1>2, <1>4 DEF HookInv

LEMMA NextHookInv == HookInv /\ [HookNext]_hookVars => HookInv'
  <1>. SUFFICES ASSUME HookInv, [HookNext]_hookVars
                PROVE  HookInv'
    OBVIOUS
  <1>1. /\ state \in [Endpoints -> {"new", "on", "off", "gone"}] /\ due \subseteq Jobs
        /\ queue \in Seq(Jobs)
    BY DEF HookInv, Typed
  <1>2. CASE RegisterEndpoint
    BY <1>1, <1>2, SettingsInv DEF RegisterEndpoint, jobs
  <1>3. CASE UpdateEndpoint
    BY <1>1, <1>3, SettingsInv DEF UpdateEndpoint, jobs
  <1>4. CASE TimePasses
    <2>1. Queued \subseteq Jobs
      BY <1>1, QueueTyped DEF Queued, Places
    <2>2. Waiting \subseteq Jobs
      BY <2>1 DEF Waiting, At, Coros, HookInv, Typed, CallShape, HandSteps
    <2>3. QED
      BY <1>1, <1>4, <2>2, SettingsInv DEF TimePasses, endpoint
  <1>5. ASSUME NEW c \in Clients, Request(c) \/ Running(c)
        PROVE  HookInv'
    BY <1>5, RequestInv, PushNextInv, DeleteInv DEF Running
  <1>6. CASE UNCHANGED hookVars
    BY <1>1, <1>6, SettingsInv DEF hookVars
  <1>7. QED
    BY <1>2, <1>3, <1>4, <1>5, <1>6, CycleInv, DeliveryInv, DiesInv DEF HookNext

LEMMA InitHookInv == HookInit => HookInv
  <1>. SUFFICES ASSUME HookInit
                PROVE  HookInv
    OBVIOUS
  <1>1. Places = {} /\ queue \in Seq(Jobs) /\ \A c \in Coros : co[c] = NoCall
    BY DEF HookInit, Places
  <1>2. Typed
    BY <1>1, IdleTyped DEF HookInit, Typed
  <1>3. \A c \in Coros : ~Holds(co[c]) /\ co[c].pc = "idle"
    BY <1>1, IdleStep
  <1>4. KInv
    BY <1>1, <1>3 DEF HookInit, KInv, Single, Exclusive, Ahead, Dispatched, RowsOnce, Recorded
  <1>5. Survivors
    BY <1>3 DEF HookInit, Survivors, MarkedRows, MarkedWrites, MarkedDeletes, Writes, Deletes
  <1>6. QED
    BY <1>2, <1>4, <1>5 DEF HookInv

-----------------------------------------------------------------------------
(* The property *)

LEMMA AtMostOne ==
  ASSUME NEW S, \A x, y \in S : x = y
  PROVE  IsFiniteSet(S) /\ Cardinality(S) \in Nat /\ Cardinality(S) <= 1
         /\ (S = {} => Cardinality(S) = 0)
  <1>1. CASE S = {}
    BY <1>1, FS_EmptySet
  <1>2. CASE S # {}
    <2>1. PICK x \in S : S = {x}
      BY <1>2
    <2>2. IsFiniteSet({x}) /\ Cardinality({x}) = 1
      BY FS_Singleton
    <2>3. IsFiniteSet(S) /\ Cardinality(S) = 1
      BY <2>1, <2>2
    <2>4. QED
      BY <1>2, <2>3
  <1>3. QED
    BY <1>1, <1>2

(* The places in the queue and the hands that have a delivery. *)
InQueue(e, p) == {i \in Places : Is(queue[i], e, p)}
InHands(e, p) == {c \in Coros : Holds(co[c]) /\ Is(co[c].job, e, p)}

LEMMA CopiesOf ==
  ASSUME HookInv, NEW e, NEW p
  PROVE  Copies(e, p) = Cardinality(InQueue(e, p)) + Cardinality(InHands(e, p))
  <1>1. \A i \in Places : queue[i] # NoJob
    BY QueueTyped, JobTypes DEF HookInv, Typed
  <1>2. {i \in 1..Len(queue) : queue[i] # NoJob /\ EventOf(queue[i]) = e /\ EndpointOf(queue[i]) = p}
          = InQueue(e, p)
    BY <1>1 DEF InQueue, Places, Is
  <1>3. \A c \in Coros : /\ InHand(c) # {} <=> Holds(co[c])
                         /\ Holds(co[c]) => co[c].job # NoJob
    BY HandOf, JobTypes DEF HookInv
  <1>4. {c \in Coros : InHand(c) # {} /\ (co[c].job # NoJob /\ EventOf(co[c].job) = e
                                         /\ EndpointOf(co[c].job) = p)}
          = InHands(e, p)
    BY <1>3 DEF InHands, Is
  <1>5. QED
    BY <1>2, <1>4 DEF Copies

LEMMA OneEnd ==
  ASSUME HookInv, NEW e, NEW p
  PROVE  Copies(e, p) + Cardinality(Fates(e, p)) <= 1
  <1>. DEFINE Q == InQueue(e, p)  H == InHands(e, p)  F == Fates(e, p)
  <1>1. /\ \A x, y \in Q : x = y
        /\ \A x, y \in H : x = y
        /\ \A x, y \in F : x = y
    BY DEF InQueue, InHands, Fates, HookInv, KInv, Single, Same, Is
  <1>2. /\ Q = {} \/ H = {}
        /\ Q = {} \/ F = {}
        /\ H = {} \/ F = {}
    BY DEF InQueue, InHands, Fates, HookInv, KInv, Exclusive, Same, Ends, Is
  <1>3. Copies(e, p) = Cardinality(Q) + Cardinality(H)
    BY CopiesOf
  <1>. HIDE DEF Q, H, F
  <1>4. /\ Cardinality(Q) \in Nat /\ Cardinality(Q) <= 1 /\ (Q = {} => Cardinality(Q) = 0)
        /\ Cardinality(H) \in Nat /\ Cardinality(H) <= 1 /\ (H = {} => Cardinality(H) = 0)
        /\ Cardinality(F) \in Nat /\ Cardinality(F) <= 1 /\ (F = {} => Cardinality(F) = 0)
    BY <1>1, AtMostOne
  <1>5. Copies(e, p) + Cardinality(F) <= 1
    BY <1>2, <1>3, <1>4
  <1>6. QED
    BY <1>5 DEF F

LEMMA AnsweredOnce ==
  ASSUME HookInv, NEW r \in rows, r.ok
  PROVE  Copies(EventOf(r.job), EndpointOf(r.job)) = 0
  <1>. DEFINE e == EventOf(r.job)  p == EndpointOf(r.job)
  <1>1. InQueue(e, p) = {}
    BY DEF InQueue, HookInv, KInv, RowsOnce, Earlier, Same, Is
  <1>2. InHands(e, p) = {}
    BY DEF InHands, HookInv, KInv, RowsOnce, Recorded, Same, Is
  <1>3. QED
    BY <1>1, <1>2, CopiesOf, FS_EmptySet

(* Every job is in one place and comes to one end, whatever the coroutines    *)
(* that hold it do, whoever changes or deletes its endpoint meanwhile, and    *)
(* however many of them die: JobsAccounted.                                   *)
THEOREM Accounted == HookSpec => []JobsAccounted
  <1>1. HookInv => JobsAccounted
    <2>. SUFFICES ASSUME HookInv
                  PROVE  JobsAccounted
      OBVIOUS
    <2>1. HookTypeOK
      <3>1. Queued \subseteq Jobs
        BY QueueTyped DEF HookInv, Typed, Queued, Places
      <3>2. QED
        BY <3>1 DEF HookInv, Typed, HookTypeOK, RowStates, CallShape
    <2>2. \A e \in Events, p \in Endpoints : Copies(e, p) + Cardinality(Fates(e, p)) <= 1
      BY OneEnd
    <2>3. \A r \in rows : Attempts(r.job) <= MaxRetries
      BY JobTypes DEF HookInv, Typed, RowStates
    <2>4. \A r, s \in rows : r.job = s.job => r = s
      BY DEF HookInv, KInv, RowsOnce
    <2>5. \A r \in rows : r.ok => Copies(EventOf(r.job), EndpointOf(r.job)) = 0
      BY AnsweredOnce
    <2>6. \A p \in Endpoints : state[p] = "gone" => RowsOf(p) = {} \/ p \in raced
      BY DEF HookInv, Survivors, MarkedRows
    <2>7. QED
      BY <2>1, <2>2, <2>3, <2>4, <2>5, <2>6 DEF JobsAccounted
  <1>2. QED
    BY <1>1, InitHookInv, NextHookInv, PTL DEF HookSpec
===============================================================================
