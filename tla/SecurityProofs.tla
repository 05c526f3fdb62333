---------------------------- MODULE SecurityProofs ----------------------------
(* Theorems about the two parts of utils/security.py that keep state, the     *)
(* password reset and the login limiter, for every value of their constants.  *)
(* They share no variable.                                                    *)
EXTENDS PasswordReset, LoginLimiter, FiniteSetTheorems, TLAPS

-------------------------------------------------------------------------------
(* PasswordReset *)

Drawn(k) == k \in Tokens /\ owner[k] # NoUser

(* What a call in flight owes to the stores: it acts on a user, its token    *)
(* was drawn, it knows no password that is not set yet, and a login that     *)
(* checked a password older than a reset that has ended has been overtaken   *)
(* by the revocation of that reset.                                          *)
Good(q) ==
    /\ q \in TaskStates
    /\ q.pc \in {"put", "open"} => q.u \in Users
    /\ q.pc \in {"mail"} \cup Resetting => Drawn(q.k)
    /\ q.pc \in {"delete", "update", "revoke"} => q.u = owner[q.k]
    /\ q.pc \in {"open", "revoke"} => q.v <= password[q.u]
    /\ q.pc = "open" => q.r <= revoked[q.u]
    /\ q.pc = "open" /\ RevokeAll /\ q.v < settled[q.u] => q.r # revoked[q.u]

IInv == TypeOK /\ StaleOnlyByRace /\ \A t \in Tasks : Good(task[t])

LEMMA IdleType == Idle \in TaskStates /\ Idle.pc = "idle"
  BY DEF Idle, At, TaskStates, Steps

LEMMA IdleGood == Good(Idle)
  BY IdleType DEF Good, Resetting

LEMMA InitIInv == Init => IInv
  <1>. SUFFICES ASSUME Init PROVE IInv
    OBVIOUS
  <1>1. TypeOK
    BY IdleType DEF Init, TypeOK
  <1>2. StaleOnlyByRace
    BY DEF Init, StaleOnlyByRace
  <1>3. \A t \in Tasks : Good(task[t])
    BY IdleGood DEF Init
  <1>4. QED
    BY <1>1, <1>2, <1>3 DEF IInv

(* What no step undoes: an issued token keeps its owner, passwords and        *)
(* revocations only advance, and a reset that ends has revoked.              *)
Advances ==
    /\ \A k \in Tokens : owner[k] # NoUser => owner'[k] = owner[k]
    /\ \A u \in Users :
          /\ password'[u] \in Nat /\ password'[u] >= password[u]
          /\ revoked'[u] \in Nat /\ revoked'[u] >= revoked[u]
          /\ RevokeAll => settled'[u] = settled[u] \/ revoked'[u] > revoked[u]

LEMMA GoodUser ==
  ASSUME TypeOK, NEW q, Good(q), q.pc \in {"put", "open", "delete", "update", "revoke"}
  PROVE  q.u \in Users
  BY DEF Good, TypeOK, Drawn, Resetting

LEMMA GoodAdvances ==
  ASSUME TypeOK, NEW q, Good(q), Advances
  PROVE  Good(q)'
  <1>1. q \in TaskStates /\ (q.pc \in {"put", "open"} => q.u \in Users)
    BY DEF Good
  <1>2. q.pc \in {"mail"} \cup Resetting => Drawn(q.k) /\ Drawn(q.k)'
    BY DEF Good, Drawn, Advances
  <1>3. q.pc \in {"delete", "update", "revoke"} => q.u = owner'[q.k]
    BY <1>2 DEF Good, Advances, Drawn, Resetting
  <1>4. q.pc \in {"open", "revoke"} => q.v <= password'[q.u]
    <2>. SUFFICES ASSUME q.pc \in {"open", "revoke"} PROVE q.v <= password'[q.u]
      OBVIOUS
    <2>1. q.u \in Users /\ q.v <= password[q.u] /\ q.v \in Nat
      BY GoodUser DEF Good, TaskStates
    <2>2. password[q.u] \in Nat /\ password'[q.u] \in Nat /\ password'[q.u] >= password[q.u]
      BY <2>1 DEF Advances, TypeOK
    <2>3. QED
      BY <2>1, <2>2
  <1>5. ASSUME q.pc = "open"
        PROVE  /\ q.r <= revoked'[q.u]
               /\ RevokeAll /\ q.v < settled'[q.u] => q.r # revoked'[q.u]
    <2>1. q.u \in Users /\ q.r \in Nat /\ q.v \in Nat
      BY <1>1, <1>5 DEF TaskStates
    <2>2. /\ q.r <= revoked[q.u]
          /\ RevokeAll /\ q.v < settled[q.u] => q.r # revoked[q.u]
      BY <1>5 DEF Good
    <2>3. /\ revoked[q.u] \in Nat /\ revoked'[q.u] \in Nat /\ revoked'[q.u] >= revoked[q.u]
          /\ RevokeAll => settled'[q.u] = settled[q.u] \/ revoked'[q.u] > revoked[q.u]
      BY <2>1 DEF Advances, TypeOK
    <2>4. q.r <= revoked'[q.u]
      BY <2>1, <2>2, <2>3
    <2>5. ASSUME RevokeAll, q.v < settled'[q.u]
          PROVE  q.r # revoked'[q.u]
      <3>1. CASE settled'[q.u] = settled[q.u]
        <4>1. q.r # revoked[q.u]
          BY <2>2, <2>5, <3>1
        <4>2. QED
          BY <2>1, <2>2, <2>3, <4>1
      <3>2. CASE revoked'[q.u] > revoked[q.u]
        BY <2>1, <2>2, <2>3, <3>2
      <3>3. QED
        BY <2>3, <2>5, <3>1, <3>2
    <2>6. QED
      BY <2>4, <2>5
  <1>6. QED
    BY <1>1, <1>2, <1>3, <1>4, <1>5 DEF Good

(* One call moves to the locals q, and nothing the others rely on goes back. *)
Calls ==
    /\ task \in [Tasks -> TaskStates]
    /\ \A t \in Tasks : Good(task[t])

LEMMA Moves ==
  ASSUME IInv, Advances, NEW t \in Tasks, NEW q, Good(q)',
         task' = [task EXCEPT ![t] = q]
  PROVE  Calls'
  <1>1. task'[t] = q /\ \A s \in Tasks \ {t} : task'[s] = task[s]
    BY DEF IInv, TypeOK
  <1>2. q \in TaskStates
    BY DEF Good
  <1>3. ASSUME NEW s \in Tasks \ {t} PROVE Good(task[s])'
    <2>1. PICK p : p = task[s]
      OBVIOUS
    <2>2. Good(p)'
      BY <2>1, GoodAdvances DEF IInv
    <2>3. task'[s] = p
      BY <1>1, <2>1
    <2>4. QED
      BY <2>2, <2>3
  <1>4. Good(task[t])'
    <2>1. task'[t] = q
      BY <1>1
    <2>2. QED
      BY <2>1
  <1>5. task' \in [Tasks -> TaskStates]
    BY <1>2 DEF IInv, TypeOK
  <1>6. QED
    BY <1>3, <1>4, <1>5 DEF Calls

LEMMA FinishMoves ==
  ASSUME IInv, Advances, NEW t \in Tasks, Finish(t)
  PROVE  Calls'
  <1>1. Good(Idle)'
    BY IdleType DEF Good, Resetting
  <1>2. QED
    BY <1>1, Moves DEF Finish, Become

(* The part of TypeOK that speaks of the stores. *)
Stores ==
    /\ owner \in [Tokens -> Users \cup {NoUser}]
    /\ password \in [Users -> Nat] /\ sessions \subseteq SessionRows
    /\ revoked \in [Users -> Nat] /\ settled \in [Users -> Nat]
    /\ resets \in [Tokens -> Nat] /\ lost \in Nat /\ failed \in Nat
    /\ \A k \in live \cup sent : Drawn(k)
    /\ \A u \in Users : settled[u] <= password[u]
    /\ \A s \in sessions : s.v <= password[s.u]

LEMMA Parts == IInv <=> Stores /\ StaleOnlyByRace /\ Calls
  <1>1. IInv => Stores /\ StaleOnlyByRace /\ Calls
    BY DEF IInv, Stores, Calls, TypeOK, Drawn
  <1>2. Stores /\ StaleOnlyByRace /\ Calls => IInv
    BY DEF IInv, Stores, Calls, TypeOK, Drawn, Good
  <1>3. QED
    BY <1>1, <1>2

LEMMA PartsAfter ==
  ASSUME Stores', StaleOnlyByRace', Calls'
  PROVE  IInv'
  BY DEF IInv, Stores, Calls, TypeOK, Drawn, Good

LEMMA Nothing ==
  ASSUME IInv, UNCHANGED <<owner, password, revoked, settled>>
  PROVE  Advances
  BY DEF Advances, IInv, TypeOK

(* The requests and the reads change nothing but the call itself. *)
LEMMA ReadIInv ==
  ASSUME IInv, NEW t \in Tasks,
         \/ \E u \in Users : Request(t, u) \/ Check(t, u)
         \/ \E k \in Tokens : Reset(t, k)
         \/ Get(t)
  PROVE  IInv'
  <1>1. UNCHANGED <<owner, live, sent, password, sessions, revoked, settled, resets, lost, failed>>
    BY DEF Request, Check, Reset, Get
  <1>2. Advances
    BY <1>1, Nothing
  <1>3. Stores' /\ StaleOnlyByRace'
    BY <1>1, Parts DEF Stores, StaleOnlyByRace, Drawn
  <1>4. Calls'
    <2>1. ASSUME NEW q, Good(q), Become(t, q) PROVE Calls'
      <3>1. Good(q)'
        BY <1>2, <2>1, GoodAdvances DEF IInv
      <3>2. QED
        BY <1>2, <2>1, <3>1, Moves DEF Become
    <2>2. ASSUME NEW u \in Users, Request(t, u) PROVE Calls'
      <3>. DEFINE q == At("put", u, NoToken)
      <3>1. Good(q)
        BY DEF Good, At, TaskStates, Steps, Resetting
      <3>2. QED
        BY <2>1, <2>2, <3>1 DEF Request
    <2>3. ASSUME NEW u \in Users, Check(t, u) PROVE Calls'
      <3>. DEFINE q == [pc |-> "open", u |-> u, k |-> NoToken, v |-> password[u], r |-> revoked[u]]
      <3>1. /\ password[u] \in Nat /\ revoked[u] \in Nat /\ settled[u] \in Nat
            /\ settled[u] <= password[u]
        BY DEF IInv, TypeOK
      <3>2. q \in TaskStates
        BY <3>1 DEF TaskStates, Steps
      <3>3. Good(q)
        BY <3>1, <3>2 DEF Good, Resetting
      <3>4. QED
        BY <2>1, <2>3, <3>3 DEF Check
    <2>4. ASSUME NEW k \in Tokens, Reset(t, k) PROVE Calls'
      <3>. DEFINE q == At("get", NoUser, k)
      <3>1. Drawn(k)
        BY <2>4, Parts DEF Reset, Stores
      <3>2. Good(q)
        BY <3>1 DEF Good, At, TaskStates, Steps, Resetting
      <3>3. QED
        BY <2>1, <2>4, <3>2 DEF Reset
    <2>5. CASE Get(t)
      <3>. DEFINE k == task[t].k
                  q == At("delete", owner[k], k)
      <3>1. Drawn(k)
        BY <2>5 DEF Get, IInv, Good, Resetting
      <3>2. owner[k] \in Users
        BY <3>1 DEF Drawn, IInv, TypeOK
      <3>3. q \in TaskStates
        BY <3>1, <3>2 DEF At, TaskStates, Steps, Resetting, Drawn
      <3>4. q.pc = "delete" /\ q.k = k /\ q.u = owner[k]
        BY DEF At
      <3>5. Good(q)
        BY <3>1, <3>3, <3>4 DEF Good, Resetting
      <3>6. CASE task[t].k \in live
        BY <2>1, <2>5, <3>5, <3>6 DEF Get
      <3>7. CASE task[t].k \notin live
        BY <1>2, <2>5, <3>7, FinishMoves DEF Get
      <3>8. QED
        BY <3>6, <3>7
    <2>6. QED
      BY <2>2, <2>3, <2>4, <2>5
  <1>5. QED
    BY <1>3, <1>4, PartsAfter

(* Issuing and consuming a token leaves accounts and sessions alone.         *)
LEMMA TokenIInv ==
  ASSUME IInv, NEW t \in Tasks,
         Put(t) \/ Mail(t) \/ Delete(t) \/ Fail(t)
  PROVE  IInv'
  <1>1. UNCHANGED <<password, sessions, revoked, settled, resets>>
    BY DEF Put, Mail, Delete, Fail
  <1>2. StaleOnlyByRace'
    BY <1>1 DEF IInv, StaleOnlyByRace
  <1>3. /\ Put(t) => /\ task[t].u \in Users
        /\ Mail(t) => Drawn(task[t].k)
        /\ Delete(t) => Drawn(task[t].k)
    BY DEF Put, Mail, Delete, IInv, Good, Resetting
  <1>4. CASE Put(t)
    <2>1. PICK k \in Fresh : /\ owner' = [owner EXCEPT ![k] = task[t].u]
                             /\ live' = live \cup {k}
                             /\ Become(t, At("mail", NoUser, k))
      BY <1>4 DEF Put
    <2>2. k \in Tokens /\ owner[k] = NoUser
      BY DEF Fresh
    <2>3. /\ owner' \in [Tokens -> Users \cup {NoUser}] /\ owner'[k] # NoUser
          /\ \A j \in Tokens : owner[j] # NoUser => owner'[j] = owner[j]
      BY <1>3, <1>4, <2>1, <2>2, UsersAssumption DEF IInv, TypeOK
    <2>4. Advances
      BY <1>1, <2>3 DEF Advances, IInv, TypeOK
    <2>5. Stores'
      BY <1>1, <1>4, <2>1, <2>2, <2>3 DEF Put, Stores, Drawn, IInv, TypeOK
    <2>6. Good(At("mail", NoUser, k))'
      BY <2>2, <2>3 DEF Good, At, TaskStates, Steps, Resetting, Drawn
    <2>7. Calls'
      BY <2>1, <2>4, <2>6, Moves DEF Become
    <2>8. QED
      BY <1>2, <2>5, <2>7, PartsAfter
  <1>5. CASE ~Put(t)
    <2>1. UNCHANGED owner
      BY <1>5 DEF Mail, Delete, Fail
    <2>2. Advances
      BY <1>1, <2>1, Nothing
    <2>3. Stores'
      BY <1>1, <1>3, <1>5, <2>1 DEF Mail, Delete, Fail, Stores, Drawn, IInv, TypeOK
    <2>4. CASE Mail(t) \/ Fail(t)
      BY <1>2, <2>2, <2>3, <2>4, FinishMoves, PartsAfter DEF Mail, Fail
    <2>5. CASE Delete(t)
      <3>1. PICK q : q = [task[t] EXCEPT !.pc = "update"]
        OBVIOUS
      <3>2. Good(q)
        BY <1>3, <2>5, <3>1 DEF Delete, IInv, Good, TaskStates, Steps, Resetting
      <3>3. Good(q)'
        BY <2>2, <3>2, GoodAdvances DEF IInv
      <3>4. task' = [task EXCEPT ![t] = q]
        BY <2>5, <3>1 DEF Delete, Goto, Become
      <3>5. QED
        BY <1>2, <2>2, <2>3, <3>3, <3>4, Moves, PartsAfter
    <2>6. QED
      BY <1>5, <2>4, <2>5
  <1>6. QED
    BY <1>4, <1>5

LEMMA LargerNat ==
  ASSUME NEW m \in Nat, NEW n \in Nat
  PROVE  Larger(m, n) \in {m, n} /\ Larger(m, n) >= m /\ Larger(m, n) >= n
  BY DEF Larger

LEMMA UpdateIInv ==
  ASSUME IInv, NEW t \in Tasks, Update(t)
  PROVE  IInv'
  <1>. DEFINE u == task[t].u
              p == password[u] + 1
  <1>1. Drawn(task[t].k) /\ u = owner[task[t].k] /\ u \in Users
    BY GoodUser DEF Update, IInv, Good, Resetting
  <1>2. p \in Nat /\ p >= password[u] /\ settled[u] \in Nat /\ settled[u] <= p
    BY <1>1 DEF IInv, TypeOK
  <1>3. /\ password' \in [Users -> Nat] /\ password'[u] = p
        /\ \A w \in Users : password'[w] >= password[w]
    BY <1>1, <1>2 DEF Update, IInv, TypeOK
  <1>4. /\ settled' \in [Users -> Nat] /\ \A w \in Users : settled'[w] <= password'[w]
        /\ RevokeAll => settled' = settled
    <2>1. CASE RevokeAll
      <3>1. settled' = settled
        BY <2>1, <1>1 DEF Update, IInv, TypeOK
      <3>2. QED
        BY <1>3, <3>1 DEF IInv, TypeOK
    <2>2. CASE ~RevokeAll
      <3>. DEFINE m == Larger(settled[u], p)
      <3>1. settled' = [settled EXCEPT ![u] = m]
        BY <2>2 DEF Update
      <3>2. m \in Nat /\ m <= p
        BY <1>2, LargerNat
      <3>3. QED
        BY <1>1, <1>3, <2>2, <3>1, <3>2 DEF IInv, TypeOK
    <2>3. QED
      BY <2>1, <2>2
  <1>5. Advances
    BY <1>3, <1>4 DEF Update, Advances, IInv, TypeOK
  <1>6. StaleOnlyByRace'
    BY <1>4 DEF Update, StaleOnlyByRace, IInv
  <1>7. Stores'
    <2>1. resets' \in [Tokens -> Nat]
      BY <1>1 DEF Update, Drawn, IInv, TypeOK
    <2>2. \A s \in sessions' : s.v <= password'[s.u]
      BY <1>3 DEF Update, SessionRows, IInv, TypeOK
    <2>3. QED
      BY <1>3, <1>4, <2>1, <2>2, Parts DEF Update, Stores, Drawn
  <1>8. Calls'
    <2>1. PICK q : q = [pc |-> "revoke", u |-> u, k |-> task[t].k, v |-> p, r |-> 0]
      OBVIOUS
    <2>2. Good(q)'
      <3>1. q \in TaskStates
        BY <1>1, <1>2, <2>1 DEF TaskStates, Steps, Resetting, Drawn
      <3>2. owner' = owner /\ q.pc = "revoke" /\ q.u = u /\ q.k = task[t].k /\ q.v = p
        BY <2>1 DEF Update
      <3>3. Drawn(q.k)'
        BY <1>1, <3>2 DEF Drawn
      <3>4. q.u = owner'[q.k] /\ q.v <= password'[q.u]
        BY <1>1, <1>2, <1>3, <3>2
      <3>5. QED
        BY <3>1, <3>2, <3>3, <3>4 DEF Good, Resetting
    <2>3. CASE Become(t, q)
      BY <1>5, <2>2, <2>3, Moves DEF Become
    <2>4. CASE Finish(t)
      BY <1>5, <2>4, FinishMoves
    <2>5. QED
      BY <2>1, <2>3, <2>4 DEF Update
  <1>9. QED
    BY <1>6, <1>7, <1>8, PartsAfter

LEMMA RevokeIInv ==
  ASSUME IInv, NEW t \in Tasks, Revoke(t)
  PROVE  IInv'
  <1>. DEFINE u == task[t].u
              m == Larger(settled[u], task[t].v)
  <1>1. u \in Users /\ task[t].v \in Nat /\ task[t].v <= password[u]
    BY GoodUser DEF Revoke, IInv, Good, TaskStates
  <1>2. m \in Nat /\ m <= password[u]
    BY <1>1, LargerNat DEF IInv, TypeOK
  <1>3. /\ settled' = [settled EXCEPT ![u] = m]
        /\ revoked' = [revoked EXCEPT ![u] = @ + 1]
        /\ sessions' = {s \in sessions : s.u # u}
    BY DEF Revoke
  <1>4. /\ settled' \in [Users -> Nat] /\ revoked' \in [Users -> Nat]
        /\ \A w \in Users : settled'[w] <= password[w]
    BY <1>1, <1>2, <1>3 DEF IInv, TypeOK
  <1>5. Advances
    <2>1. ASSUME NEW w \in Users
          PROVE  /\ revoked'[w] >= revoked[w]
                 /\ settled'[w] = settled[w] \/ revoked'[w] > revoked[w]
      BY <1>1, <1>3 DEF IInv, TypeOK
    <2>2. QED
      BY <1>4, <2>1 DEF Revoke, Advances, IInv, TypeOK
  <1>6. StaleOnlyByRace'
    <2>1. ASSUME NEW s \in sessions' PROVE settled'[s.u] = settled[s.u] /\ s \in sessions
      BY <1>1, <1>3 DEF SessionRows, IInv, TypeOK
    <2>2. QED
      BY <2>1 DEF StaleOnlyByRace, IInv
  <1>7. Stores'
    BY <1>3, <1>4, Parts DEF Revoke, Stores, Drawn
  <1>8. QED
    BY <1>5, <1>6, <1>7, FinishMoves, PartsAfter DEF Revoke

LEMMA OpenIInv ==
  ASSUME IInv, NEW t \in Tasks, Open(t)
  PROVE  IInv'
  <1>. DEFINE u == task[t].u
              raced == revoked[u] # task[t].r
              s0 == [u |-> u, v |-> task[t].v, raced |-> raced]
  <1>1. UNCHANGED <<owner, live, sent, password, revoked, settled, resets, lost, failed>>
    BY DEF Open
  <1>2. u \in Users /\ task[t].v \in Nat /\ task[t].v <= password[u]
    BY DEF Open, IInv, Good, TaskStates
  <1>3. RevokeAll /\ task[t].v < settled[u] => raced
    BY DEF Open, IInv, Good
  <1>4. sessions' = sessions \cup {s0} /\ s0 \in SessionRows
    BY <1>2 DEF Open, SessionRows
  <1>5. s0.u = u /\ s0.v = task[t].v /\ s0.raced = raced
    OBVIOUS
  <1>6. StaleOnlyByRace'
    BY <1>1, <1>3, <1>4, <1>5 DEF StaleOnlyByRace, IInv
  <1>7. Stores'
    BY <1>1, <1>2, <1>4, <1>5, Parts DEF Stores, Drawn
  <1>8. QED
    BY <1>1, <1>6, <1>7, Nothing, FinishMoves, PartsAfter DEF Open

LEMMA NextIInv == IInv /\ [Next]_vars => IInv'
  <1>. SUFFICES ASSUME IInv, [Next]_vars PROVE IInv'
    OBVIOUS
  <1>1. CASE UNCHANGED vars
    BY <1>1 DEF vars, IInv, TypeOK, StaleOnlyByRace, Good, Drawn
  <1>2. ASSUME NEW t \in Tasks, Call(t) \/ Step(t)
        PROVE  IInv'
    BY <1>2, ReadIInv, TokenIInv, UpdateIInv, RevokeIInv, OpenIInv DEF Call, Step
  <1>3. ASSUME NEW k \in Tokens, LoseToken(k)
        PROVE  IInv'
    BY <1>3 DEF LoseToken, IInv, TypeOK, StaleOnlyByRace, Good, Drawn
  <1>4. ASSUME NEW t \in Tasks, Fail(t)
        PROVE  IInv'
    BY <1>4, TokenIInv
  <1>5. QED
    BY <1>1, <1>2, <1>3, <1>4 DEF Next, Environment

LEMMA Invariance == Spec => []IInv
  BY InitIInv, NextIInv, PTL DEF Spec

-----------------------------------------------------------------------------
(* A spent token *)

(* A step of t that neither draws k nor makes t hold it. *)
LEMMA KeepsSpent ==
  ASSUME IInv, NEW k \in Tokens, Spent(k), NEW t \in Tasks, NEW q,
         task' = [task EXCEPT ![t] = q],
         ~(q.k = k /\ q.pc \in {"delete", "update"}),
         owner'[k] = owner[k], k \notin live'
  PROVE  Spent(k)'
  <1>1. task'[t] = q /\ \A r \in Tasks \ {t} : task'[r] = task[r]
    BY DEF IInv, TypeOK
  <1>2. QED
    BY <1>1 DEF Spent, Holding

LEMMA KeepsSpentIdle ==
  ASSUME IInv, NEW k \in Tokens, Spent(k), NEW t \in Tasks, Finish(t),
         owner'[k] = owner[k], k \notin live'
  PROVE  Spent(k)'
  BY IdleType, KeepsSpent DEF Finish, Become

LEMMA SpentStep ==
  ASSUME IInv, NEW k \in Tokens, Spent(k), NEW t \in Tasks, Call(t) \/ Step(t)
  PROVE  Spent(k)' /\ resets'[k] = resets[k]
  <1>1. CASE Put(t)
    <2>1. PICK j \in Fresh : /\ owner' = [owner EXCEPT ![j] = task[t].u]
                             /\ live' = live \cup {j}
                             /\ Become(t, At("mail", NoUser, j))
      BY <1>1 DEF Put
    <2>2. j \in Tokens /\ owner[j] = NoUser
      BY DEF Fresh
    <2>3. owner'[k] = owner[k] /\ k \notin live'
      BY <2>1, <2>2 DEF Spent, IInv, TypeOK
    <2>4. At("mail", NoUser, j).pc = "mail"
      BY DEF At
    <2>5. QED
      BY <1>1, <2>1, <2>3, <2>4, KeepsSpent DEF Put, Become
  <1>2. CASE ~Put(t)
    <2>1. owner' = owner /\ k \notin live'
      BY <1>2 DEF Call, Step, Request, Mail, Reset, Get, Delete, Update, Revoke, Check, Open, Spent
    <2>2. resets'[k] = resets[k]
      <3>1. CASE Update(t)
        BY <3>1 DEF Update, Spent, Holding, IInv, TypeOK
      <3>2. CASE ~Update(t)
        BY <1>2, <3>2 DEF Call, Step, Request, Mail, Reset, Get, Delete, Revoke, Check, Open
      <3>3. QED
        BY <3>1, <3>2
    <2>3. CASE Finish(t)
      BY <2>1, <2>2, <2>3, KeepsSpentIdle
    <2>4. ASSUME NEW q, Become(t, q), ~(q.k = k /\ q.pc \in {"delete", "update"})
          PROVE  Spent(k)' /\ resets'[k] = resets[k]
      BY <2>1, <2>2, <2>4, KeepsSpent DEF Become
    <2>5. ASSUME NEW u \in Users, Request(t, u) \/ Check(t, u)
          PROVE  Spent(k)' /\ resets'[k] = resets[k]
      <3>1. /\ At("put", u, NoToken).pc = "put"
            /\ [pc |-> "open", u |-> u, k |-> NoToken, v |-> password[u], r |-> revoked[u]].pc = "open"
        BY DEF At
      <3>2. QED
        BY <2>4, <2>5, <3>1 DEF Request, Check
    <2>6. ASSUME NEW j \in Tokens, Reset(t, j)
          PROVE  Spent(k)' /\ resets'[k] = resets[k]
      <3>1. At("get", NoUser, j).pc = "get"
        BY DEF At
      <3>2. QED
        BY <2>4, <2>6, <3>1 DEF Reset
    <2>7. CASE Get(t)
      <3>1. CASE task[t].k \in live
        <4>1. task[t].k # k /\ At("delete", owner[task[t].k], task[t].k).k = task[t].k
          BY <3>1 DEF Spent, At
        <4>2. QED
          BY <2>4, <2>7, <3>1, <4>1 DEF Get
      <3>2. CASE task[t].k \notin live
        BY <2>3, <2>7, <3>2 DEF Get
      <3>3. QED
        BY <3>1, <3>2
    <2>8. CASE Delete(t)
      <3>1. PICK q : q = [task[t] EXCEPT !.pc = "update"]
        OBVIOUS
      <3>2. q.k = task[t].k
        BY <3>1 DEF IInv, TypeOK, TaskStates
      <3>3. task[t].k # k
        BY <2>8 DEF Delete, Spent, Holding
      <3>4. QED
        BY <2>4, <2>8, <3>1, <3>2, <3>3 DEF Delete, Goto
    <2>9. CASE Update(t)
      <3>1. PICK q : q = [pc |-> "revoke", u |-> task[t].u, k |-> task[t].k,
                          v |-> password[task[t].u] + 1, r |-> 0]
        OBVIOUS
      <3>2. q.pc = "revoke"
        BY <3>1
      <3>3. QED
        BY <2>3, <2>4, <2>9, <3>1, <3>2 DEF Update
    <2>10. QED
      BY <1>2, <2>3, <2>5, <2>6, <2>7, <2>8, <2>9 DEF Call, Step, Mail, Revoke, Open
  <1>3. QED
    BY <1>1, <1>2

-----------------------------------------------------------------------------
(* Theorems *)

(* Stores and locals stay well typed, and every reset acts on the account    *)
(* its token was issued for.                                                 *)
THEOREM TypeCorrect == Spec => []TypeOK
  <1>1. IInv => TypeOK
    BY DEF IInv
  <1>2. QED
    BY <1>1, Invariance, PTL

(* reset_password "also revokes all of the user's sessions": a session with  *)
(* a password older than a completed reset comes from a login that checked   *)
(* it before the revocation and was stored after it.                         *)
THEOREM OnlyByRace == Spec => []StaleOnlyByRace
  <1>1. IInv => StaleOnlyByRace
    BY DEF IInv
  <1>2. QED
    BY <1>1, Invariance, PTL

(* consume_reset_token: a token consumed or expired, with no reset by it     *)
(* under way, never sets a password again.                                   *)
THEOREM NeverAgain == Spec => SpentStaysSpent
  <1>1. ASSUME IInv, [Next]_vars
        PROVE  [\A k \in Tokens : Spent(k) => Spent(k)' /\ resets'[k] = resets[k]]_vars
    <2>. SUFFICES ASSUME NEW k \in Tokens, Spent(k), Next
                  PROVE  Spent(k)' /\ resets'[k] = resets[k]
      BY <1>1
    <2>1. ASSUME NEW t \in Tasks, Call(t) \/ Step(t)
          PROVE  Spent(k)' /\ resets'[k] = resets[k]
      BY <1>1, <2>1, SpentStep
    <2>2. ASSUME NEW j \in Tokens, LoseToken(j)
          PROVE  Spent(k)' /\ resets'[k] = resets[k]
      BY <2>2 DEF LoseToken, Spent, Holding
    <2>3. ASSUME NEW t \in Tasks, Fail(t)
          PROVE  Spent(k)' /\ resets'[k] = resets[k]
      BY <1>1, <2>3, KeepsSpentIdle DEF Fail, Spent
    <2>4. QED
      BY <2>1, <2>2, <2>3 DEF Next, Environment
  <1>2. QED
    BY <1>1, Invariance, PTL DEF Spec, SpentStaysSpent

-------------------------------------------------------------------------------
(* LoginLimiter *)

(* A call that is going to lock the account and delete the counter. *)
Locking(t) == \/ login[t].pc \in {"check_ttl", "expire"} /\ login[t].n >= MaxAttempts
              \/ login[t].pc \in {"lock", "drop"}

(* A call that is going to look whether the counter has a TTL. *)
Arming(t) == login[t].pc \in {"check_ttl", "expire"}

(* A counter at the maximum, or without a TTL, is in the hands of a call     *)
(* that is going to put it right, unless a call was aborted.                 *)
Guarded ==
    /\ aborted = 0 /\ count >= MaxAttempts => \E t \in Logins : Locking(t)
    /\ aborted = 0 /\ count > 0 /\ ttl = 0 => \E t \in Logins : Arming(t)

LimiterIInv == LimiterTypeOK /\ Guarded

-----------------------------------------------------------------------------
(* Types *)

LEMMA Constants ==
  /\ MaxAttempts \in Nat /\ MaxAttempts > 0 /\ Window \in Nat /\ Window > 0
  /\ Lockout \in Nat /\ Lockout > 0
  BY LimiterAssumption

LEMMA InitLimiterIInv == LimiterInit => LimiterIInv
  <1>. SUFFICES ASSUME LimiterInit PROVE LimiterIInv
    OBVIOUS
  <1>1. LimiterTypeOK
    <2>1. NoLogin \in LoginStates
      BY DEF NoLogin, LoginStates, LoginSteps
    <2>2. 0 \in 0..Window /\ 0 \in 0..Lockout
      BY Constants
    <2>3. QED
      BY <2>1, <2>2 DEF LimiterInit, LimiterTypeOK
  <1>2. Guarded
    BY Constants DEF LimiterInit, Guarded
  <1>3. QED
    BY <1>1, <1>2 DEF LimiterIInv

(* Where a call is after a step of it, or of another one. *)
LEMMA LoginMoves ==
  ASSUME LimiterTypeOK, NEW t \in Logins, NEW step \in LoginSteps, NEW n \in Nat, MoveTo(t, step, n)
  PROVE  /\ login' \in [Logins -> LoginStates]
         /\ login'[t] = [pc |-> step, n |-> n]
         /\ \A r \in Logins \ {t} : login'[r] = login[r]
  <1>1. [pc |-> step, n |-> n] \in LoginStates
    BY DEF LoginStates
  <1>2. QED
    BY <1>1 DEF MoveTo, LimiterTypeOK

LEMMA EndMoves ==
  ASSUME LimiterTypeOK, NEW t \in Logins, EndLogin(t)
  PROVE  /\ login' \in [Logins -> LoginStates]
         /\ login'[t] = NoLogin
         /\ \A r \in Logins \ {t} : login'[r] = login[r]
  <1>1. NoLogin \in LoginStates
    BY DEF NoLogin, LoginStates, LoginSteps
  <1>2. QED
    BY <1>1 DEF EndLogin, LimiterTypeOK

LEMMA GotoMoves ==
  ASSUME LimiterTypeOK, NEW t \in Logins, NEW step \in LoginSteps, Proceed(t, step)
  PROVE  /\ login' \in [Logins -> LoginStates]
         /\ login'[t] = [pc |-> step, n |-> 0]
         /\ \A r \in Logins \ {t} : login'[r] = login[r]
  BY LoginMoves DEF Proceed

LEMMA StepNames ==
  {"get", "ttl", "rearm", "verify", "incr", "check_ttl", "expire", "lock", "drop",
   "clear", "unlock"} \subseteq LoginSteps
  BY DEF LoginSteps, Enforcing, Recording, Clearing

LEMMA RearmedType == LimiterTypeOK => /\ Rearmed \in 0..Window
                                      /\ count > 0 => Rearmed > 0
                                      /\ count = 0 => Rearmed = 0
  BY Constants DEF LimiterTypeOK, Rearmed

LEMMA EnforceTyped ==
  ASSUME LimiterTypeOK, NEW t \in Logins,
         Enforce(t) \/ ReadCount(t) \/ ReadTtl(t) \/ Rearm(t)
  PROVE  LimiterTypeOK'
  <1>1. CASE Enforce(t)
    BY <1>1, StepNames, GotoMoves DEF Enforce, LimiterTypeOK
  <1>2. CASE ReadCount(t)
    <2>1. PICK s \in {"ttl", "verify"} : Proceed(t, s)
      BY <1>2 DEF ReadCount
    <2>2. QED
      BY <1>2, <2>1, StepNames, GotoMoves DEF ReadCount, LimiterTypeOK
  <1>3. CASE ReadTtl(t)
    BY <1>3, StepNames, GotoMoves, EndMoves DEF ReadTtl, LimiterTypeOK
  <1>4. CASE Rearm(t)
    BY <1>4, EndMoves, RearmedType DEF Rearm, LimiterTypeOK
  <1>5. QED
    BY <1>1, <1>2, <1>3, <1>4

LEMMA GuessTyped ==
  ASSUME LimiterTypeOK, NEW t \in Logins,
         Guess(t) \/ NoCode(t) \/ Succeed(t) \/ ClearCount(t) \/ ClearLock(t)
  PROVE  LimiterTypeOK'
  <1>1. CASE Guess(t)
    <2>1. wrong' \in Nat
      BY <1>1 DEF Guess, LimiterTypeOK
    <2>2. login' \in [Logins -> LoginStates]
      BY <1>1, StepNames, GotoMoves DEF Guess
    <2>3. QED
      BY <1>1, <2>1, <2>2 DEF Guess, LimiterTypeOK
  <1>2. CASE NoCode(t)
    BY <1>2, EndMoves DEF NoCode, LimiterTypeOK
  <1>3. CASE Succeed(t)
    BY <1>3, StepNames, GotoMoves DEF Succeed, LimiterTypeOK
  <1>4. CASE ClearCount(t)
    <2>1. login' \in [Logins -> LoginStates]
      BY <1>4, StepNames, GotoMoves DEF ClearCount
    <2>2. QED
      BY <1>4, <2>1, Constants DEF ClearCount, LimiterTypeOK
  <1>5. CASE ClearLock(t)
    BY <1>5, EndMoves, Constants DEF ClearLock, LimiterTypeOK
  <1>6. QED
    BY <1>1, <1>2, <1>3, <1>4, <1>5

LEMMA RecordTyped ==
  ASSUME LimiterTypeOK, NEW t \in Logins,
         Incr(t) \/ CheckTtl(t) \/ Expire(t) \/ SetLock(t) \/ DropCount(t)
  PROVE  LimiterTypeOK'
  <1>1. CASE Incr(t)
    <2>1. PICK s \in {"expire", "check_ttl"} : MoveTo(t, s, count + 1)
      BY <1>1 DEF Incr
    <2>2. count + 1 \in Nat /\ count + 1 # 0
      BY DEF LimiterTypeOK
    <2>3. QED
      BY <1>1, <2>1, <2>2, StepNames, LoginMoves DEF Incr, LimiterTypeOK
  <1>2. LockIfReached(t) => login' \in [Logins -> LoginStates]
    BY StepNames, GotoMoves, EndMoves DEF LockIfReached
  <1>3. CASE CheckTtl(t)
    <2>1. login[t].n \in Nat
      BY DEF LimiterTypeOK, LoginStates
    <2>2. login' \in [Logins -> LoginStates]
      BY <1>2, <1>3, <2>1, StepNames, LoginMoves DEF CheckTtl
    <2>3. QED
      BY <1>3, <2>2 DEF CheckTtl, LimiterTypeOK
  <1>4. CASE Expire(t)
    BY <1>2, <1>4, RearmedType DEF Expire, LimiterTypeOK
  <1>5. CASE SetLock(t)
    <2>1. login' \in [Logins -> LoginStates]
      BY <1>5, StepNames, GotoMoves DEF SetLock
    <2>2. lock' \in 0..Lockout
      BY <1>5, Constants DEF SetLock
    <2>3. QED
      BY <1>5, <2>1, <2>2 DEF SetLock, LimiterTypeOK
  <1>6. CASE DropCount(t)
    BY <1>6, EndMoves, Constants DEF DropCount, LimiterTypeOK
  <1>7. QED
    BY <1>1, <1>3, <1>4, <1>5, <1>6

LEMMA TypedNext == LimiterTypeOK /\ [LimiterNext]_limiterVars => LimiterTypeOK'
  <1>. SUFFICES ASSUME LimiterTypeOK, [LimiterNext]_limiterVars PROVE LimiterTypeOK'
    OBVIOUS
  <1>1. CASE UNCHANGED limiterVars
    BY <1>1 DEF limiterVars, LimiterTypeOK
  <1>2. CASE Tick
    <2>1. \A n \in Nat : Less(n) \in Nat /\ Less(n) <= n
      BY DEF Less
    <2>2. ttl' \in 0..Window /\ lock' \in 0..Lockout
      BY <1>2, <2>1, Constants DEF Tick, LimiterTypeOK
    <2>3. count' = 0 => ttl' = 0
      BY <1>2 DEF Tick, LimiterTypeOK, Less
    <2>4. QED
      BY <1>2, <2>2, <2>3 DEF Tick, LimiterTypeOK
  <1>3. ASSUME NEW t \in Logins, Enforce(t) \/ LoginStep(t)
        PROVE  LimiterTypeOK'
    BY <1>3, EnforceTyped, GuessTyped, RecordTyped DEF LoginStep
  <1>4. ASSUME NEW t \in Logins, Abort(t)
        PROVE  LimiterTypeOK'
    BY <1>4, EndMoves DEF Abort, LimiterTypeOK
  <1>5. QED
    BY <1>1, <1>2, <1>3, <1>4 DEF LimiterNext

-----------------------------------------------------------------------------
(* The counter is guarded *)

(* A step that leaves the counter and its TTL alone, by a call that stays    *)
(* Locking and Arming as far as the counter needs it.                        *)
LEMMA SameCounter ==
  ASSUME LimiterIInv, NEW t \in Logins, UNCHANGED <<count, ttl, aborted>>,
         \A r \in Logins \ {t} : login'[r] = login[r],
         Locking(t) => Locking(t)',
         count > 0 /\ ttl = 0 /\ Arming(t) => Arming(t)'
  PROVE  Guarded'
  BY DEF LimiterIInv, Guarded, Locking, Arming

(* A step that deletes the counter. *)
LEMMA NoCounter ==
  ASSUME count' = 0
  PROVE  Guarded'
  BY Constants DEF Guarded

LEMMA EnforceGuarded ==
  ASSUME LimiterIInv, NEW t \in Logins,
         \/ Enforce(t) \/ ReadCount(t) \/ ReadTtl(t) \/ Rearm(t)
         \/ Guess(t) \/ NoCode(t) \/ Succeed(t)
  PROVE  Guarded'
  <1>1. login[t].pc \in {"idle", "get", "ttl", "rearm", "verify"}
    BY DEF Enforce, ReadCount, ReadTtl, Rearm, Guess, NoCode, Succeed, NoLogin
  <1>2. ~Locking(t) /\ ~Arming(t)
    BY <1>1 DEF Locking, Arming
  <1>3. \A r \in Logins \ {t} : login'[r] = login[r]
    BY DEF Enforce, ReadCount, ReadTtl, Rearm, Guess, NoCode, Succeed, Proceed, MoveTo, EndLogin,
           LimiterIInv, LimiterTypeOK
  <1>4. CASE Rearm(t)
    <2>1. count' = count /\ aborted' = aborted /\ (count > 0 => ttl' > 0)
      BY <1>4, RearmedType DEF Rearm, LimiterIInv
    <2>2. QED
      BY <1>2, <1>3, <2>1 DEF LimiterIInv, Guarded, Locking, Arming, LimiterTypeOK
  <1>5. CASE ~Rearm(t)
    <2>1. UNCHANGED <<count, ttl, aborted>>
      BY <1>5 DEF Enforce, ReadCount, ReadTtl, Guess, NoCode, Succeed
    <2>2. QED
      BY <1>2, <1>3, <2>1, SameCounter
  <1>6. QED
    BY <1>4, <1>5

LEMMA IncrGuarded ==
  ASSUME LimiterIInv, NEW t \in Logins, Incr(t)
  PROVE  Guarded'
  <1>1. PICK s \in {"expire", "check_ttl"} : MoveTo(t, s, count + 1)
    BY DEF Incr
  <1>2. count \in Nat /\ count' = count + 1
    BY DEF Incr, LimiterIInv, LimiterTypeOK
  <1>3. login'[t] = [pc |-> s, n |-> count + 1]
    BY <1>1, <1>2, StepNames, LoginMoves DEF LimiterIInv
  <1>4. Arming(t)' /\ (count' >= MaxAttempts => Locking(t)')
    BY <1>2, <1>3 DEF Arming, Locking
  <1>5. QED
    BY <1>4 DEF Guarded

LEMMA RecordGuarded ==
  ASSUME LimiterIInv, NEW t \in Logins, CheckTtl(t) \/ Expire(t) \/ SetLock(t)
  PROVE  Guarded'
  <1>1. login[t].n \in Nat
    BY DEF LimiterIInv, LimiterTypeOK, LoginStates
  <1>2. ASSUME LockIfReached(t)
        PROVE  /\ \A r \in Logins \ {t} : login'[r] = login[r]
               /\ login[t].n >= MaxAttempts => login'[t].pc = "lock"
    <2>1. CASE login[t].n >= MaxAttempts
      <3>1. Proceed(t, "lock") /\ "lock" \in LoginSteps
        BY <1>2, <2>1, StepNames DEF LockIfReached
      <3>2. login'[t] = [pc |-> "lock", n |-> 0] /\ \A r \in Logins \ {t} : login'[r] = login[r]
        BY <3>1, GotoMoves DEF LimiterIInv
      <3>3. QED
        BY <3>2
    <2>2. CASE ~(login[t].n >= MaxAttempts)
      BY <1>2, <2>2, EndMoves DEF LockIfReached, LimiterIInv
    <2>3. QED
      BY <2>1, <2>2
  <1>3. CASE CheckTtl(t)
    <2>1. UNCHANGED <<count, ttl, aborted>>
      BY <1>3 DEF CheckTtl
    <2>2. CASE count > 0 /\ ttl = 0
      <3>1. MoveTo(t, "expire", login[t].n)
        BY <1>3, <2>2 DEF CheckTtl
      <3>2. /\ login'[t] = [pc |-> "expire", n |-> login[t].n]
            /\ \A r \in Logins \ {t} : login'[r] = login[r]
        BY <1>1, <3>1, StepNames, LoginMoves DEF LimiterIInv
      <3>3. Arming(t)' /\ (Locking(t) => Locking(t)')
        BY <1>3, <3>2 DEF CheckTtl, Arming, Locking
      <3>4. QED
        BY <2>1, <3>2, <3>3, SameCounter
    <2>3. CASE ~(count > 0 /\ ttl = 0)
      <3>1. LockIfReached(t)
        BY <1>3, <2>3 DEF CheckTtl
      <3>2. Locking(t) => Locking(t)'
        BY <1>2, <1>3, <3>1 DEF CheckTtl, Locking
      <3>3. QED
        BY <1>2, <2>1, <2>3, <3>1, <3>2, SameCounter
    <2>4. QED
      BY <2>2, <2>3
  <1>4. CASE Expire(t)
    <2>1. count' = count /\ aborted' = aborted /\ (count > 0 => ttl' > 0)
      BY <1>4, RearmedType DEF Expire, LimiterIInv
    <2>2. LockIfReached(t)
      BY <1>4 DEF Expire
    <2>3. Locking(t) => Locking(t)'
      BY <1>2, <1>4, <2>2 DEF Expire, Locking
    <2>4. QED
      BY <1>2, <2>1, <2>2, <2>3 DEF LimiterIInv, Guarded, Locking, LimiterTypeOK
  <1>5. CASE SetLock(t)
    <2>1. login'[t] = [pc |-> "drop", n |-> 0] /\ \A r \in Logins \ {t} : login'[r] = login[r]
      BY <1>5, StepNames, GotoMoves DEF SetLock, LimiterIInv
    <2>2. Locking(t)' /\ ~Arming(t) /\ UNCHANGED <<count, ttl, aborted>>
      BY <1>5, <2>1 DEF SetLock, Locking, Arming
    <2>3. QED
      BY <2>1, <2>2, SameCounter
  <1>6. QED
    BY <1>3, <1>4, <1>5

LEMMA NextLimiterIInv == LimiterIInv /\ [LimiterNext]_limiterVars => LimiterIInv'
  <1>. SUFFICES ASSUME LimiterIInv, [LimiterNext]_limiterVars PROVE LimiterIInv'
    OBVIOUS
  <1>1. LimiterTypeOK'
    BY TypedNext DEF LimiterIInv
  <1>2. CASE UNCHANGED limiterVars
    BY <1>2 DEF limiterVars, LimiterIInv, LimiterTypeOK, Guarded, Locking, Arming
  <1>3. CASE Tick
    <2>1. count' = 0 \/ (count' = count /\ ttl # 1)
      BY <1>3 DEF Tick
    <2>2. ttl' = 0 /\ ttl # 1 => ttl = 0
      BY <1>3 DEF Tick, Less, LimiterIInv, LimiterTypeOK
    <2>3. CASE count' = 0
      BY <1>1, <2>3, NoCounter DEF LimiterIInv
    <2>4. CASE count' = count /\ ttl # 1
      <3>1. UNCHANGED <<aborted, login>>
        BY <1>3 DEF Tick
      <3>2. Guarded'
        BY <2>2, <2>4, <3>1 DEF LimiterIInv, Guarded, Locking, Arming
      <3>3. QED
        BY <1>1, <3>2 DEF LimiterIInv
    <2>5. QED
      BY <2>1, <2>3, <2>4
  <1>4. ASSUME NEW t \in Logins, Enforce(t) \/ LoginStep(t)
        PROVE  LimiterIInv'
    <2>1. CASE DropCount(t) \/ ClearCount(t)
      BY <1>1, <2>1, NoCounter DEF DropCount, ClearCount, LimiterIInv
    <2>2. CASE ClearLock(t)
      <3>1. \A r \in Logins \ {t} : login'[r] = login[r]
        BY <2>2, EndMoves DEF ClearLock, LimiterIInv
      <3>2. ~Locking(t) /\ ~Arming(t) /\ UNCHANGED <<count, ttl, aborted>>
        BY <2>2 DEF ClearLock, Locking, Arming
      <3>3. QED
        BY <1>1, <3>1, <3>2, SameCounter DEF LimiterIInv
    <2>3. QED
      BY <1>1, <1>4, <2>1, <2>2, EnforceGuarded, IncrGuarded, RecordGuarded DEF LoginStep, LimiterIInv
  <1>5. ASSUME NEW t \in Logins, Abort(t)
        PROVE  LimiterIInv'
    BY <1>1, <1>5 DEF Abort, LimiterIInv, LimiterTypeOK, Guarded
  <1>6. QED
    BY <1>2, <1>3, <1>4, <1>5 DEF LimiterNext

LEMMA LimiterInvariance == LimiterSpec => []LimiterIInv
  BY InitLimiterIInv, NextLimiterIInv, PTL DEF LimiterSpec

-----------------------------------------------------------------------------
(* Guesses in a window *)

(* Calls whose wrong guess is not counted yet; those and the calls that are  *)
(* going to lock the account; and calls that may still guess.                *)
WillLock(call) == \/ call.pc = "lock"
                  \/ call.pc \in {"check_ttl", "expire"} /\ call.n >= MaxAttempts
Uncounted == {t \in Logins : login[t].pc = "incr"}
Pending == {t \in Logins : login[t].pc = "incr" \/ WillLock(login[t])}
Guessing == {t \in Logins : login[t].pc \in {"get", "verify"}}

(* While the account is open every guess is in the counter, on its way there *)
(* or lost with a call, and those beyond the maximum wait with a call that   *)
(* will lock; once it is locked no call enters, so that the guesses made and *)
(* those to come stay within what the calls in flight allow.                 *)
Accounted ==
    /\ \A t \in Logins : login[t].pc \notin {"clear", "unlock"}
    /\ lock = 0 => /\ \A t \in Logins : login[t].pc # "drop"
                   /\ wrong <= count + Cardinality(Uncounted) + aborted
                   /\ wrong <= MaxAttempts - 1 + Cardinality(Pending) + aborted
    /\ lock > 0 => wrong + Cardinality(Guessing)
                     <= MaxAttempts - 1 + Cardinality(Logins) + aborted

Budget == (opened => wrong = 0) /\ (~opened /\ ~late => Accounted)

(* A set of calls of which at most t's membership changes. *)
LEMMA Recount ==
  ASSUME NEW S \in SUBSET Logins, NEW U \in SUBSET Logins, NEW t \in Logins,
         S \ {t} = U \ {t}
  PROVE  /\ Cardinality(S) \in Nat /\ Cardinality(U) \in Nat
         /\ Cardinality(U) = Cardinality(S) + (IF t \in U THEN 1 ELSE 0)
                                            - (IF t \in S THEN 1 ELSE 0)
  <1>1. IsFiniteSet(S) /\ IsFiniteSet(U)
    BY LoginsAssumption, FS_Subset
  <1>2. Cardinality(S) \in Nat /\ Cardinality(U) \in Nat
    BY <1>1, FS_CardinalityType
  <1>3. /\ Cardinality(S \ {t}) = IF t \in S THEN Cardinality(S) - 1 ELSE Cardinality(S)
        /\ Cardinality(U \ {t}) = IF t \in U THEN Cardinality(U) - 1 ELSE Cardinality(U)
    BY <1>1, FS_RemoveElement
  <1>4. Cardinality(S \ {t}) = Cardinality(U \ {t})
    OBVIOUS
  <1>5. CASE t \in S
    BY <1>2, <1>3, <1>4, <1>5
  <1>6. CASE t \notin S
    BY <1>2, <1>3, <1>4, <1>6
  <1>7. QED
    BY <1>5, <1>6

LEMMA Empty == Cardinality({}) = 0
  BY FS_EmptySet

(* No call is in two of the stages. *)
LEMMA Sizes ==
  /\ Cardinality(Uncounted) \in Nat /\ Cardinality(Pending) \in Nat
  /\ Cardinality(Guessing) \in Nat /\ Cardinality(Logins) \in Nat
  /\ Cardinality(Pending) + Cardinality(Guessing) <= Cardinality(Logins)
  <1>1. IsFiniteSet(Logins) /\ Cardinality(Logins) \in Nat
    BY LoginsAssumption, FS_CardinalityType
  <1>2. {Uncounted, Pending, Guessing} \subseteq SUBSET Logins
    BY DEF Uncounted, Pending, Guessing
  <1>3. IsFiniteSet(Uncounted) /\ IsFiniteSet(Pending) /\ IsFiniteSet(Guessing)
    BY <1>1, <1>2, FS_Subset
  <1>4. /\ Cardinality(Uncounted) \in Nat /\ Cardinality(Pending) \in Nat
        /\ Cardinality(Guessing) \in Nat
    BY <1>3, FS_CardinalityType
  <1>5. Pending \cap Guessing = {} /\ Pending \cup Guessing \in SUBSET Logins
    BY DEF Pending, Guessing, WillLock
  <1>6. Cardinality(Pending \cup Guessing) = Cardinality(Pending) + Cardinality(Guessing)
    <2>1. Cardinality(Pending \cup Guessing)
            = Cardinality(Pending) + Cardinality(Guessing) - Cardinality(Pending \cap Guessing)
      BY <1>3, FS_Union
    <2>2. Cardinality(Pending \cap Guessing) = 0
      BY <1>5, Empty
    <2>3. QED
      BY <1>4, <2>1, <2>2
  <1>7. Cardinality(Pending \cup Guessing) <= Cardinality(Logins)
    BY <1>1, <1>5, FS_Subset
  <1>8. QED
    BY <1>1, <1>4, <1>6, <1>7

(* How the stages grow and shrink when t moves. *)
LEMMA Restaged ==
  ASSUME NEW t \in Logins, \A r \in Logins \ {t} : login'[r] = login[r]
  PROVE  /\ Cardinality(Uncounted)' = Cardinality(Uncounted)
              + (IF login'[t].pc = "incr" THEN 1 ELSE 0) - (IF login[t].pc = "incr" THEN 1 ELSE 0)
         /\ Cardinality(Pending)' = Cardinality(Pending)
              + (IF login'[t].pc = "incr" \/ WillLock(login'[t]) THEN 1 ELSE 0)
              - (IF login[t].pc = "incr" \/ WillLock(login[t]) THEN 1 ELSE 0)
         /\ Cardinality(Guessing)' = Cardinality(Guessing)
              + (IF login'[t].pc \in {"get", "verify"} THEN 1 ELSE 0)
              - (IF login[t].pc \in {"get", "verify"} THEN 1 ELSE 0)
  <1>1. /\ Uncounted' \in SUBSET Logins /\ Uncounted \in SUBSET Logins
        /\ Uncounted \ {t} = Uncounted' \ {t}
        /\ t \in Uncounted' <=> login'[t].pc = "incr"
        /\ t \in Uncounted <=> login[t].pc = "incr"
    BY DEF Uncounted
  <1>2. /\ Pending' \in SUBSET Logins /\ Pending \in SUBSET Logins
        /\ Pending \ {t} = Pending' \ {t}
        /\ t \in Pending' <=> login'[t].pc = "incr" \/ WillLock(login'[t])
        /\ t \in Pending <=> login[t].pc = "incr" \/ WillLock(login[t])
    BY DEF Pending, WillLock
  <1>3. /\ Guessing' \in SUBSET Logins /\ Guessing \in SUBSET Logins
        /\ Guessing \ {t} = Guessing' \ {t}
        /\ t \in Guessing' <=> login'[t].pc \in {"get", "verify"}
        /\ t \in Guessing <=> login[t].pc \in {"get", "verify"}
    BY DEF Guessing
  <1>4. Cardinality(Uncounted') = Cardinality(Uncounted)
              + (IF login'[t].pc = "incr" THEN 1 ELSE 0) - (IF login[t].pc = "incr" THEN 1 ELSE 0)
    BY <1>1, Recount
  <1>5. Cardinality(Pending') = Cardinality(Pending)
              + (IF login'[t].pc = "incr" \/ WillLock(login'[t]) THEN 1 ELSE 0)
              - (IF login[t].pc = "incr" \/ WillLock(login[t]) THEN 1 ELSE 0)
    BY <1>2, Recount
  <1>6. Cardinality(Guessing') = Cardinality(Guessing)
              + (IF login'[t].pc \in {"get", "verify"} THEN 1 ELSE 0)
              - (IF login[t].pc \in {"get", "verify"} THEN 1 ELSE 0)
    BY <1>3, Recount
  <1>7. QED
    BY <1>4, <1>5, <1>6

LEMMA InitBudget == LimiterInit => Budget
  <1>. SUFFICES ASSUME LimiterInit PROVE Budget
    OBVIOUS
  <1>1. \A t \in Logins : login[t].pc = "idle"
    BY DEF LimiterInit, NoLogin
  <1>2. Accounted
    BY <1>1, Sizes, Constants DEF LimiterInit, Accounted
  <1>3. QED
    BY <1>2 DEF LimiterInit, Budget

(* A call that stays within its stages, or leaves Guessing. *)
LEMMA EnforceBudget ==
  ASSUME LimiterIInv, Budget, NEW t \in Logins,
         Enforce(t) \/ ReadCount(t) \/ ReadTtl(t) \/ Rearm(t) \/ NoCode(t)
  PROVE  Budget'
  <1>1. /\ \A r \in Logins \ {t} : login'[r] = login[r]
        /\ login'[t].pc \in {"get", "verify", "idle", "ttl", "rearm"}
        /\ login[t].pc \in {"get", "verify", "idle", "ttl", "rearm"}
        /\ login'[t].pc \in {"get", "verify"} => login[t].pc \in {"get", "verify"} \/ lock = 0
    BY DEF Enforce, ReadCount, ReadTtl, Rearm, NoCode, Proceed, MoveTo, EndLogin, LimiterIInv, LimiterTypeOK, NoLogin
  <1>2. UNCHANGED <<count, lock, wrong, opened, late, aborted>>
    BY DEF Enforce, ReadCount, ReadTtl, Rearm, NoCode
  <1>3. /\ Cardinality(Uncounted)' = Cardinality(Uncounted)
        /\ Cardinality(Pending)' = Cardinality(Pending)
        /\ lock = 0 \/ Cardinality(Guessing)' <= Cardinality(Guessing)
    BY <1>1, Restaged, Sizes DEF WillLock
  <1>4. ASSUME Accounted PROVE Accounted'
    <2>1. \A r \in Logins : login'[r].pc \notin {"clear", "unlock"}
                          /\ (lock = 0 => login'[r].pc # "drop")
      BY <1>1, <1>4 DEF Accounted
    <2>2. lock = 0 => /\ wrong <= count + Cardinality(Uncounted)' + aborted
                      /\ wrong <= MaxAttempts - 1 + Cardinality(Pending)' + aborted
      BY <1>3, <1>4 DEF Accounted
    <2>3. lock > 0 => wrong + Cardinality(Guessing)'
                        <= MaxAttempts - 1 + Cardinality(Logins) + aborted
      <3>1. SUFFICES ASSUME lock > 0
                     PROVE  wrong + Cardinality(Guessing)'
                              <= MaxAttempts - 1 + Cardinality(Logins) + aborted
        OBVIOUS
      <3>2. Cardinality(Guessing)' <= Cardinality(Guessing) /\ Cardinality(Guessing)' \in Int
        BY <1>1, <1>3, <3>1, Restaged, Sizes
      <3>3. wrong \in Nat /\ aborted \in Nat
        BY DEF LimiterIInv, LimiterTypeOK
      <3>4. QED
        BY <1>4, <3>1, <3>2, <3>3, Sizes, Constants DEF Accounted
    <2>4. QED
      BY <1>2, <2>1, <2>2, <2>3 DEF Accounted
  <1>5. QED
    BY <1>2, <1>4 DEF Budget

LEMMA GuessBudget ==
  ASSUME LimiterIInv, Budget, NEW t \in Logins, Guess(t)
  PROVE  Budget'
  <1>1. /\ \A r \in Logins \ {t} : login'[r] = login[r]
        /\ login'[t].pc = "incr" /\ login[t].pc = "verify"
    BY DEF Guess, Proceed, MoveTo, LimiterIInv, LimiterTypeOK
  <1>2. /\ UNCHANGED <<count, lock, opened, late, aborted>>
        /\ wrong' = IF opened THEN wrong ELSE wrong + 1
    BY DEF Guess
  <1>3. /\ Cardinality(Uncounted)' = Cardinality(Uncounted) + 1
        /\ Cardinality(Pending)' = Cardinality(Pending) + 1
        /\ Cardinality(Guessing)' = Cardinality(Guessing) - 1
    BY <1>1, Restaged, Sizes DEF WillLock
  <1>4. wrong' = wrong + 1 /\ Accounted => Accounted'
    BY <1>1, <1>2, <1>3, Sizes, Constants DEF Accounted, LimiterIInv, LimiterTypeOK
  <1>5. QED
    BY <1>2, <1>4 DEF Budget

(* A counted guess that leaves the pending ones was below the maximum. *)
LEMMA IncrBudget ==
  ASSUME LimiterIInv, Budget, NEW t \in Logins, Incr(t)
  PROVE  Budget'
  <1>1. PICK s \in {"expire", "check_ttl"} : MoveTo(t, s, count + 1)
    BY DEF Incr
  <1>2. /\ UNCHANGED <<lock, wrong, opened, late, aborted>>
        /\ count' = count + 1 /\ login[t].pc = "incr"
    BY DEF Incr
  <1>3. /\ \A r \in Logins \ {t} : login'[r] = login[r]
        /\ login'[t].pc \in {"check_ttl", "expire"} /\ login'[t].n = count + 1
    BY <1>1 DEF MoveTo, LimiterIInv, LimiterTypeOK
  <1>4. /\ Cardinality(Uncounted)' = Cardinality(Uncounted) - 1
        /\ Cardinality(Pending)' = Cardinality(Pending) - (IF count + 1 >= MaxAttempts THEN 0 ELSE 1)
        /\ Cardinality(Guessing)' = Cardinality(Guessing)
    BY <1>2, <1>3, Restaged, Sizes DEF WillLock
  <1>5. Cardinality(Uncounted) <= Cardinality(Pending)
    <2>1. Uncounted \in SUBSET Pending /\ Pending \in SUBSET Logins
      BY DEF Uncounted, Pending
    <2>2. IsFiniteSet(Pending)
      BY <2>1, LoginsAssumption, FS_Subset
    <2>3. QED
      BY <2>1, <2>2, FS_Subset
  <1>6. Accounted => Accounted'
    BY <1>2, <1>3, <1>4, <1>5, Sizes, Constants DEF Accounted, LimiterIInv, LimiterTypeOK
  <1>7. QED
    BY <1>2, <1>6 DEF Budget
(* The rest of record_login_failure: no guess is forgotten before the lock. *)
LEMMA RecordBudget ==
  ASSUME LimiterIInv, Budget, NEW t \in Logins, CheckTtl(t) \/ Expire(t) \/ SetLock(t)
  PROVE  Budget'
  <1>1. /\ \A r \in Logins \ {t} : login'[r] = login[r]
        /\ login[t].pc \in {"check_ttl", "expire", "lock"}
        /\ login'[t].pc \in {"expire", "idle", "lock", "drop"}
        /\ login[t].n \in Nat
    BY DEF CheckTtl, Expire, SetLock, LockIfReached, Proceed, MoveTo, EndLogin, LimiterIInv, LimiterTypeOK, NoLogin,
           LoginStates
  <1>2. UNCHANGED <<count, wrong, opened, late, aborted>>
    BY DEF CheckTtl, Expire, SetLock
  <1>3. /\ Cardinality(Uncounted)' = Cardinality(Uncounted)
        /\ Cardinality(Guessing)' = Cardinality(Guessing)
    BY <1>1, Restaged, Sizes
  <1>4. CASE SetLock(t)
    <2>1. lock' > 0
      BY <1>4, Constants DEF SetLock
    <2>2. Accounted => Accounted'
      <3>1. CASE lock = 0
        BY <1>1, <1>2, <1>3, <2>1, <3>1, Sizes, Constants DEF Accounted, LimiterIInv, LimiterTypeOK
      <3>2. CASE lock > 0
        BY <1>1, <1>2, <1>3, <2>1, <3>2, Sizes, Constants DEF Accounted, LimiterIInv, LimiterTypeOK
      <3>3. QED
        BY <3>1, <3>2 DEF LimiterIInv, LimiterTypeOK
    <2>3. QED
      BY <1>2, <2>2 DEF Budget
  <1>5. CASE CheckTtl(t) \/ Expire(t)
    <2>1. WillLock(login[t]) <=> WillLock(login'[t])
      <3>1. ASSUME LockIfReached(t)
            PROVE  /\ login'[t].pc \in {"lock", "idle"}
                   /\ login[t].n >= MaxAttempts <=> login'[t].pc = "lock"
        BY <3>1 DEF LockIfReached, Proceed, MoveTo, EndLogin, NoLogin, LimiterIInv, LimiterTypeOK
      <3>2. CASE LockIfReached(t)
        <4>1. login[t].pc \in {"check_ttl", "expire"}
          BY <1>5 DEF CheckTtl, Expire
        <4>2. WillLock(login[t]) <=> login[t].n >= MaxAttempts
          BY <4>1 DEF WillLock
        <4>3. WillLock(login'[t]) <=> login'[t].pc = "lock"
          BY <3>1, <3>2 DEF WillLock
        <4>4. QED
          BY <3>1, <3>2, <4>2, <4>3
      <3>3. CASE MoveTo(t, "expire", login[t].n) /\ CheckTtl(t)
        <4>1. login'[t] = [pc |-> "expire", n |-> login[t].n] /\ login[t].pc = "check_ttl"
          BY <3>3 DEF MoveTo, CheckTtl, LimiterIInv, LimiterTypeOK
        <4>2. QED
          BY <4>1 DEF WillLock
      <3>4. QED
        BY <1>5, <3>2, <3>3 DEF CheckTtl, Expire
    <2>2. Cardinality(Pending)' = Cardinality(Pending)
      BY <1>1, <2>1, Restaged, Sizes
    <2>3. lock' = lock /\ login'[t].pc # "drop"
      BY <1>5 DEF CheckTtl, Expire, LockIfReached, Proceed, MoveTo, EndLogin, NoLogin, LimiterIInv, LimiterTypeOK
    <2>4. Accounted => Accounted'
      BY <1>1, <1>2, <1>3, <2>2, <2>3 DEF Accounted
    <2>5. QED
      BY <1>2, <2>4 DEF Budget
  <1>6. QED
    BY <1>4, <1>5

(* The counter is deleted only once the account is locked, or opened. *)
LEMMA DropBudget ==
  ASSUME LimiterIInv, Budget, NEW t \in Logins,
         DropCount(t) \/ ClearCount(t) \/ ClearLock(t) \/ Succeed(t)
  PROVE  Budget'
  <1>1. CASE Succeed(t)
    BY <1>1 DEF Succeed, Budget
  <1>2. CASE ClearCount(t) \/ ClearLock(t)
    <2>1. login[t].pc \in {"clear", "unlock"} /\ UNCHANGED <<wrong, opened, late>>
      BY <1>2 DEF ClearCount, ClearLock
    <2>2. opened \/ late
      BY <2>1 DEF Budget, Accounted
    <2>3. QED
      BY <2>1, <2>2 DEF Budget
  <1>3. CASE DropCount(t)
    <2>1. /\ \A r \in Logins \ {t} : login'[r] = login[r]
          /\ login[t].pc = "drop" /\ login'[t].pc = "idle"
      BY <1>3 DEF DropCount, EndLogin, LimiterIInv, LimiterTypeOK, NoLogin
    <2>2. Cardinality(Guessing)' = Cardinality(Guessing)
      BY <2>1, Restaged, Sizes
    <2>3. Accounted => Accounted'
      BY <1>3, <2>1, <2>2 DEF DropCount, Accounted
    <2>4. QED
      BY <1>3, <2>3 DEF DropCount, Budget
  <1>4. QED
    BY <1>1, <1>2, <1>3

(* An aborted call takes at most one guess with it. *)
LEMMA FailBudget ==
  ASSUME LimiterIInv, Budget, NEW t \in Logins, Abort(t)
  PROVE  Budget'
  <1>1. /\ \A r \in Logins \ {t} : login'[r] = login[r]
        /\ login'[t].pc = "idle"
        /\ UNCHANGED <<count, lock, wrong, opened, late>> /\ aborted' = aborted + 1
    BY DEF Abort, EndLogin, LimiterIInv, LimiterTypeOK, NoLogin
  <1>2. /\ Cardinality(Uncounted)' >= Cardinality(Uncounted) - 1
        /\ Cardinality(Pending)' >= Cardinality(Pending) - 1
        /\ Cardinality(Guessing)' <= Cardinality(Guessing)
    BY <1>1, Restaged, Sizes DEF WillLock
  <1>3. /\ {wrong, count, aborted, lock} \subseteq Nat
        /\ {Cardinality(Uncounted)', Cardinality(Pending)', Cardinality(Guessing)'} \subseteq Int
    BY <1>1, Restaged, Sizes DEF LimiterIInv, LimiterTypeOK
  <1>4. ASSUME Accounted PROVE Accounted'
    <2>1. \A r \in Logins : login'[r].pc \notin {"clear", "unlock"}
                          /\ (lock = 0 => login'[r].pc # "drop")
      BY <1>1, <1>4 DEF Accounted
    <2>2. lock = 0 => /\ wrong <= count + Cardinality(Uncounted)' + aborted + 1
                      /\ wrong <= MaxAttempts - 1 + Cardinality(Pending)' + aborted + 1
      BY <1>2, <1>3, <1>4, Sizes, Constants DEF Accounted
    <2>3. lock > 0 => wrong + Cardinality(Guessing)'
                        <= MaxAttempts - 1 + Cardinality(Logins) + aborted + 1
      BY <1>2, <1>3, <1>4, Sizes, Constants DEF Accounted
    <2>4. QED
      BY <1>1, <1>3, <2>1, <2>2, <2>3, Sizes, Constants DEF Accounted
  <1>5. QED
    BY <1>1, <1>4 DEF Budget

(* Time that passes while no call is in flight ends a window or a lockout    *)
(* with the guesses made in it.                                              *)
LEMMA TickBudget ==
  ASSUME LimiterIInv, Budget, Tick
  PROVE  Budget'
  <1>1. /\ UNCHANGED <<opened, aborted, login>>
        /\ wrong' = wrong \/ wrong' = 0
        /\ wrong' = 0 \/ (count' = count /\ (lock' = 0 <=> lock = 0))
    BY DEF Tick, Less, LimiterIInv, LimiterTypeOK
  <1>2. /\ Cardinality(Uncounted)' = Cardinality(Uncounted)
        /\ Cardinality(Pending)' = Cardinality(Pending)
        /\ Cardinality(Guessing)' = Cardinality(Guessing)
    BY <1>1 DEF Uncounted, Pending, Guessing
  <1>3. CASE late'
    <2>1. opened' => wrong' = 0
      BY <1>1 DEF Budget
    <2>2. QED
      BY <1>3, <2>1 DEF Budget
  <1>4. CASE ~late'
    <2>1. ~late /\ \A t \in Logins : login[t].pc = "idle"
      <3>1. ~(late \/ \E t \in Logins : login[t] # NoLogin)
        BY <1>4 DEF Tick
      <3>2. QED
        BY <3>1 DEF NoLogin
    <2>2. Guessing = {}
      BY <2>1 DEF Guessing
    <2>3. Cardinality(Guessing)' = 0
      BY <1>2, <2>2, Empty
    <2>4. lock' \in Nat /\ count' \in Nat /\ aborted' \in Nat
      BY TypedNext DEF LimiterNext, LimiterIInv, LimiterTypeOK
    <2>5. CASE wrong' = 0
      <3>1. Accounted'
        BY <1>1, <1>2, <2>1, <2>3, <2>4, <2>5, Sizes, Constants DEF Accounted
      <3>2. QED
        BY <2>5, <3>1 DEF Budget
    <2>6. CASE wrong' = wrong /\ count' = count /\ (lock' = 0 <=> lock = 0)
      <3>1. Accounted => Accounted'
        BY <1>1, <1>2, <2>1, <2>3, <2>4, <2>6, Sizes, Constants DEF Accounted, LimiterIInv, LimiterTypeOK
      <3>2. QED
        BY <1>1, <2>1, <2>6, <3>1 DEF Budget
    <2>7. QED
      BY <1>1, <2>5, <2>6
  <1>5. QED
    BY <1>3, <1>4

LEMMA NextBudget == LimiterIInv /\ Budget /\ [LimiterNext]_limiterVars => Budget'
  <1>. SUFFICES ASSUME LimiterIInv, Budget, [LimiterNext]_limiterVars PROVE Budget'
    OBVIOUS
  <1>1. CASE UNCHANGED limiterVars
    BY <1>1 DEF limiterVars, Budget, Accounted, Uncounted, Pending, Guessing
  <1>2. QED
    BY <1>1, TickBudget, EnforceBudget, GuessBudget, IncrBudget, RecordBudget, DropBudget,
       FailBudget DEF LimiterNext, LoginStep

LEMMA BudgetKept == LimiterSpec => []Budget
  BY InitLimiterIInv, NextLimiterIInv, InitBudget, NextBudget, PTL DEF LimiterSpec

-----------------------------------------------------------------------------
(* Theorems *)

(* The keys of the limiter stay well typed, and a counter that was deleted   *)
(* keeps no TTL.                                                             *)
THEOREM LimiterTypeCorrect == LimiterSpec => []LimiterTypeOK
  <1>1. LimiterIInv => LimiterTypeOK
    BY DEF LimiterIInv
  <1>2. QED
    BY <1>1, LimiterInvariance, PTL

(* record_login_failure: however many failures pass the check together, once *)
(* the calls have ended the lockout has taken the place of the counter.      *)
THEOREM Supersedes == LimiterSpec => []LockoutSupersedes
  <1>1. LimiterIInv => LockoutSupersedes
    BY Constants DEF LimiterIInv, LimiterTypeOK, Guarded, Locking, NoLogin, LockoutSupersedes, Quiet
  <1>2. QED
    BY <1>1, LimiterInvariance, PTL

(* record_login_failure: once the calls have ended the counter has a TTL.    *)
THEOREM Expires == LimiterSpec => []CounterExpires
  <1>1. LimiterIInv => CounterExpires
    BY DEF LimiterIInv, LimiterTypeOK, Guarded, Arming, NoLogin, CounterExpires, Quiet
  <1>2. QED
    BY <1>1, LimiterInvariance, PTL

(* login_user: between two expiries, attempts that run at once overshoot the *)
(* maximum by at most one guess for each other call in flight and one for    *)
(* each call that was aborted.                                               *)
THEOREM Bounded == LimiterSpec => []GuessesBounded
  <1>1. LimiterIInv /\ Budget => GuessesBounded
    <2>. SUFFICES ASSUME LimiterIInv, Budget, ~late
                  PROVE  wrong <= MaxAttempts - 1 + Cardinality(Logins) + aborted
      BY DEF GuessesBounded
    <2>1. wrong \in Nat /\ aborted \in Nat /\ lock \in Nat
      BY DEF LimiterIInv, LimiterTypeOK
    <2>2. CASE opened
      BY <2>1, <2>2, Sizes, Constants DEF Budget
    <2>3. CASE ~opened
      BY <2>1, <2>3, Sizes, Constants DEF Budget, Accounted
    <2>4. QED
      BY <2>2, <2>3
  <1>2. QED
    BY <1>1, LimiterInvariance, BudgetKept, PTL

(* record_login_failure: once the calls that made them have ended, as many   *)
(* failures as the maximum have locked the account.                          *)
THEOREM Locks == LimiterSpec => []LockedAfterMax
  <1>1. LimiterIInv /\ Budget => LockedAfterMax
    <2>. SUFFICES ASSUME LimiterIInv, Budget, Quiet, aborted = 0, ~late, wrong >= MaxAttempts
                  PROVE  lock > 0
      BY DEF LockedAfterMax
    <2>1. wrong \in Nat /\ lock \in Nat
      BY DEF LimiterIInv, LimiterTypeOK
    <2>2. Pending = {}
      BY DEF Pending, WillLock, Quiet, NoLogin
    <2>3. Cardinality(Pending) = 0
      BY <2>2, Empty
    <2>4. QED
      BY <2>1, <2>3, Constants DEF Budget, Accounted
  <1>2. QED
    BY <1>1, LimiterInvariance, BudgetKept, PTL
===============================================================================
