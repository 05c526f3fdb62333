--------------------------- MODULE SessionsProofs ---------------------------
(* Theorems about Sessions, for every value of its constants. *)
EXTENDS Sessions, FiniteSetTheorems, WellFoundedInduction, TLAPS

-----------------------------------------------------------------------------
(* Types *)

LEMMA IdleType == Idle \in TaskStates
  BY DEF Idle, TaskStates, AllOps, Steps

(* Session.to_dict and Session.from_dict map sessions to documents and back. *)
LEMMA ToDictType == \A x \in SessionObjects : ToDict(x) \in Docs
  BY DEF ToDict, SessionObjects, Docs

LEMMA FromDictType == \A d \in Docs : FromDict(d) \in SessionObjects
  BY DEF FromDict, SessionObjects, Docs

LEMMA NullsDiffer == NoDoc \notin Docs /\ NoSession \notin SessionObjects
                     /\ NoSid \notin Sids /\ NoToken \notin Tokens
  BY DEF NoDoc, Docs, NoSession, SessionObjects, NoSid, Sids, NoToken, Tokens

LEMMA FreshIn == ASSUME NEW n, NEW f, NEW none
                 PROVE  Fresh(n, f, none) \subseteq {x \in 1..n : f[x] = none}
  BY DEF Fresh

(* A conditional update keeps the table well typed and every row in place. *)
LEMMA RevokeRowsType ==
  ASSUME db \in [Sids -> Docs \cup {NoDoc}], NEW S
  PROVE  /\ RevokeRows(S) \in [Sids -> Docs \cup {NoDoc}]
         /\ \A s \in Sids : \/ RevokeRows(S)[s] = db[s]
                            \/ /\ db[s] \in Docs
                               /\ RevokeRows(S)[s] = [db[s] EXCEPT !.status = "revoked"]
  <1>1. ASSUME NEW s \in Sids, db[s].status = "active"
        PROVE  db[s] \in Docs /\ [db[s] EXCEPT !.status = "revoked"] \in Docs
    <2>1. db[s] \in Docs
      BY <1>1 DEF NoDoc
    <2>2. QED
      BY <2>1 DEF Docs
  <1>2. QED
    BY <1>1 DEF RevokeRows

(* A coroutine moves to a well-typed and well-shaped state. *)
Moved(t) == /\ task' \in [Tasks -> TaskStates]
            /\ \A r \in Tasks : Shape(task'[r])

LEMMA MoveTask ==
  ASSUME Typed, NEW t \in Tasks, NEW q, q \in TaskStates, Shape(q),
         Become(t, q)
  PROVE  Moved(t)
  BY DEF Typed, TypeOK, Moved, Become

LEMMA FinishMoves ==
  ASSUME Typed, NEW t \in Tasks, Finish(t)
  PROVE  Moved(t)
  <1>1. Shape(Idle)
    BY DEF Shape, Idle
  <1>2. QED
    BY <1>1, IdleType, MoveTask DEF Finish

LEMMA GotoMoves ==
  ASSUME Typed, NEW t \in Tasks, NEW step \in Steps, Goto(t, step),
         Shape([task[t] EXCEPT !.pc = step])
  PROVE  Moved(t)
  <1>. DEFINE q == [task[t] EXCEPT !.pc = step]
  <1>1. Become(t, q)
    BY DEF Goto
  <1>2. q \in TaskStates
    BY DEF Typed, TypeOK, TaskStates
  <1>3. QED
    BY <1>1, <1>2, MoveTask

(* Each caller of _get_session leaves its coroutine well typed and shaped. *)
LEMMA GotMoves ==
  ASSUME Typed, NEW t \in Tasks, NEW x \in SessionObjects \cup {NoSession}, Got(t, x),
         task[t].sid # NoSid
  PROVE  Moved(t)
  <1>1. task[t] \in TaskStates /\ Shape(task[t])
    BY DEF Typed, TypeOK
  <1>2. CASE Finish(t)
    BY <1>2, FinishMoves
  <1>3. CASE GotForValidate(t, x) /\ ~Finish(t)
    <2>. DEFINE q == [Idle EXCEPT !.op = "touch", !.pc = GetStart, !.sid = x.sid]
    <2>1. Become(t, q) /\ x # NoSession
      BY <1>3 DEF GotForValidate, Refreshable
    <2>2. x.sid \in Sids
      BY <2>1 DEF SessionObjects
    <2>3. q \in TaskStates
      BY <2>2 DEF Idle, TaskStates, AllOps, Steps, GetStart
    <2>4. Shape(q)
      BY <2>2, NullsDiffer DEF Idle, Shape, GetStart
    <2>5. QED
      BY <2>1, <2>3, <2>4, MoveTask
  <1>4. CASE GotForTouch(t, x) /\ ~Finish(t)
    <2>. DEFINE q == [task[t] EXCEPT !.ses = x, !.pc = PutStart]
    <2>1. Become(t, q) /\ x # NoSession /\ task[t].op = "touch"
      BY <1>4 DEF GotForTouch
    <2>2. q \in TaskStates
      BY <1>1, <2>1 DEF TaskStates, AllOps, Steps, PutStart
    <2>3. Shape(q)
      BY <1>1, <2>1, NullsDiffer DEF Shape, TaskStates, PutStart
    <2>4. QED
      BY <2>1, <2>2, <2>3, MoveTask
  <1>5. CASE GotForRefresh(t, x) /\ ~Finish(t)
    <2>. DEFINE q == [task[t] EXCEPT !.ses = x, !.pc = "rotate"]
    <2>1. Become(t, q) /\ x # NoSession /\ task[t].op = "refresh"
      BY <1>5 DEF GotForRefresh, Refreshable
    <2>2. q \in TaskStates
      BY <1>1, <2>1 DEF TaskStates, AllOps, Steps
    <2>3. Shape(q)
      BY <1>1, <2>1, NullsDiffer DEF Shape, TaskStates
    <2>4. QED
      BY <2>1, <2>2, <2>3, MoveTask
  <1>6. CASE GotForRevoke(t, x)
    <2>. DEFINE q == [task[t] EXCEPT !.ses = x, !.pc = "revoke_db"]
    <2>1. Become(t, q) /\ task[t].op = "revoke"
      BY <1>6 DEF GotForRevoke
    <2>2. q \in TaskStates
      BY <1>1, <2>1 DEF TaskStates, AllOps, Steps
    <2>3. Shape(q)
      BY <1>1, <2>1, NullsDiffer DEF Shape, TaskStates
    <2>4. QED
      BY <2>1, <2>2, <2>3, MoveTask
  <1>7. QED
    BY <1>2, <1>3, <1>4, <1>5, <1>6 DEF Got

(* The two ways out of the eviction loop, and out of the drop loop. *)
LEMMA EvictRestMoves ==
  ASSUME Typed, NEW t \in Tasks, NEW rest \in SUBSET Sids, EvictRest(t, rest),
         task[t].op = "create"
  PROVE  Moved(t) /\ handed' \subseteq Tokens
  <1>1. task[t] \in TaskStates /\ Shape(task[t]) /\ handed \subseteq Tokens
    BY DEF Typed, TypeOK
  <1>2. task[t].ses \in SessionObjects
    BY <1>1 DEF Shape, TaskStates
  <1>3. CASE rest = {}
    BY <1>1, <1>2, <1>3, FinishMoves DEF EvictRest, SessionObjects
  <1>4. CASE rest # {}
    <2>. DEFINE q == [task[t] EXCEPT !.todo = rest, !.pc = "limit_revoke"]
    <2>1. Become(t, q) /\ handed' = handed
      BY <1>4 DEF EvictRest
    <2>2. q \in TaskStates
      BY <1>1 DEF TaskStates, Steps
    <2>3. Shape(q)
      BY <1>1 DEF Shape, TaskStates
    <2>4. QED
      BY <1>1, <2>1, <2>2, <2>3, MoveTask
  <1>5. QED
    BY <1>3, <1>4

LEMMA DropRestMoves ==
  ASSUME Typed, NEW t \in Tasks, NEW rest \in SUBSET Sids, DropRest(t, rest),
         task[t].user # NoUser, task[t].op # "refresh"
  PROVE  Moved(t)
  <1>1. task[t] \in TaskStates /\ Shape(task[t])
    BY DEF Typed, TypeOK
  <1>2. CASE Finish(t)
    BY <1>2, FinishMoves
  <1>3. ASSUME NEW s \in rest,
               Become(t, [task[t] EXCEPT !.todo = rest, !.sid = s, !.pc = "drop_cache"])
        PROVE  Moved(t)
    <2>. DEFINE q == [task[t] EXCEPT !.todo = rest, !.sid = s, !.pc = "drop_cache"]
    <2>1. Become(t, q)
      BY <1>3
    <2>2. q \in TaskStates
      BY <1>1 DEF TaskStates, Steps
    <2>3. Shape(q)
      BY <1>1, NullsDiffer DEF Shape, TaskStates
    <2>4. QED
      BY <2>1, <2>2, <2>3, MoveTask
  <1>4. QED
    BY <1>2, <1>3 DEF DropRest

LEMMA DroppedMoves ==
  ASSUME Typed, NEW t \in Tasks, Dropped(t), task[t].pc \in {"index_delete", "index_push"}
  PROVE  Moved(t) /\ handed' \subseteq Tokens
  <1>1. task[t] \in TaskStates /\ handed \subseteq Tokens /\ task[t].user # NoUser
    BY DEF Typed, TypeOK, Shape
  <1>2. task[t].todo \ {task[t].sid} \in SUBSET Sids
    BY <1>1 DEF TaskStates
  <1>3. QED
    BY <1>1, <1>2, EvictRestMoves, DropRestMoves, FinishMoves DEF Dropped

-----------------------------------------------------------------------------
(* Each action keeps the types and the shapes.  Those that change only their *)
(* coroutine need one lemma.                                                 *)
LEMMA MovedTyped ==
  ASSUME Typed, NEW t \in Tasks, Moved(t),
         UNCHANGED <<owner, minted, cache, rmap, index, db, retired, now, lost, failed>>,
         handed' \subseteq Tokens
  PROVE  Typed'
  BY DEF Typed, TypeOK, Moved

LEMMA CreateSessionTyped ==
  ASSUME Typed, NEW t \in Tasks, NEW u \in Users, CreateSession(t, u)
  PROVE  Typed'
  <1>1. PICK s \in Fresh(MaxSid, owner, NoUser), k \in Fresh(MaxToken, minted, NoSid) :
          /\ owner' = [owner EXCEPT ![s] = u]
          /\ minted' = [minted EXCEPT ![k] = s]
          /\ Become(t, [Idle EXCEPT !.op = "create", !.pc = PutStart, !.user = u,
                   !.sid = s,
                   !.ses = [sid |-> s, user |-> u, tok |-> k,
                            exp |-> now + Lifetime, revoked |-> FALSE]])
    BY DEF CreateSession
  <1>2. s \in Sids /\ k \in Tokens
    BY FreshIn DEF Sids, Tokens
  <1>. DEFINE x == [sid |-> s, user |-> u, tok |-> k, exp |-> now + Lifetime, revoked |-> FALSE]
              q == [Idle EXCEPT !.op = "create", !.pc = PutStart, !.user = u,
                                !.sid = s, !.ses = x]
  <1>3. x \in SessionObjects
    BY <1>2, BoundsAssumption DEF SessionObjects, Typed, TypeOK
  <1>4. q \in TaskStates
    BY <1>2, <1>3 DEF Idle, TaskStates, AllOps, Steps, PutStart
  <1>5. Shape(q)
    BY <1>2, <1>3, NullsDiffer, UsersAssumption DEF Idle, Shape, PutStart
  <1>6. Moved(t)
    BY <1>1, <1>4, <1>5, MoveTask
  <1>7. owner' \in [Sids -> Users \cup {NoUser}] /\ minted' \in [Tokens -> Sids \cup {NoSid}]
    BY <1>1, <1>2 DEF Typed, TypeOK
  <1>8. QED
    BY <1>6, <1>7 DEF CreateSession, Typed, TypeOK, Moved

(* The calls that start with nothing but their arguments. *)
LEMMA CallTyped ==
  ASSUME Typed, OwnedTokens, NEW t \in Tasks,
         \/ \E u \in Users : RevokeAllUserSessions(t, u) \/ ResetPassword(t, u)
         \/ \E k \in Tokens : ValidateSession(t, k) \/ RefreshSession(t, k)
         \/ \E s \in Sids : RevokeSession(t, s)
  PROVE  Typed'
  <1>. USE DEF Typed, TypeOK
  <1>1. ASSUME NEW u \in Users, RevokeAllUserSessions(t, u)
        PROVE  Typed'
    <2>. DEFINE q == [Idle EXCEPT !.op = "revokeAll", !.pc = "all_read", !.user = u]
    <2>1. q \in TaskStates
      BY DEF Idle, TaskStates, AllOps, Steps
    <2>2. Shape(q)
      BY UsersAssumption DEF Idle, Shape
    <2>3. QED
      BY <1>1, <2>1, <2>2, MoveTask, MovedTyped DEF shared, RevokeAllUserSessions
  <1>2. ASSUME NEW u \in Users, ResetPassword(t, u)
        PROVE  Typed'
    <2>. DEFINE q == [Idle EXCEPT !.op = "reset", !.pc = "all_revoke", !.user = u]
    <2>1. q \in TaskStates
      BY DEF Idle, TaskStates, AllOps, Steps
    <2>2. Shape(q)
      BY UsersAssumption DEF Idle, Shape
    <2>3. QED
      BY <1>2, <2>1, <2>2, MoveTask, MovedTyped DEF shared, ResetPassword
  <1>3. ASSUME NEW k \in Tokens, RefreshSession(t, k)
        PROVE  Typed'
    <2>. DEFINE q == [Idle EXCEPT !.op = "refresh", !.pc = ResolveStart,
                                  !.user = owner[minted[k]], !.tok = k]
    <2>1. owner[minted[k]] \in Users \cup {NoUser}
      BY <1>3 DEF RefreshSession, OwnedTokens
    <2>2. q \in TaskStates
      BY <2>1 DEF Idle, TaskStates, AllOps, Steps, ResolveStart
    <2>3. Shape(q)
      BY NullsDiffer DEF Idle, Shape, ResolveStart
    <2>4. QED
      BY <1>3, <2>2, <2>3, MoveTask, MovedTyped DEF shared, RefreshSession
  <1>4. ASSUME NEW k \in Tokens, ValidateSession(t, k)
        PROVE  Typed'
    <2>. DEFINE q == [Idle EXCEPT !.op = "validate", !.pc = GetStart,
                                  !.user = owner[minted[k]], !.sid = minted[k]]
    <2>1. minted[k] \in Sids /\ owner[minted[k]] \in Users \cup {NoUser}
      BY <1>4 DEF ValidateSession, OwnedTokens
    <2>2. q \in TaskStates
      BY <2>1 DEF Idle, TaskStates, AllOps, Steps, GetStart
    <2>3. Shape(q)
      BY <2>1, NullsDiffer DEF Idle, Shape, GetStart
    <2>4. QED
      BY <1>4, <2>2, <2>3, MoveTask, MovedTyped DEF shared, ValidateSession
  <1>5. ASSUME NEW s \in Sids, RevokeSession(t, s)
        PROVE  Typed'
    <2>. DEFINE q == [Idle EXCEPT !.op = "revoke", !.pc = GetStart, !.sid = s]
    <2>1. q \in TaskStates
      BY DEF Idle, TaskStates, AllOps, Steps, GetStart
    <2>2. Shape(q)
      BY NullsDiffer DEF Idle, Shape, GetStart
    <2>3. QED
      BY <1>5, <2>1, <2>2, MoveTask, MovedTyped DEF shared, RevokeSession
  <1>6. QED
    BY <1>1, <1>2, <1>3, <1>4, <1>5

LEMMA ResolveTyped ==
  ASSUME Typed, NEW t \in Tasks, ResolveFromMap(t) \/ ResolveFromDb(t)
  PROVE  Typed'
  <1>. USE DEF Typed, TypeOK
  <1>1. task[t] \in TaskStates /\ Shape(task[t])
    OBVIOUS
  <1>2. CASE ResolveFromMap(t)
    <2>1. CASE Finish(t)
      BY <1>2, <2>1, FinishMoves, MovedTyped DEF shared, ResolveFromMap
    <2>2. CASE ~Finish(t)
      <3>. DEFINE s == rmap[task[t].tok]
                  q == [task[t] EXCEPT !.sid = s, !.pc = "get_cache"]
      <3>1. s # NoSid /\ Become(t, q)
        BY <1>2, <2>2 DEF ResolveFromMap, Finish
      <3>2. task[t].tok \in Tokens /\ s \in Sids
        BY <1>1, <1>2, <3>1, NullsDiffer DEF ResolveFromMap, Shape, TaskStates
      <3>3. q \in TaskStates
        BY <1>1, <3>2 DEF TaskStates, Steps
      <3>4. Shape(q)
        BY <1>1, <3>1 DEF Shape, TaskStates
      <3>5. QED
        BY <1>2, <3>1, <3>3, <3>4, MoveTask, MovedTyped DEF shared, ResolveFromMap
    <2>3. QED
      BY <2>1, <2>2
  <1>3. CASE ResolveFromDb(t)
    <2>1. CASE Finish(t)
      BY <1>3, <2>1, FinishMoves, MovedTyped DEF shared, ResolveFromDb
    <2>2. CASE ~Finish(t)
      <3>1. PICK s \in ActiveSessions(task[t].user) :
                    Become(t, [task[t] EXCEPT !.sid = s, !.pc = "rotate",
                                         !.ses = FromDict(db[s])])
        BY <1>3, <2>2 DEF ResolveFromDb
      <3>. DEFINE q == [task[t] EXCEPT !.sid = s, !.pc = "rotate", !.ses = FromDict(db[s])]
      <3>2. s \in Sids /\ db[s] \in Docs
        BY DEF ActiveSessions, NoDoc
      <3>3. FromDict(db[s]) \in SessionObjects
        BY <3>2, FromDictType
      <3>4. Become(t, q)
        BY <3>1
      <3>5. q \in TaskStates
        BY <1>1, <3>2, <3>3 DEF TaskStates, Steps
      <3>6. Shape(q)
        BY <1>1, <1>3, <3>2, <3>3, NullsDiffer DEF Shape, TaskStates, ResolveFromDb
      <3>7. QED
        BY <1>3, <3>4, <3>5, <3>6, MoveTask, MovedTyped DEF shared, ResolveFromDb
    <2>3. QED
      BY <2>1, <2>2
  <1>4. QED
    BY <1>2, <1>3

LEMMA GetTyped ==
  ASSUME Typed, NEW t \in Tasks, GetFromCache(t) \/ GetFromDb(t) \/ Recache(t)
  PROVE  Typed'
  <1>. USE DEF Typed, TypeOK
  <1>1. task[t] \in TaskStates /\ Shape(task[t])
    OBVIOUS
  <1>2. NoSession \in SessionObjects \cup {NoSession}
    OBVIOUS
  <1>3. CASE GetFromCache(t)
    <2>. DEFINE d == cache[task[t].sid]
    <2>1. d \in Docs \cup {NoDoc}
      BY <1>1, <1>3, NullsDiffer DEF GetFromCache, Shape, TaskStates
    <2>2. Moved(t)
      <3>1. CASE d = NoDoc
        <4>1. Goto(t, "get_db") /\ "get_db" \in Steps
          BY <1>3, <3>1 DEF GetFromCache, Steps
        <4>2. Shape([task[t] EXCEPT !.pc = "get_db"])
          BY <1>1, <1>3 DEF GetFromCache, Shape, TaskStates
        <4>3. QED
          BY <4>1, <4>2, GotoMoves
      <3>2. CASE d # NoDoc
        BY <1>1, <1>3, <2>1, <3>2, FromDictType, GotMoves DEF GetFromCache, Shape
      <3>3. QED
        BY <3>1, <3>2
    <2>3. QED
      BY <1>3, <2>2, MovedTyped DEF shared, GetFromCache
  <1>4. CASE GetFromDb(t)
    <2>. DEFINE d == db[task[t].sid]
    <2>1. d \in Docs \cup {NoDoc}
      BY <1>1, <1>4, NullsDiffer DEF GetFromDb, Shape, TaskStates
    <2>2. Moved(t)
      <3>1. CASE Got(t, NoSession) \/ (d # NoDoc /\ Got(t, FromDict(d)))
        BY <1>1, <1>2, <1>4, <2>1, <3>1, FromDictType, GotMoves DEF GetFromDb, Shape
      <3>2. CASE /\ d # NoDoc
                 /\ Become(t, [task[t] EXCEPT !.ses = FromDict(d), !.pc = "recache"])
        <4>. DEFINE q == [task[t] EXCEPT !.ses = FromDict(d), !.pc = "recache"]
        <4>1. Become(t, q) /\ FromDict(d) \in SessionObjects
          BY <2>1, <3>2, FromDictType
        <4>2. q \in TaskStates
          BY <1>1, <4>1 DEF TaskStates, Steps
        <4>3. Shape(q)
          BY <1>1, <1>4, <4>1, NullsDiffer DEF Shape, TaskStates, GetFromDb
        <4>4. QED
          BY <4>1, <4>2, <4>3, MoveTask
      <3>3. QED
        BY <1>4, <3>1, <3>2 DEF GetFromDb
    <2>3. QED
      BY <1>4, <2>2, MovedTyped DEF shared, GetFromDb
  <1>5. CASE Recache(t)
    <2>1. task[t].ses \in SessionObjects
      BY <1>1, <1>5 DEF Recache, Shape, TaskStates
    <2>2. Moved(t)
      BY <1>1, <1>5, <2>1, GotMoves DEF Recache, Shape
    <2>3. cache' \in [Sids -> Docs \cup {NoDoc}]
      BY <1>5, <2>1, ToDictType DEF Recache
    <2>4. QED
      BY <1>5, <2>2, <2>3 DEF Recache, Moved
  <1>6. QED
    BY <1>3, <1>4, <1>5

LEMMA RotateTyped ==
  ASSUME Typed, NEW t \in Tasks, Rotate(t)
  PROVE  Typed'
  <1>. USE DEF Typed, TypeOK
  <1>1. task[t] \in TaskStates /\ Shape(task[t]) /\ task[t].pc = "rotate"
    BY DEF Rotate
  <1>2. PICK k \in Fresh(MaxToken, minted, NoSid) :
          /\ minted' = [minted EXCEPT ![k] = task[t].ses.sid]
          /\ Become(t, [task[t] EXCEPT !.pc = PutStart,
                       !.ses = [@ EXCEPT !.tok = k, !.exp = now + Lifetime]])
    BY DEF Rotate
  <1>. DEFINE x == [task[t].ses EXCEPT !.tok = k, !.exp = now + Lifetime]
              q == [task[t] EXCEPT !.pc = PutStart, !.ses = x]
  <1>3. k \in Tokens
    BY FreshIn DEF Tokens
  <1>4. task[t].ses \in SessionObjects
    BY <1>1 DEF Shape, TaskStates
  <1>5. x \in SessionObjects /\ task[t].ses.sid \in Sids
    <2>1. now + Lifetime \in Nat
      BY BoundsAssumption
    <2>2. QED
      BY <1>3, <1>4, <2>1 DEF SessionObjects
  <1>6. Become(t, q)
    BY <1>2
  <1>7. q \in TaskStates
    BY <1>1, <1>5, ZenonT(30) DEF TaskStates, Steps, PutStart
  <1>8. Shape(q)
    BY <1>1, <1>5, NullsDiffer DEF Shape, TaskStates, PutStart
  <1>9. Moved(t)
    BY <1>6, <1>7, <1>8, MoveTask
  <1>10. minted' \in [Tokens -> Sids \cup {NoSid}] /\ rmap' \in [Tokens -> Sids \cup {NoSid}]
    BY <1>2, <1>3, <1>5 DEF Rotate
  <1>11. QED
    BY <1>9, <1>10 DEF Rotate, Moved

(* A coroutine of _store_session holds a session; its caller returns it. *)
LEMMA StoredMoves ==
  ASSUME Typed, NEW t \in Tasks, Stored(t), task[t].pc \in {"put_db", "put_map"}
  PROVE  Moved(t) /\ handed' \subseteq Tokens /\ retired' \subseteq Tokens
  <1>. USE DEF Typed, TypeOK
  <1>1. task[t] \in TaskStates /\ Shape(task[t])
    OBVIOUS
  <1>2. task[t].ses \in SessionObjects /\ task[t].ses.tok \in Tokens
    BY <1>1 DEF Shape, TaskStates, SessionObjects
  <1>3. CASE task[t].op = "create"
    <2>. DEFINE step == IF HasCache THEN "index" ELSE "limit_read"
    <2>1. step \in Steps /\ Goto(t, step) /\ UNCHANGED <<handed, retired>>
      BY <1>3 DEF Stored, Steps
    <2>2. Shape([task[t] EXCEPT !.pc = step])
      BY <1>1, <1>3 DEF Shape, TaskStates
    <2>3. QED
      BY <2>1, <2>2, GotoMoves
  <1>4. CASE task[t].op = "refresh"
    <2>1. task[t].tok \in Tokens
      BY <1>1, <1>4 DEF Shape, TaskStates
    <2>2. QED
      BY <1>2, <1>4, <2>1, FinishMoves DEF Stored
  <1>5. CASE task[t].op = "touch"
    BY <1>5, FinishMoves DEF Stored
  <1>6. QED
    BY <1>3, <1>4, <1>5 DEF Stored

LEMMA PutTyped ==
  ASSUME Typed, NEW t \in Tasks,
         PutCache(t) \/ PutDb(t) \/ PutMap(t) \/ IndexUserSession(t)
  PROVE  Typed'
  <1>. USE DEF Typed, TypeOK
  <1>1. task[t] \in TaskStates /\ Shape(task[t])
    OBVIOUS
  <1>2. CASE PutCache(t)
    <2>1. task[t].ses \in SessionObjects /\ task[t].pc = "put_cache"
      BY <1>1, <1>2 DEF PutCache, Shape, TaskStates
    <2>2. cache' \in [Sids -> Docs \cup {NoDoc}]
      BY <1>2, <2>1, ToDictType DEF PutCache
    <2>3. Shape([task[t] EXCEPT !.pc = "put_db"])
      BY <1>1, <2>1 DEF Shape, TaskStates
    <2>4. Moved(t)
      BY <1>2, <2>3, GotoMoves DEF PutCache, Steps
    <2>5. QED
      BY <1>2, <2>2, <2>4 DEF PutCache, Moved
  <1>3. CASE PutDb(t)
    <2>1. task[t].ses \in SessionObjects /\ task[t].pc = "put_db"
      BY <1>1, <1>3 DEF PutDb, Shape, TaskStates
    <2>2. db' \in [Sids -> Docs \cup {NoDoc}]
      BY <1>3, <2>1, ToDictType DEF PutDb
    <2>3. Shape([task[t] EXCEPT !.pc = "put_map"])
      BY <1>1, <2>1 DEF Shape, TaskStates
    <2>4. Moved(t) /\ handed' \subseteq Tokens /\ retired' \subseteq Tokens
      <3>1. CASE HasCache
        BY <1>3, <2>3, <3>1, GotoMoves DEF PutDb, Steps
      <3>2. CASE ~HasCache
        BY <1>3, <2>1, <3>2, StoredMoves DEF PutDb
      <3>3. QED
        BY <3>1, <3>2
    <2>5. QED
      BY <1>3, <2>2, <2>4 DEF PutDb, Moved
  <1>4. CASE PutMap(t)
    <2>1. task[t].ses \in SessionObjects /\ task[t].pc = "put_map"
      BY <1>1, <1>4 DEF PutMap, Shape, TaskStates
    <2>2. rmap' \in [Tokens -> Sids \cup {NoSid}]
      BY <1>4, <2>1 DEF PutMap, SessionObjects
    <2>3. Moved(t) /\ handed' \subseteq Tokens /\ retired' \subseteq Tokens
      BY <1>4, <2>1, StoredMoves DEF PutMap
    <2>4. QED
      BY <1>4, <2>2, <2>3 DEF PutMap, Moved
  <1>5. CASE IndexUserSession(t)
    <2>1. task[t].ses \in SessionObjects /\ task[t].op = "create"
      BY <1>1, <1>5 DEF IndexUserSession, Shape, TaskStates
    <2>2. index' \in [Users -> SUBSET Sids]
      BY <1>1, <1>5, <2>1 DEF IndexUserSession, Shape, TaskStates, SessionObjects
    <2>3. Shape([task[t] EXCEPT !.pc = "limit_read"])
      BY <1>1, <2>1 DEF Shape, TaskStates
    <2>4. Moved(t)
      BY <1>5, <2>3, GotoMoves DEF IndexUserSession, Steps
    <2>5. QED
      BY <1>5, <2>2, <2>4 DEF IndexUserSession, Moved
  <1>6. QED
    BY <1>2, <1>3, <1>4, <1>5

LEMMA RevokeTyped ==
  ASSUME Typed, NEW t \in Tasks,
         LimitRead(t) \/ LimitRevoke(t) \/ RevokeDb(t) \/ AllRead(t) \/ AllRevoke(t)
  PROVE  Typed'
  <1>. USE DEF Typed, TypeOK
  <1>1. task[t] \in TaskStates /\ Shape(task[t])
    OBVIOUS
  <1>2. \A S : RevokeRows(S) \in [Sids -> Docs \cup {NoDoc}]
    BY RevokeRowsType
  <1>3. \A u : ActiveSessions(u) \in SUBSET Sids /\ Oldest(ActiveSessions(u)) \in SUBSET Sids
    BY DEF ActiveSessions, Oldest
  <1>4. CASE LimitRead(t)
    <2>1. task[t].op = "create"
      BY <1>1, <1>4 DEF LimitRead, Shape
    <2>2. Moved(t) /\ handed' \subseteq Tokens
      BY <1>3, <1>4, <2>1, EvictRestMoves DEF LimitRead
    <2>3. QED
      BY <1>4, <2>2, MovedTyped DEF shared, LimitRead
  <1>5. CASE LimitRevoke(t)
    <2>1. task[t].op = "create" /\ task[t].todo \in SUBSET Sids
      BY <1>1, <1>5 DEF LimitRevoke, Shape, TaskStates
    <2>2. PICK s \in task[t].todo :
            /\ db' = RevokeRows({s})
            /\ IF HasCache
               THEN /\ Become(t, [task[t] EXCEPT !.sid = s, !.pc = "drop_cache"])
                    /\ UNCHANGED handed
               ELSE EvictRest(t, task[t].todo \ {s})
      BY <1>5 DEF LimitRevoke
    <2>. DEFINE q == [task[t] EXCEPT !.sid = s, !.pc = "drop_cache"]
    <2>3. q \in TaskStates
      BY <1>1, <2>1 DEF TaskStates, Steps
    <2>4. Shape(q)
      BY <1>1, <2>1, NullsDiffer DEF Shape, TaskStates
    <2>5. Moved(t) /\ handed' \subseteq Tokens
      <3>1. CASE HasCache
        BY <2>2, <2>3, <2>4, <3>1, MoveTask
      <3>2. CASE ~HasCache
        BY <2>1, <2>2, <3>2, EvictRestMoves
      <3>3. QED
        BY <3>1, <3>2
    <2>6. QED
      BY <1>2, <1>5, <2>2, <2>5 DEF LimitRevoke, Moved
  <1>6. CASE RevokeDb(t)
    <2>. DEFINE q == [task[t] EXCEPT !.user = task[t].ses.user, !.pc = "drop_cache"]
    <2>1. Moved(t)
      <3>1. CASE Finish(t)
        BY <3>1, FinishMoves
      <3>2. CASE ~Finish(t)
        <4>1. Become(t, q) /\ task[t].ses # NoSession
          BY <1>6, <3>2 DEF RevokeDb
        <4>2. task[t].ses.user \in Users
          BY <1>1, <4>1 DEF TaskStates, SessionObjects
        <4>3. q \in TaskStates
          BY <1>1, <4>2 DEF TaskStates, Steps
        <4>4. Shape(q)
          BY <1>1, <1>6, <4>2, UsersAssumption DEF Shape, TaskStates, RevokeDb
        <4>5. QED
          BY <4>1, <4>3, <4>4, MoveTask
      <3>3. QED
        BY <3>1, <3>2
    <2>2. QED
      BY <1>2, <1>6, <2>1 DEF RevokeDb, Moved
  <1>7. CASE AllRead(t)
    <2>. DEFINE q == [task[t] EXCEPT !.todo = ActiveSessions(task[t].user), !.pc = "all_revoke"]
    <2>1. q \in TaskStates
      BY <1>1, <1>3 DEF TaskStates, Steps
    <2>2. Shape(q)
      BY <1>1, <1>7 DEF Shape, TaskStates, AllRead
    <2>3. QED
      BY <1>7, <2>1, <2>2, MoveTask, MovedTyped DEF shared, AllRead
  <1>8. CASE AllRevoke(t)
    <2>1. (IF HasCache THEN task[t].todo ELSE {}) \in SUBSET Sids
      BY <1>1 DEF TaskStates
    <2>2. Moved(t)
      BY <1>1, <1>8, <2>1, DropRestMoves DEF AllRevoke, Shape
    <2>3. QED
      BY <1>2, <1>8, <2>2 DEF AllRevoke, Moved
  <1>9. QED
    BY <1>4, <1>5, <1>6, <1>7, <1>8

LEMMA DropTyped ==
  ASSUME Typed, NEW t \in Tasks,
         \/ DropCache(t) \/ DropRead(t) \/ DropMap(t)
         \/ IndexRead(t) \/ IndexDelete(t) \/ IndexPush(t)
  PROVE  Typed'
  <1>. USE DEF Typed, TypeOK
  <1>1. task[t] \in TaskStates /\ Shape(task[t])
    OBVIOUS
  <1>2. CASE DropCache(t)
    <2>1. Shape([task[t] EXCEPT !.pc = "drop_read"])
      BY <1>1, <1>2 DEF Shape, TaskStates, DropCache
    <2>2. Moved(t)
      BY <1>2, <2>1, GotoMoves DEF DropCache, Steps
    <2>3. cache' \in [Sids -> Docs \cup {NoDoc}]
      BY <1>2 DEF DropCache
    <2>4. QED
      BY <1>2, <2>2, <2>3 DEF DropCache, Moved
  <1>3. CASE DropRead(t)
    <2>. DEFINE k == db[task[t].sid].tok
                q == [task[t] EXCEPT !.tok = k,
                        !.pc = IF k = NoToken THEN "index_read" ELSE "drop_map"]
    <2>1. k \in Tokens \cup {NoToken}
      BY <1>1, <1>3 DEF DropRead, TaskStates, Docs, NoDoc, Shape
    <2>2. q \in TaskStates
      BY <1>1, <2>1, ZenonT(30) DEF TaskStates, Steps
    <2>3. Shape(q)
      BY <1>1, <1>3, <2>1 DEF Shape, TaskStates, DropRead
    <2>4. QED
      BY <1>3, <2>2, <2>3, MoveTask, MovedTyped DEF shared, DropRead
  <1>4. CASE DropMap(t)
    <2>1. Shape([task[t] EXCEPT !.pc = "index_read"])
      BY <1>1, <1>4 DEF Shape, TaskStates, DropMap
    <2>2. Moved(t)
      BY <1>4, <2>1, GotoMoves DEF DropMap, Steps
    <2>3. rmap' \in [Tokens -> Sids \cup {NoSid}]
      BY <1>4 DEF DropMap
    <2>4. QED
      BY <1>4, <2>2, <2>3 DEF DropMap, Moved
  <1>5. CASE IndexRead(t)
    <2>. DEFINE S == index[task[t].user] \ {task[t].sid}
                q == [task[t] EXCEPT !.keep = S, !.pc = "index_delete"]
    <2>1. S \in SUBSET Sids
      BY <1>1, <1>5 DEF IndexRead, TaskStates, Shape
    <2>2. q \in TaskStates
      BY <1>1, <2>1 DEF TaskStates, Steps
    <2>3. Shape(q)
      BY <1>1, <1>5 DEF Shape, TaskStates, IndexRead
    <2>4. QED
      BY <1>5, <2>2, <2>3, MoveTask, MovedTyped DEF shared, IndexRead
  <1>6. CASE IndexDelete(t)
    <2>1. index' \in [Users -> SUBSET Sids]
      BY <1>6 DEF IndexDelete
    <2>2. Shape([task[t] EXCEPT !.pc = "index_push"])
      BY <1>1, <1>6 DEF Shape, TaskStates, IndexDelete
    <2>3. Moved(t) /\ handed' \subseteq Tokens
      BY <1>6, <2>2, DroppedMoves, GotoMoves DEF IndexDelete, Steps
    <2>4. QED
      BY <1>6, <2>1, <2>3 DEF IndexDelete, Moved
  <1>7. CASE IndexPush(t)
    <2>1. task[t].keep \in SUBSET Sids
      BY <1>1 DEF TaskStates
    <2>2. index' \in [Users -> SUBSET Sids]
      BY <1>7, <2>1 DEF IndexPush
    <2>3. Moved(t) /\ handed' \subseteq Tokens
      BY <1>7, DroppedMoves DEF IndexPush
    <2>4. QED
      BY <1>7, <2>2, <2>3 DEF IndexPush, Moved
  <1>8. QED
    BY <1>2, <1>3, <1>4, <1>5, <1>6, <1>7

LEMMA EnvironmentTyped ==
  ASSUME Typed, Environment
  PROVE  Typed'
  <1>. USE DEF Typed, TypeOK
  <1>1. ASSUME NEW s \in Sids, CacheLoseSession(s)
        PROVE  Typed'
    BY <1>1 DEF CacheLoseSession
  <1>2. ASSUME NEW k \in Tokens, CacheLoseMap(k)
        PROVE  Typed'
    BY <1>2 DEF CacheLoseMap
  <1>3. ASSUME NEW t \in Tasks, Fail(t)
        PROVE  Typed'
    <2>1. Moved(t)
      BY <1>3, FinishMoves DEF Fail
    <2>2. QED
      BY <1>3, <2>1 DEF Fail, Moved
  <1>4. CASE Tick
    BY <1>4 DEF Tick
  <1>5. QED
    BY <1>1, <1>2, <1>3, <1>4 DEF Environment

LEMMA TypedNext ==
  ASSUME Typed, OwnedTokens, [Next]_vars
  PROVE  Typed'
  <1>1. ASSUME NEW t \in Tasks, Call(t)
        PROVE  Typed'
    BY <1>1, CreateSessionTyped, CallTyped DEF Call
  <1>2. ASSUME NEW t \in Tasks, Step(t)
        PROVE  Typed'
    BY <1>2, ResolveTyped, GetTyped, RotateTyped, PutTyped, RevokeTyped, DropTyped DEF Step, Resolve
  <1>3. CASE UNCHANGED vars
    BY <1>3 DEF vars, Typed, TypeOK
  <1>4. QED
    BY <1>1, <1>2, <1>3, EnvironmentTyped DEF Next
-----------------------------------------------------------------------------
(* Ownership *)

(* An id once drawn keeps its user, a token once drawn keeps its session. *)
Grows == /\ \A s \in Sids : owner[s] # NoUser => owner'[s] = owner[s]
         /\ \A k \in Tokens : minted[k] # NoSid => minted'[k] = minted[k]

LEMMA OwnCopyStable ==
  ASSUME Typed, Grows, NEW s \in Sids, NEW d, d.user \in Users, d.tok \in Tokens,
         OwnCopy(s, d)
  PROVE  OwnCopy(s, d)'
  BY UsersAssumption, NullsDiffer DEF Grows, OwnCopy

LEMMA OwnedLocalsStable ==
  ASSUME Typed, OwnedTokens, Grows, NEW r \in TaskStates, Shape(r), OwnedLocals(r)
  PROVE  OwnedLocals(r)'
  <1>1. r.ses # NoSession => OwnCopy(r.ses.sid, r.ses)'
    <2>1. r.ses \in SessionObjects \cup {NoSession}
      BY DEF TaskStates
    <2>2. ASSUME r.ses # NoSession
          PROVE  r.ses.sid \in Sids /\ r.ses.user \in Users /\ r.ses.tok \in Tokens
      BY <2>1, <2>2 DEF SessionObjects
    <2>3. QED
      BY <2>2, OwnCopyStable DEF OwnedLocals
  <1>2. ASSUME r.op = "refresh"
        PROVE  minted'[r.tok] = minted[r.tok] /\ owner'[minted[r.tok]] = owner[minted[r.tok]]
    <2>1. r.tok \in Tokens /\ minted[r.tok] # NoSid
      BY <1>2 DEF Shape, TaskStates, OwnedLocals
    <2>2. minted[r.tok] \in Sids /\ owner[minted[r.tok]] # NoUser
      BY <2>1 DEF Typed, TypeOK, OwnedTokens
    <2>3. QED
      BY <2>1, <2>2 DEF Grows
  <1>3. QED
    BY <1>1, <1>2 DEF OwnedLocals

(* What a step of coroutine t has to show: only its own locals and the copies *)
(* and entries it writes are new.                                            *)
LEMMA OwnedStep ==
  ASSUME Typed, Owned, Grows, NEW t \in Tasks,
         \A r \in Tasks \ {t} : task'[r] = task[r],
         OwnedLocals(task[t])',
         \A s \in Sids : cache'[s] \in {cache[s], NoDoc} \/ OwnCopy(s, cache[s])',
         \A s \in Sids : db'[s] = db[s] \/ OwnCopy(s, db[s])',
         \A k \in Tokens : rmap'[k] \in {rmap[k], NoSid, minted'[k]},
         \A k \in Tokens : minted'[k] # NoSid => owner'[minted'[k]] # NoUser,
         \A k \in handed' : minted'[k] # NoSid
  PROVE  Owned'
  <1>1. OwnedStores'
    <2>1. ASSUME NEW s \in Sids, NEW d \in Docs, OwnCopy(s, d)
          PROVE  OwnCopy(s, d)'
      BY <2>1, OwnCopyStable DEF Docs
    <2>2. ASSUME NEW s \in Sids, cache'[s] # NoDoc
          PROVE  OwnCopy(s, cache[s])'
      <3>1. CASE cache'[s] = cache[s]
        <4>1. cache[s] \in Docs /\ OwnCopy(s, cache[s])
          BY <2>2, <3>1 DEF Owned, OwnedStores, Typed, TypeOK
        <4>2. QED
          BY <2>1, <3>1, <4>1 DEF OwnCopy
      <3>2. QED
        BY <2>2, <3>1
    <2>3. ASSUME NEW s \in Sids, db'[s] # NoDoc
          PROVE  OwnCopy(s, db[s])'
      <3>1. CASE db'[s] = db[s]
        <4>1. db[s] \in Docs /\ OwnCopy(s, db[s])
          BY <2>3, <3>1 DEF Owned, OwnedStores, Typed, TypeOK
        <4>2. QED
          BY <2>1, <3>1, <4>1 DEF OwnCopy
      <3>2. QED
        BY <2>3, <3>1
    <2>4. QED
      BY <2>2, <2>3 DEF OwnedStores
  <1>2. OwnedTokens'
    <2>1. ASSUME NEW k \in Tokens
          PROVE  rmap'[k] \in {NoSid, minted'[k]}
      <3>1. rmap[k] \in {NoSid, minted[k]}
        BY DEF Owned, OwnedTokens
      <3>2. QED
        BY <3>1 DEF Grows
    <2>2. QED
      BY <2>1 DEF OwnedTokens
  <1>3. ASSUME NEW r \in Tasks
        PROVE  OwnedLocals(task[r])'
    <2>1. CASE r = t
      BY <2>1
    <2>2. CASE r # t
      <3>1. task[r] \in TaskStates /\ Shape(task[r]) /\ OwnedLocals(task[r])
        BY DEF Typed, TypeOK, Owned
      <3>2. OwnedLocals(task[r]) => OwnedLocals(task'[r])
        BY <2>2
      <3>3. QED
        BY <2>2, <3>1, OwnedLocalsStable DEF Owned, OwnedLocals, OwnCopy
    <2>3. QED
      BY <2>1, <2>2
  <1>4. QED
    BY <1>1, <1>2, <1>3 DEF Owned

LEMMA Became ==
  ASSUME Typed, NEW t \in Tasks, NEW q, Become(t, q)
  PROVE  task'[t] = q /\ \A r \in Tasks \ {t} : task'[r] = task[r]
  BY DEF Typed, TypeOK, Become

LEMMA OwnedLocalsMove ==
  ASSUME Typed, NEW t \in Tasks, NEW q, Become(t, q), OwnedLocals(q),
         UNCHANGED <<owner, minted>>
  PROVE  OwnedLocals(task[t])' /\ \A r \in Tasks \ {t} : task'[r] = task[r]
  BY Became DEF OwnedLocals, OwnCopy

LEMMA OwnedIdle == OwnedLocals(Idle)
  BY DEF OwnedLocals, Idle

LEMMA OwnedGoto ==
  ASSUME Typed, Owned, NEW t \in Tasks, NEW step \in Steps \ {"recache"}
  PROVE  OwnedLocals([task[t] EXCEPT !.pc = step])
  <1>1. task[t] \in TaskStates /\ OwnedLocals(task[t])
    BY DEF Typed, TypeOK, Owned
  <1>2. QED
    BY <1>1 DEF OwnedLocals, TaskStates

(* A step that writes no session, no row and no ledger entry. *)
LEMMA OwnedQuiet ==
  ASSUME Typed, Owned, NEW t \in Tasks, NEW q, Become(t, q), OwnedLocals(q),
         UNCHANGED <<owner, minted, cache, rmap, db, handed>>
  PROVE  Owned'
  <1>1. Grows
    BY DEF Grows
  <1>2. OwnedLocals(task[t])' /\ \A r \in Tasks \ {t} : task'[r] = task[r]
    BY OwnedLocalsMove
  <1>3. QED
    BY <1>1, <1>2, OwnedStep DEF Owned, OwnedTokens

LEMMA CreateSessionOwned ==
  ASSUME Typed, Owned, NEW t \in Tasks, NEW u \in Users, CreateSession(t, u)
  PROVE  Owned'
  <1>1. PICK s \in Fresh(MaxSid, owner, NoUser), k \in Fresh(MaxToken, minted, NoSid) :
          /\ owner' = [owner EXCEPT ![s] = u]
          /\ minted' = [minted EXCEPT ![k] = s]
          /\ Become(t, [Idle EXCEPT !.op = "create", !.pc = PutStart, !.user = u,
                   !.sid = s,
                   !.ses = [sid |-> s, user |-> u, tok |-> k,
                            exp |-> now + Lifetime, revoked |-> FALSE]])
    BY DEF CreateSession
  <1>. DEFINE x == [sid |-> s, user |-> u, tok |-> k, exp |-> now + Lifetime, revoked |-> FALSE]
              q == [Idle EXCEPT !.op = "create", !.pc = PutStart, !.user = u,
                                !.sid = s, !.ses = x]
  <1>2. s \in Sids /\ k \in Tokens /\ owner[s] = NoUser /\ minted[k] = NoSid
    BY FreshIn DEF Sids, Tokens
  <1>3. owner'[s] = u /\ minted'[k] = s /\ Grows
    BY <1>1, <1>2 DEF Typed, TypeOK, Grows
  <1>4. task'[t] = q /\ \A r \in Tasks \ {t} : task'[r] = task[r]
    BY <1>1, Became
  <1>5. q.op = "create" /\ q.pc # "recache" /\ q.ses = x
    BY DEF Idle, PutStart
  <1>6. OwnedLocals(task[t])'
    BY <1>3, <1>4, <1>5 DEF OwnedLocals, OwnCopy
  <1>7. \A j \in Tokens : minted'[j] # NoSid => owner'[minted'[j]] # NoUser
    <2>1. ASSUME NEW j \in Tokens, j # k, minted'[j] # NoSid
          PROVE  owner'[minted'[j]] # NoUser
      <3>1. minted'[j] = minted[j] /\ minted[j] \in Sids /\ owner[minted[j]] # NoUser
        BY <1>1, <2>1 DEF Typed, TypeOK, Owned, OwnedTokens
      <3>2. QED
        BY <1>3, <3>1 DEF Grows
    <2>2. QED
      BY <1>3, <2>1, UsersAssumption
  <1>8. \A j \in handed' : minted'[j] # NoSid
    BY <1>3 DEF CreateSession, Grows, Owned, OwnedTokens, Typed, TypeOK
  <1>9. UNCHANGED <<cache, rmap, db>>
    BY DEF CreateSession
  <1>10. QED
    BY <1>3, <1>4, <1>6, <1>7, <1>8, <1>9, OwnedStep

LEMMA CallOwned ==
  ASSUME Typed, Owned, NEW t \in Tasks,
         \/ \E u \in Users : RevokeAllUserSessions(t, u) \/ ResetPassword(t, u)
         \/ \E k \in Tokens : ValidateSession(t, k) \/ RefreshSession(t, k)
         \/ \E s \in Sids : RevokeSession(t, s)
  PROVE  Owned'
  <1>1. UNCHANGED <<owner, minted, cache, rmap, db, handed>>
    BY DEF RevokeAllUserSessions, ResetPassword, ValidateSession, RefreshSession,
           RevokeSession, shared
  <1>2. ASSUME NEW u \in Users, RevokeAllUserSessions(t, u)
        PROVE  Owned'
    <2>. DEFINE q == [Idle EXCEPT !.op = "revokeAll", !.pc = "all_read", !.user = u]
    <2>1. OwnedLocals(q)
      BY <1>2 DEF RevokeAllUserSessions, OwnedLocals, Idle, GetStart, ResolveStart
    <2>2. QED
      BY <1>1, <1>2, <2>1, OwnedQuiet DEF RevokeAllUserSessions
  <1>3. ASSUME NEW u \in Users, ResetPassword(t, u)
        PROVE  Owned'
    <2>. DEFINE q == [Idle EXCEPT !.op = "reset", !.pc = "all_revoke", !.user = u]
    <2>1. OwnedLocals(q)
      BY <1>3 DEF ResetPassword, OwnedLocals, Idle, GetStart, ResolveStart
    <2>2. QED
      BY <1>1, <1>3, <2>1, OwnedQuiet DEF ResetPassword
  <1>4. ASSUME NEW k \in Tokens, ValidateSession(t, k)
        PROVE  Owned'
    <2>. DEFINE q == [Idle EXCEPT !.op = "validate", !.pc = GetStart,
                                  !.user = owner[minted[k]], !.sid = minted[k]]
    <2>1. OwnedLocals(q)
      BY <1>4 DEF ValidateSession, OwnedLocals, Idle, GetStart, ResolveStart
    <2>2. QED
      BY <1>1, <1>4, <2>1, OwnedQuiet DEF ValidateSession
  <1>5. ASSUME NEW k \in Tokens, RefreshSession(t, k)
        PROVE  Owned'
    <2>. DEFINE q == [Idle EXCEPT !.op = "refresh", !.pc = ResolveStart,
                                  !.user = owner[minted[k]], !.tok = k]
    <2>1. OwnedLocals(q)
      BY <1>5 DEF RefreshSession, Owned, OwnedTokens, OwnedLocals, Idle, GetStart, ResolveStart
    <2>2. QED
      BY <1>1, <1>5, <2>1, OwnedQuiet DEF RefreshSession
  <1>6. ASSUME NEW s \in Sids, RevokeSession(t, s)
        PROVE  Owned'
    <2>. DEFINE q == [Idle EXCEPT !.op = "revoke", !.pc = GetStart, !.sid = s]
    <2>1. OwnedLocals(q)
      BY <1>6 DEF RevokeSession, OwnedLocals, Idle, GetStart, ResolveStart
    <2>2. QED
      BY <1>1, <1>6, <2>1, OwnedQuiet DEF RevokeSession
  <1>7. QED
    BY <1>2, <1>3, <1>4, <1>5, <1>6

LEMMA ResolveOwned ==
  ASSUME Typed, Owned, NEW t \in Tasks, ResolveFromMap(t) \/ ResolveFromDb(t)
  PROVE  Owned'
  <1>1. task[t] \in TaskStates /\ Shape(task[t]) /\ OwnedLocals(task[t])
    BY DEF Typed, TypeOK, Owned
  <1>2. UNCHANGED <<owner, minted, cache, rmap, db, handed>>
    BY DEF ResolveFromMap, ResolveFromDb, shared
  <1>3. CASE Finish(t)
    BY <1>2, <1>3, OwnedIdle, OwnedQuiet DEF Finish
  <1>4. CASE ResolveFromMap(t) /\ ~Finish(t)
    <2>. DEFINE s == rmap[task[t].tok]
                q == [task[t] EXCEPT !.sid = s, !.pc = "get_cache"]
    <2>1. Become(t, q) /\ s # NoSid
      BY <1>4 DEF ResolveFromMap
    <2>2. task[t].op = "refresh" /\ task[t].tok \in Tokens
      BY <1>1, <1>4 DEF ResolveFromMap, Shape, TaskStates
    <2>3. s = minted[task[t].tok]
      BY <2>1, <2>2 DEF Owned, OwnedTokens
    <2>4. task[t].ses # NoSession => task[t].ses.sid = s
      BY <1>1, <2>2, <2>3, NullsDiffer DEF OwnedLocals, TaskStates, SessionObjects
    <2>5. OwnedLocals(q)
      BY <1>1, <2>2, <2>3, <2>4 DEF OwnedLocals, TaskStates
    <2>6. QED
      BY <1>2, <2>1, <2>5, OwnedQuiet
  <1>5. CASE ResolveFromDb(t) /\ ~Finish(t)
    <2>1. PICK s \in ActiveSessions(task[t].user) :
             /\ Become(t, [task[t] EXCEPT !.sid = s, !.pc = "rotate", !.ses = FromDict(db[s])])
             /\ db[s].tok = task[t].tok
      BY <1>5 DEF ResolveFromDb
    <2>. DEFINE q == [task[t] EXCEPT !.sid = s, !.pc = "rotate", !.ses = FromDict(db[s])]
    <2>2. s \in Sids /\ db[s] \in Docs /\ OwnCopy(s, db[s])
      BY DEF ActiveSessions, NoDoc, Typed, TypeOK, Owned, OwnedStores
    <2>3. /\ OwnCopy(FromDict(db[s]).sid, FromDict(db[s]))
          /\ FromDict(db[s]).sid = s /\ FromDict(db[s]).tok = task[t].tok
      BY <2>1, <2>2 DEF FromDict, OwnCopy
    <2>4. task[t].op = "refresh" /\ minted[task[t].tok] = s
      BY <1>1, <1>5, <2>1, <2>2 DEF ResolveFromDb, Shape, OwnCopy
    <2>5. OwnedLocals(q)
      BY <1>1, <2>3, <2>4 DEF OwnedLocals, TaskStates
    <2>6. QED
      BY <1>2, <2>1, <2>5, OwnedQuiet
  <1>6. QED
    BY <1>3, <1>4, <1>5

(* What _get_session found, for its caller, is the session it looked for. *)
LEMMA GotOwned ==
  ASSUME Typed, Owned, NEW t \in Tasks, NEW x \in SessionObjects \cup {NoSession},
         x # NoSession => OwnCopy(x.sid, x) /\ x.sid = task[t].sid,
         Got(t, x)
  PROVE  \E q \in TaskStates : Become(t, q) /\ OwnedLocals(q)
  <1>1. task[t] \in TaskStates /\ OwnedLocals(task[t])
    BY DEF Typed, TypeOK, Owned
  <1>2. CASE Finish(t)
    BY <1>2, OwnedIdle, IdleType DEF Finish
  <1>3. CASE GotForValidate(t, x) /\ ~Finish(t)
    <2>. DEFINE q == [Idle EXCEPT !.op = "touch", !.pc = GetStart, !.sid = x.sid]
    <2>1. Become(t, q) /\ x # NoSession
      BY <1>3 DEF GotForValidate, Refreshable
    <2>2. x.sid \in Sids
      BY <2>1 DEF SessionObjects
    <2>3. q \in TaskStates
      BY <2>2 DEF Idle, TaskStates, AllOps, Steps, GetStart
    <2>4. OwnedLocals(q)
      BY DEF OwnedLocals, Idle, GetStart
    <2>5. QED
      BY <2>1, <2>3, <2>4
  <1>4. CASE ~GotForValidate(t, x) /\ ~Finish(t)
    <2>1. PICK step \in {"put_cache", "put_db", "rotate", "revoke_db"} :
               Become(t, [task[t] EXCEPT !.ses = x, !.pc = step])
      BY <1>4 DEF Got, GotForTouch, GotForRefresh, GotForRevoke, PutStart
    <2>. DEFINE q == [task[t] EXCEPT !.ses = x, !.pc = step]
    <2>2. q \in TaskStates
      BY <1>1 DEF TaskStates, Steps
    <2>3. OwnedLocals(q)
      BY <1>1 DEF OwnedLocals, TaskStates
    <2>4. QED
      BY <2>1, <2>2, <2>3
  <1>5. QED
    BY <1>2, <1>3, <1>4

LEMMA CopyOfDoc ==
  ASSUME NEW s, NEW d, OwnCopy(s, d)
  PROVE  FromDict(d).sid = s /\ OwnCopy(FromDict(d).sid, FromDict(d))
  BY DEF FromDict, OwnCopy

LEMMA DocOfCopy ==
  ASSUME NEW x, OwnCopy(x.sid, x)
  PROVE  OwnCopy(x.sid, ToDict(x))
  BY DEF ToDict, OwnCopy

LEMMA GetOwned ==
  ASSUME Typed, Owned, NEW t \in Tasks, GetFromCache(t) \/ GetFromDb(t) \/ Recache(t)
  PROVE  Owned'
  <1>1. /\ task[t] \in TaskStates /\ Shape(task[t]) /\ OwnedLocals(task[t])
        /\ cache \in [Sids -> Docs \cup {NoDoc}] /\ db \in [Sids -> Docs \cup {NoDoc}]
    BY DEF Typed, TypeOK, Owned
  <1>2. task[t].sid \in Sids
    BY <1>1 DEF GetFromCache, GetFromDb, Recache, Shape, TaskStates
  <1>3. CASE GetFromCache(t)
    <2>. DEFINE d == cache[task[t].sid]
    <2>1. UNCHANGED <<owner, minted, cache, rmap, db, handed>>
      BY <1>3 DEF GetFromCache, shared
    <2>2. CASE d = NoDoc
      <3>1. Goto(t, "get_db")
        BY <1>3, <2>2 DEF GetFromCache
      <3>2. QED
        BY <2>1, <3>1, OwnedGoto, OwnedQuiet DEF Goto, Steps
    <2>3. CASE d # NoDoc
      <3>1. d \in Docs /\ OwnCopy(task[t].sid, d)
        BY <1>1, <1>2, <2>3 DEF Owned, OwnedStores
      <3>2. \E q \in TaskStates : Become(t, q) /\ OwnedLocals(q)
        BY <1>3, <2>3, <3>1, FromDictType, CopyOfDoc, GotOwned DEF GetFromCache
      <3>3. QED
        BY <2>1, <3>2, OwnedQuiet
    <2>4. QED
      BY <2>2, <2>3
  <1>4. CASE GetFromDb(t)
    <2>. DEFINE d == db[task[t].sid]
    <2>1. UNCHANGED <<owner, minted, cache, rmap, db, handed>>
      BY <1>4 DEF GetFromDb, shared
    <2>2. CASE d = NoDoc
      <3>1. Got(t, NoSession)
        BY <1>4, <2>2 DEF GetFromDb
      <3>2. QED
        BY <2>1, <3>1, GotOwned, OwnedQuiet
    <2>3. CASE d # NoDoc
      <3>1. d \in Docs /\ OwnCopy(task[t].sid, d)
        BY <1>1, <1>2, <2>3 DEF Owned, OwnedStores
      <3>2. /\ FromDict(d) \in SessionObjects /\ FromDict(d).sid = task[t].sid
            /\ OwnCopy(FromDict(d).sid, FromDict(d))
        BY <3>1, FromDictType, CopyOfDoc
      <3>3. CASE Got(t, FromDict(d))
        BY <2>1, <3>2, <3>3, GotOwned, OwnedQuiet
      <3>4. CASE Become(t, [task[t] EXCEPT !.ses = FromDict(d), !.pc = "recache"])
        <4>. DEFINE q == [task[t] EXCEPT !.ses = FromDict(d), !.pc = "recache"]
        <4>1. OwnedLocals(q)
          BY <1>1, <3>2 DEF OwnedLocals, TaskStates
        <4>2. QED
          BY <2>1, <3>4, <4>1, OwnedQuiet
      <3>5. QED
        BY <1>4, <2>3, <3>3, <3>4 DEF GetFromDb
    <2>4. QED
      BY <2>2, <2>3
  <1>5. CASE Recache(t)
    <2>. DEFINE x == task[t].ses
    <2>1. /\ x \in SessionObjects /\ x # NoSession /\ OwnCopy(x.sid, x)
          /\ x.sid = task[t].sid
      BY <1>1, <1>5 DEF Recache, Shape, TaskStates, OwnedLocals
    <2>2. UNCHANGED <<owner, minted, rmap, db, handed>>
      BY <1>5 DEF Recache
    <2>3. \E q \in TaskStates : Become(t, q) /\ OwnedLocals(q)
      BY <1>5, <2>1, GotOwned DEF Recache
    <2>4. OwnedLocals(task[t])' /\ \A r \in Tasks \ {t} : task'[r] = task[r]
      BY <2>2, <2>3, OwnedLocalsMove
    <2>5. OwnCopy(x.sid, ToDict(x))
      BY <2>1, DocOfCopy
    <2>6. ASSUME NEW s \in Sids
          PROVE  cache'[s] \in {cache[s], NoDoc} \/ OwnCopy(s, cache[s])'
      BY <1>1, <1>5, <2>1, <2>2, <2>5 DEF Recache, OwnCopy
    <2>7. QED
      BY <2>2, <2>4, <2>6, OwnedStep DEF Grows, Owned, OwnedTokens
  <1>6. QED
    BY <1>3, <1>4, <1>5

LEMMA RotateOwned ==
  ASSUME Typed, Owned, NEW t \in Tasks, Rotate(t)
  PROVE  Owned'
  <1>1. /\ task[t] \in TaskStates /\ Shape(task[t]) /\ OwnedLocals(task[t])
        /\ task[t].pc = "rotate" /\ minted \in [Tokens -> Sids \cup {NoSid}]
    BY DEF Typed, TypeOK, Owned, Rotate
  <1>2. PICK k \in Fresh(MaxToken, minted, NoSid) :
          /\ minted' = [minted EXCEPT ![k] = task[t].ses.sid]
          /\ Become(t, [task[t] EXCEPT !.pc = PutStart,
                   !.ses = [@ EXCEPT !.tok = k, !.exp = now + Lifetime]])
    BY DEF Rotate
  <1>. DEFINE x == task[t].ses
              y == [x EXCEPT !.tok = k, !.exp = now + Lifetime]
              q == [task[t] EXCEPT !.pc = PutStart, !.ses = y]
  <1>3. k \in Tokens /\ minted[k] = NoSid
    BY FreshIn DEF Tokens
  <1>4. x \in SessionObjects /\ OwnCopy(x.sid, x) /\ x.sid \in Sids
    BY <1>1 DEF Shape, TaskStates, OwnedLocals, SessionObjects
  <1>5. y.sid = x.sid /\ y.user = x.user /\ y.tok = k
    BY <1>4 DEF SessionObjects
  <1>6. UNCHANGED <<owner, cache, db, handed>> /\ Grows /\ minted'[k] = x.sid
    BY <1>1, <1>2, <1>3 DEF Rotate, Grows
  <1>7. task'[t] = q /\ \A r \in Tasks \ {t} : task'[r] = task[r]
    BY <1>2, Became
  <1>8. OwnedLocals(task[t])'
    <2>1. /\ task[t].op = "refresh" /\ task[t].tok \in Tokens
          /\ minted[task[t].tok] \in Sids /\ minted'[task[t].tok] = minted[task[t].tok]
      BY <1>1, <1>6 DEF Shape, TaskStates, OwnedLocals, Grows
    <2>2. x # NoSession /\ x.sid = task[t].sid
      BY <1>1, <2>1 DEF Shape, OwnedLocals
    <2>3. /\ task'[t].op = "refresh" /\ task'[t].tok = task[t].tok
          /\ task'[t].user = task[t].user /\ task'[t].sid = task[t].sid
          /\ task'[t].ses = y /\ task'[t].pc # "recache"
      BY <1>1, <1>7, <2>1 DEF TaskStates, PutStart
    <2>4. /\ task'[t].ses.sid = task[t].sid
          /\ task'[t].ses.user = owner'[task[t].sid]
          /\ minted'[task'[t].ses.tok] = task[t].sid
      BY <1>4, <1>5, <1>6, <2>2, <2>3 DEF OwnCopy
    <2>5. /\ minted[task[t].tok] # NoSid /\ task[t].user = owner[minted[task[t].tok]]
          /\ task[t].sid \in {NoSid, minted[task[t].tok]}
      BY <1>1, <2>1 DEF OwnedLocals
    <2>. HIDE DEF q, x, y
    <2>6. QED
      BY <1>6, <2>1, <2>3, <2>4, <2>5 DEF OwnedLocals, OwnCopy
  <1>9. \A j \in Tokens : minted'[j] # NoSid => owner'[minted'[j]] # NoUser
    <2>1. owner[x.sid] # NoUser
      BY <1>4, UsersAssumption DEF OwnCopy, SessionObjects
    <2>2. QED
      BY <1>1, <1>2, <1>6, <2>1 DEF Owned, OwnedTokens
  <1>10. \A j \in handed' : minted'[j] # NoSid
    BY <1>6 DEF Grows, Owned, OwnedTokens, Typed, TypeOK
  <1>11. \A j \in Tokens : rmap'[j] \in {rmap[j], NoSid}
    BY DEF Rotate, Typed, TypeOK
  <1>12. QED
    BY <1>6, <1>7, <1>8, <1>9, <1>10, <1>11, OwnedStep

(* The session a coroutine holds while it stores it. *)
LEMMA HeldSession ==
  ASSUME Typed, Owned, NEW t \in Tasks,
         task[t].pc \in {"put_cache", "put_db", "put_map"} \/ task[t].op = "create"
  PROVE  /\ task[t].ses \in SessionObjects /\ task[t].ses.tok \in Tokens
         /\ task[t].ses.sid \in Sids /\ OwnCopy(task[t].ses.sid, task[t].ses)
  <1>1. task[t] \in TaskStates /\ Shape(task[t]) /\ OwnedLocals(task[t])
    BY DEF Typed, TypeOK, Owned
  <1>2. QED
    BY <1>1 DEF Shape, TaskStates, OwnedLocals, SessionObjects

LEMMA StoredOwned ==
  ASSUME Typed, Owned, NEW t \in Tasks, Stored(t), task[t].pc \in {"put_db", "put_map"},
         UNCHANGED <<owner, minted>>
  PROVE  /\ OwnedLocals(task[t])' /\ \A r \in Tasks \ {t} : task'[r] = task[r]
         /\ \A k \in handed' : minted'[k] # NoSid
  <1>1. /\ task[t].ses.tok \in Tokens /\ task[t].ses.sid \in Sids
        /\ minted[task[t].ses.tok] = task[t].ses.sid
    BY HeldSession DEF OwnCopy
  <1>2. \A k \in handed' : minted'[k] # NoSid
    BY <1>1, NullsDiffer DEF Stored, Owned, OwnedTokens
  <1>3. OwnedLocals(task[t])' /\ \A r \in Tasks \ {t} : task'[r] = task[r]
    <2>1. CASE Finish(t)
      BY <2>1, OwnedIdle, OwnedLocalsMove DEF Finish
    <2>2. CASE Goto(t, IF HasCache THEN "index" ELSE "limit_read")
      <3>. DEFINE step == IF HasCache THEN "index" ELSE "limit_read"
      <3>1. step \in Steps \ {"recache"}
        BY DEF Steps
      <3>2. QED
        BY <2>2, <3>1, OwnedGoto, OwnedLocalsMove DEF Goto
    <2>3. QED
      BY <2>1, <2>2 DEF Stored
  <1>4. QED
    BY <1>2, <1>3

LEMMA PutOwned ==
  ASSUME Typed, Owned, NEW t \in Tasks,
         PutCache(t) \/ PutDb(t) \/ PutMap(t) \/ IndexUserSession(t)
  PROVE  Owned'
  <1>. DEFINE x == task[t].ses
  <1>1. UNCHANGED <<owner, minted>> /\ Grows
    BY DEF PutCache, PutDb, PutMap, IndexUserSession, Grows
  <1>2. CASE PutCache(t)
    <2>1. x.sid \in Sids /\ OwnCopy(x.sid, ToDict(x))
      BY <1>2, HeldSession, DocOfCopy DEF PutCache
    <2>2. ASSUME NEW s \in Sids
          PROVE  cache'[s] \in {cache[s], NoDoc} \/ OwnCopy(s, cache[s])'
      BY <1>1, <1>2, <2>1 DEF PutCache, OwnCopy, Typed, TypeOK
    <2>3. OwnedLocals(task[t])' /\ \A r \in Tasks \ {t} : task'[r] = task[r]
      BY <1>1, <1>2, OwnedGoto, OwnedLocalsMove DEF PutCache, Goto, Steps
    <2>4. QED
      BY <1>1, <1>2, <2>2, <2>3, OwnedStep DEF PutCache, Owned, OwnedTokens
  <1>3. CASE PutDb(t)
    <2>1. x.sid \in Sids /\ OwnCopy(x.sid, ToDict(x))
      BY <1>3, HeldSession, DocOfCopy DEF PutDb
    <2>2. ASSUME NEW s \in Sids
          PROVE  db'[s] = db[s] \/ OwnCopy(s, db[s])'
      BY <1>1, <1>3, <2>1 DEF PutDb, OwnCopy, Typed, TypeOK
    <2>3. /\ OwnedLocals(task[t])' /\ \A r \in Tasks \ {t} : task'[r] = task[r]
          /\ \A k \in handed' : minted'[k] # NoSid
      <3>1. CASE Stored(t)
        BY <1>1, <1>3, <3>1, StoredOwned DEF PutDb
      <3>2. CASE Goto(t, "put_map") /\ UNCHANGED handed
        BY <1>1, <3>2, OwnedGoto, OwnedLocalsMove DEF Goto, Steps, Owned, OwnedTokens
      <3>3. QED
        BY <1>3, <3>1, <3>2 DEF PutDb
    <2>4. QED
      BY <1>1, <1>3, <2>2, <2>3, OwnedStep DEF PutDb, Owned, OwnedTokens
  <1>4. CASE PutMap(t)
    <2>1. x.tok \in Tokens /\ minted[x.tok] = x.sid
      BY <1>4, HeldSession DEF PutMap, OwnCopy
    <2>2. ASSUME NEW k \in Tokens
          PROVE  rmap'[k] \in {rmap[k], NoSid, minted'[k]}
      BY <1>1, <1>4, <2>1 DEF PutMap, Typed, TypeOK
    <2>3. /\ OwnedLocals(task[t])' /\ \A r \in Tasks \ {t} : task'[r] = task[r]
          /\ \A k \in handed' : minted'[k] # NoSid
      BY <1>1, <1>4, StoredOwned DEF PutMap
    <2>4. QED
      BY <1>1, <1>4, <2>2, <2>3, OwnedStep DEF PutMap, Owned, OwnedTokens
  <1>5. CASE IndexUserSession(t)
    BY <1>5, OwnedGoto, OwnedQuiet DEF IndexUserSession, Goto, Steps
  <1>6. QED
    BY <1>2, <1>3, <1>4, <1>5

LEMMA OwnedEvictRest ==
  ASSUME Typed, Owned, NEW t \in Tasks, NEW rest, EvictRest(t, rest),
         task[t].op = "create", UNCHANGED <<owner, minted>>
  PROVE  /\ OwnedLocals(task[t])' /\ \A r \in Tasks \ {t} : task'[r] = task[r]
         /\ \A k \in handed' : minted'[k] # NoSid
  <1>1. task[t] \in TaskStates /\ OwnedLocals(task[t])
    BY DEF Typed, TypeOK, Owned
  <1>2. \A k \in handed' : minted'[k] # NoSid
    BY HeldSession, NullsDiffer DEF EvictRest, OwnCopy, Owned, OwnedTokens
  <1>3. CASE Finish(t)
    BY <1>2, <1>3, OwnedIdle, OwnedLocalsMove DEF Finish
  <1>4. CASE Become(t, [task[t] EXCEPT !.todo = rest, !.pc = "limit_revoke"])
    <2>1. OwnedLocals([task[t] EXCEPT !.todo = rest, !.pc = "limit_revoke"])
      BY <1>1 DEF OwnedLocals, TaskStates
    <2>2. QED
      BY <1>2, <1>4, <2>1, OwnedLocalsMove
  <1>5. QED
    BY <1>3, <1>4 DEF EvictRest

LEMMA OwnedDropRest ==
  ASSUME Typed, Owned, NEW t \in Tasks, NEW rest, DropRest(t, rest),
         task[t].op # "refresh", UNCHANGED <<owner, minted>>
  PROVE  OwnedLocals(task[t])' /\ \A r \in Tasks \ {t} : task'[r] = task[r]
  <1>1. task[t] \in TaskStates /\ OwnedLocals(task[t])
    BY DEF Typed, TypeOK, Owned
  <1>2. CASE Finish(t)
    BY <1>2, OwnedIdle, OwnedLocalsMove DEF Finish
  <1>3. ASSUME NEW s \in rest,
               Become(t, [task[t] EXCEPT !.todo = rest, !.sid = s, !.pc = "drop_cache"])
        PROVE  OwnedLocals(task[t])' /\ \A r \in Tasks \ {t} : task'[r] = task[r]
    <2>1. OwnedLocals([task[t] EXCEPT !.todo = rest, !.sid = s, !.pc = "drop_cache"])
      BY <1>1 DEF OwnedLocals, TaskStates
    <2>2. QED
      BY <1>3, <2>1, OwnedLocalsMove
  <1>4. QED
    BY <1>2, <1>3 DEF DropRest

LEMMA OwnedRevokeRows ==
  ASSUME Typed, Owned, NEW S, db' = RevokeRows(S), UNCHANGED <<owner, minted>>,
         NEW s \in Sids
  PROVE  db'[s] = db[s] \/ OwnCopy(s, db[s])'
  <1>1. CASE /\ db[s] \in Docs
             /\ RevokeRows(S)[s] = [db[s] EXCEPT !.status = "revoked"]
    <2>1. OwnCopy(s, db[s])
      BY <1>1, NullsDiffer DEF Owned, OwnedStores
    <2>2. QED
      BY <1>1, <2>1 DEF OwnCopy, Docs
  <1>2. QED
    BY <1>1, RevokeRowsType DEF Typed, TypeOK

LEMMA RevokeOwned ==
  ASSUME Typed, Owned, NEW t \in Tasks,
         LimitRead(t) \/ LimitRevoke(t) \/ RevokeDb(t) \/ AllRead(t) \/ AllRevoke(t)
  PROVE  Owned'
  <1>1. task[t] \in TaskStates /\ Shape(task[t]) /\ OwnedLocals(task[t])
    BY DEF Typed, TypeOK, Owned
  <1>2. UNCHANGED <<owner, minted, cache, rmap>> /\ Grows
    BY DEF LimitRead, LimitRevoke, RevokeDb, AllRead, AllRevoke, Grows, shared
  <1>3. /\ OwnedLocals(task[t])' /\ \A r \in Tasks \ {t} : task'[r] = task[r]
        /\ \A k \in handed' : minted'[k] # NoSid
    <2>1. CASE LimitRead(t)
      BY <1>1, <1>2, <2>1, OwnedEvictRest DEF LimitRead, Shape
    <2>2. CASE LimitRevoke(t)
      <3>1. task[t].op = "create"
        BY <1>1, <2>2 DEF LimitRevoke, Shape
      <3>2. PICK s \in task[t].todo :
              IF HasCache
              THEN /\ Become(t, [task[t] EXCEPT !.sid = s, !.pc = "drop_cache"])
                   /\ UNCHANGED handed
              ELSE EvictRest(t, task[t].todo \ {s})
        BY <2>2 DEF LimitRevoke
      <3>3. CASE HasCache
        <4>1. OwnedLocals([task[t] EXCEPT !.sid = s, !.pc = "drop_cache"])
          BY <1>1, <3>1 DEF OwnedLocals, TaskStates
        <4>2. QED
          BY <1>2, <3>2, <3>3, <4>1, OwnedLocalsMove DEF Owned, OwnedTokens
      <3>4. CASE ~HasCache
        BY <1>2, <3>1, <3>2, <3>4, OwnedEvictRest
      <3>5. QED
        BY <3>3, <3>4
    <2>3. CASE RevokeDb(t)
      <3>1. task[t].op # "refresh"
        BY <1>1, <2>3 DEF RevokeDb, Shape
      <3>2. OwnedLocals([task[t] EXCEPT !.user = task[t].ses.user, !.pc = "drop_cache"])
        BY <1>1, <3>1 DEF OwnedLocals, TaskStates
      <3>3. QED
        BY <1>2, <2>3, <3>2, OwnedIdle, OwnedLocalsMove DEF RevokeDb, Finish, Owned, OwnedTokens
    <2>4. CASE AllRead(t)
      <3>1. task[t].op # "refresh"
        BY <1>1, <2>4 DEF AllRead, Shape
      <3>2. OwnedLocals([task[t] EXCEPT !.todo = ActiveSessions(task[t].user),
                                        !.pc = "all_revoke"])
        BY <1>1, <3>1 DEF OwnedLocals, TaskStates
      <3>3. QED
        BY <1>2, <2>4, <3>2, OwnedLocalsMove DEF AllRead, shared, Owned, OwnedTokens
    <2>5. CASE AllRevoke(t)
      <3>1. task[t].op # "refresh"
        BY <1>1, <2>5 DEF AllRevoke, Shape
      <3>2. QED
        BY <1>2, <2>5, <3>1, OwnedDropRest DEF AllRevoke, Owned, OwnedTokens
    <2>6. QED
      BY <2>1, <2>2, <2>3, <2>4, <2>5
  <1>4. \A s \in Sids : db'[s] = db[s] \/ OwnCopy(s, db[s])'
    <2>1. CASE db' = db
      BY <2>1
    <2>2. CASE \E S : db' = RevokeRows(S)
      BY <1>2, <2>2, OwnedRevokeRows
    <2>3. QED
      BY <2>1, <2>2 DEF LimitRead, LimitRevoke, RevokeDb, AllRead, AllRevoke, shared
  <1>5. QED
    BY <1>2, <1>3, <1>4, OwnedStep DEF Owned, OwnedTokens

LEMMA OwnedDropped ==
  ASSUME Typed, Owned, NEW t \in Tasks, Dropped(t), UNCHANGED <<owner, minted>>
  PROVE  /\ OwnedLocals(task[t])' /\ \A r \in Tasks \ {t} : task'[r] = task[r]
         /\ \A k \in handed' : minted'[k] # NoSid
  BY OwnedEvictRest, OwnedDropRest, OwnedIdle, OwnedLocalsMove
     DEF Dropped, Finish, Owned, OwnedTokens

LEMMA DropOwned ==
  ASSUME Typed, Owned, NEW t \in Tasks,
         \/ DropCache(t) \/ DropRead(t) \/ DropMap(t)
         \/ IndexRead(t) \/ IndexDelete(t) \/ IndexPush(t)
  PROVE  Owned'
  <1>1. task[t] \in TaskStates /\ Shape(task[t]) /\ OwnedLocals(task[t])
    BY DEF Typed, TypeOK, Owned
  <1>2. UNCHANGED <<owner, minted, db>> /\ Grows
    BY DEF DropCache, DropRead, DropMap, IndexRead, IndexDelete, IndexPush, Grows, shared
  <1>3. /\ \A s \in Sids : cache'[s] \in {cache[s], NoDoc}
        /\ \A k \in Tokens : rmap'[k] \in {rmap[k], NoSid}
    BY DEF DropCache, DropRead, DropMap, IndexRead, IndexDelete, IndexPush, shared,
           Typed, TypeOK
  <1>4. task[t].op # "refresh"
    BY <1>1 DEF DropCache, DropRead, DropMap, IndexRead, IndexDelete, IndexPush, Shape
  <1>5. /\ OwnedLocals(task[t])' /\ \A r \in Tasks \ {t} : task'[r] = task[r]
        /\ \A k \in handed' : minted'[k] # NoSid
    <2>1. CASE UNCHANGED handed /\ \E step \in Steps \ {"recache"} : Goto(t, step)
      BY <1>2, <2>1, OwnedGoto, OwnedLocalsMove DEF Goto, Owned, OwnedTokens
    <2>2. CASE Dropped(t)
      BY <1>2, <2>2, OwnedDropped
    <2>3. CASE DropRead(t)
      <3>. DEFINE k == db[task[t].sid].tok
                  step == IF k = NoToken THEN "index_read" ELSE "drop_map"
      <3>1. Become(t, [task[t] EXCEPT !.tok = k, !.pc = step])
        BY <2>3 DEF DropRead
      <3>2. OwnedLocals([task[t] EXCEPT !.tok = k, !.pc = step])
        BY <1>1, <1>4 DEF OwnedLocals, TaskStates
      <3>3. QED
        BY <1>2, <2>3, <3>1, <3>2, OwnedLocalsMove DEF DropRead, shared, Owned, OwnedTokens
    <2>4. CASE IndexRead(t)
      <3>. DEFINE S == index[task[t].user] \ {task[t].sid}
      <3>1. Become(t, [task[t] EXCEPT !.keep = S, !.pc = "index_delete"])
        BY <2>4 DEF IndexRead
      <3>2. OwnedLocals([task[t] EXCEPT !.keep = S, !.pc = "index_delete"])
        BY <1>1, <1>4 DEF OwnedLocals, TaskStates
      <3>3. QED
        BY <1>2, <2>4, <3>1, <3>2, OwnedLocalsMove DEF IndexRead, shared, Owned, OwnedTokens
    <2>5. QED
      BY <2>1, <2>2, <2>3, <2>4 DEF DropCache, DropMap, IndexDelete, IndexPush, Steps
  <1>6. QED
    BY <1>2, <1>3, <1>5, OwnedStep DEF Owned, OwnedTokens

LEMMA EnvironmentOwned ==
  ASSUME Typed, Owned, Environment
  PROVE  Owned'
  <1>1. ASSUME NEW t \in Tasks, Fail(t)
        PROVE  Owned'
    BY <1>1, OwnedIdle, OwnedQuiet DEF Fail, Finish
  <1>2. CASE Tick \/ \E s \in Sids, k \in Tokens : CacheLoseSession(s) \/ CacheLoseMap(k)
    BY <1>2 DEF Tick, CacheLoseSession, CacheLoseMap, Owned, OwnedStores, OwnedTokens,
                OwnedLocals, OwnCopy, Typed, TypeOK
  <1>3. ASSUME NEW s \in Sids, CacheLoseSession(s)
        PROVE  Owned'
    BY <1>3 DEF CacheLoseSession, Owned, OwnedStores, OwnedTokens, OwnedLocals, OwnCopy,
                Typed, TypeOK
  <1>4. ASSUME NEW k \in Tokens, CacheLoseMap(k)
        PROVE  Owned'
    BY <1>4 DEF CacheLoseMap, Owned, OwnedStores, OwnedTokens, OwnedLocals, OwnCopy,
                Typed, TypeOK
  <1>5. QED
    BY <1>1, <1>2, <1>3, <1>4 DEF Environment

LEMMA OwnedNext ==
  ASSUME Typed, Owned, [Next]_vars
  PROVE  Owned'
  <1>1. ASSUME NEW t \in Tasks, Call(t)
        PROVE  Owned'
    BY <1>1, CreateSessionOwned, CallOwned DEF Call
  <1>2. ASSUME NEW t \in Tasks, Step(t)
        PROVE  Owned'
    BY <1>2, ResolveOwned, GetOwned, RotateOwned, PutOwned, RevokeOwned, DropOwned DEF Step, Resolve
  <1>3. CASE UNCHANGED vars
    BY <1>3 DEF vars, Owned, OwnedStores, OwnedTokens, OwnedLocals, OwnCopy
  <1>4. QED
    BY <1>1, <1>2, <1>3, EnvironmentOwned DEF Next

(* The inductive invariant: types, the shape of each coroutine, ownership.   *)
IInv == Typed /\ Owned

LEMMA InitIInv == Init => IInv
  <1>1. Init => TypeOK
    BY IdleType DEF Init, TypeOK
  <1>2. Init => \A t \in Tasks : Shape(task[t])
    BY DEF Init, Shape, Idle
  <1>3. Init => Owned
    BY OwnedIdle DEF Init, Owned, OwnedStores, OwnedTokens
  <1>4. QED
    BY <1>1, <1>2, <1>3 DEF IInv, Typed

LEMMA NextIInv == IInv /\ [Next]_vars => IInv'
  BY TypedNext, OwnedNext DEF IInv, Owned

(* session_manager.py keeps its stores, its ledgers and the locals of every  *)
(* coroutine well typed, whatever the interleaving, losses and failures.     *)
THEOREM TypeCorrect == Spec => []Typed
  <1>1. IInv => Typed
    BY DEF IInv
  <1>2. QED
    BY <1>1, InitIInv, NextIInv, PTL DEF Spec

(* A session, its cached and stored copies and its refresh tokens belong to  *)
(* one user for ever.                                                        *)
THEOREM Ownership == Spec => []Owned
  <1>1. IInv => Owned
    BY DEF IInv
  <1>2. QED
    BY <1>1, InitIInv, NextIInv, PTL DEF Spec

(* refresh_session, which does not compare the session it finds with the     *)
(* claims of the refresh token, nevertheless rotates only a session of the   *)
(* user the token names.                                                     *)
THEOREM RefreshOwnership == Spec => []RefreshKeepsOwner
  <1>1. IInv => RefreshKeepsOwner
    <2>. SUFFICES ASSUME IInv, NEW t \in Tasks, task[t].op = "refresh", task[t].ses # NoSession
                  PROVE  /\ task[t].ses.user = task[t].user
                         /\ task[t].ses.sid = minted[task[t].tok]
      BY DEF RefreshKeepsOwner
    <2>1. task[t] \in TaskStates /\ OwnedLocals(task[t])
      BY DEF IInv, Typed, TypeOK, Owned
    <2>2. task[t].ses.sid \in Sids
      BY <2>1 DEF TaskStates, SessionObjects
    <2>3. QED
      BY <2>1, <2>2, NullsDiffer DEF OwnedLocals, OwnCopy
  <1>2. QED
    BY <1>1, InitIInv, NextIInv, PTL DEF Spec

-----------------------------------------------------------------------------
(* A dead session stays dead *)

(* A coroutine that moves to locals q does not get hold of an active copy of *)
(* s to write, unless q is one.                                              *)
Harmless(q, s) ==
    q.pc \in {"recache", "rotate", "put_cache", "put_db"} /\ q.ses.sid = s => q.ses.revoked

LEMMA HarmlessIdle == ASSUME NEW s PROVE Harmless(Idle, s)
  BY DEF Harmless, Idle

LEMMA DeadStep ==
  ASSUME IInv, NEW s \in Sids, Dead(s), NEW t \in Tasks, NEW q, Become(t, q), Harmless(q, s),
         cache'[s].status # "active", db'[s].status = "revoked"
  PROVE  Dead(s)'
  <1>1. task'[t] = q /\ \A r \in Tasks \ {t} : task'[r] = task[r]
    BY Became DEF IInv
  <1>2. ASSUME NEW r \in Tasks
        PROVE  ~MayRevive(r, s)'
    BY <1>1 DEF Dead, MayRevive, Harmless
  <1>3. QED
    BY <1>2 DEF Dead

(* What the holder of session x may become. *)
LEMMA HeldHarmless ==
  ASSUME IInv, NEW s \in Sids, Dead(s), NEW t \in Tasks,
         task[t].pc \in {"recache", "rotate", "put_cache", "put_db"}, task[t].ses.sid = s
  PROVE  task[t].ses.revoked
  BY DEF Dead, MayRevive

LEMMA RevokeRowsDead ==
  ASSUME IInv, NEW s \in Sids, db[s].status = "revoked", NEW S, db' = RevokeRows(S)
  PROVE  db'[s].status = "revoked"
  BY DEF RevokeRows

LEMMA DeadStored == ASSUME IInv, NEW s \in Sids, Dead(s)
                    PROVE  /\ db[s] \in Docs /\ owner[s] # NoUser
                           /\ cache[s] # NoDoc => FromDict(cache[s]).revoked
                           /\ FromDict(db[s]).revoked
  <1>1. db[s] \in Docs /\ db[s] # NoDoc
    BY DEF IInv, Typed, TypeOK, Dead, NoDoc
  <1>2. owner[s] # NoUser
    BY <1>1, UsersAssumption DEF IInv, Owned, OwnedStores, OwnCopy, Docs
  <1>3. QED
    BY <1>1, <1>2 DEF Dead, FromDict

(* The caller of _get_session gets hold of s only when what it found is.     *)
LEMMA GotHarmless ==
  ASSUME IInv, NEW s \in Sids, NEW t \in Tasks, NEW x, x.sid = s => x.revoked, Got(t, x)
  PROVE  \E q : Become(t, q) /\ Harmless(q, s)
  <1>1. task[t] \in TaskStates
    BY DEF IInv, Typed, TypeOK
  <1>2. CASE Finish(t)
    BY <1>2, HarmlessIdle DEF Finish
  <1>3. CASE GotForValidate(t, x) /\ ~Finish(t)
    <2>. DEFINE q == [Idle EXCEPT !.op = "touch", !.pc = GetStart, !.sid = x.sid]
    <2>1. Become(t, q)
      BY <1>3 DEF GotForValidate
    <2>2. Harmless(q, s)
      BY DEF Harmless, Idle, GetStart
    <2>3. QED
      BY <2>1, <2>2
  <1>4. CASE ~GotForValidate(t, x) /\ ~Finish(t)
    <2>1. PICK step \in {"put_cache", "put_db", "rotate", "revoke_db"} :
               Become(t, [task[t] EXCEPT !.ses = x, !.pc = step])
      BY <1>4 DEF Got, GotForTouch, GotForRefresh, GotForRevoke, PutStart
    <2>. DEFINE q == [task[t] EXCEPT !.ses = x, !.pc = step]
    <2>2. Harmless(q, s)
      BY <1>1 DEF Harmless, TaskStates
    <2>3. QED
      BY <2>1, <2>2
  <1>5. QED
    BY <1>2, <1>3, <1>4

(* A step that leaves stores and rows of s alone and does not get hold of s. *)
LEMMA DeadQuiet ==
  ASSUME IInv, NEW s \in Sids, Dead(s), NEW t \in Tasks, NEW q, Become(t, q), Harmless(q, s),
         UNCHANGED <<cache, db>>
  PROVE  Dead(s)'
  BY DeadStep DEF Dead

LEMMA CallDead ==
  ASSUME IInv, NEW s \in Sids, Dead(s), NEW t \in Tasks, Call(t)
  PROVE  Dead(s)'
  <1>1. ASSUME NEW u \in Users, CreateSession(t, u)
        PROVE  Dead(s)'
    <2>1. PICK r \in Fresh(MaxSid, owner, NoUser), k \in Fresh(MaxToken, minted, NoSid) :
            Become(t, [Idle EXCEPT !.op = "create", !.pc = PutStart, !.user = u, !.sid = r,
                         !.ses = [sid |-> r, user |-> u, tok |-> k,
                                  exp |-> now + Lifetime, revoked |-> FALSE]])
      BY <1>1 DEF CreateSession
    <2>. DEFINE q == [Idle EXCEPT !.op = "create", !.pc = PutStart, !.user = u, !.sid = r,
                         !.ses = [sid |-> r, user |-> u, tok |-> k,
                                  exp |-> now + Lifetime, revoked |-> FALSE]]
    <2>2. r # s
      BY DeadStored, FreshIn
    <2>3. Harmless(q, s)
      BY <2>2 DEF Harmless, Idle
    <2>4. QED
      BY <1>1, <2>1, <2>3, DeadQuiet DEF CreateSession
  <1>2. ASSUME NEW u \in Users, RevokeAllUserSessions(t, u)
        PROVE  Dead(s)'
    <2>. DEFINE q == [Idle EXCEPT !.op = "revokeAll", !.pc = "all_read", !.user = u]
    <2>1. Harmless(q, s)
      BY DEF Harmless, Idle
    <2>2. QED
      BY <1>2, <2>1, DeadQuiet DEF RevokeAllUserSessions, shared
  <1>3. ASSUME NEW u \in Users, ResetPassword(t, u)
        PROVE  Dead(s)'
    <2>. DEFINE q == [Idle EXCEPT !.op = "reset", !.pc = "all_revoke", !.user = u]
    <2>1. Harmless(q, s)
      BY DEF Harmless, Idle
    <2>2. QED
      BY <1>3, <2>1, DeadQuiet DEF ResetPassword, shared
  <1>4. ASSUME NEW k \in Tokens, ValidateSession(t, k)
        PROVE  Dead(s)'
    <2>. DEFINE q == [Idle EXCEPT !.op = "validate", !.pc = GetStart,
                                  !.user = owner[minted[k]], !.sid = minted[k]]
    <2>1. Harmless(q, s)
      BY DEF Harmless, Idle, GetStart
    <2>2. QED
      BY <1>4, <2>1, DeadQuiet DEF ValidateSession, shared
  <1>5. ASSUME NEW k \in Tokens, RefreshSession(t, k)
        PROVE  Dead(s)'
    <2>. DEFINE q == [Idle EXCEPT !.op = "refresh", !.pc = ResolveStart,
                                  !.user = owner[minted[k]], !.tok = k]
    <2>1. Harmless(q, s)
      BY DEF Harmless, Idle, ResolveStart
    <2>2. QED
      BY <1>5, <2>1, DeadQuiet DEF RefreshSession, shared
  <1>6. ASSUME NEW r \in Sids, RevokeSession(t, r)
        PROVE  Dead(s)'
    <2>. DEFINE q == [Idle EXCEPT !.op = "revoke", !.pc = GetStart, !.sid = r]
    <2>1. Harmless(q, s)
      BY DEF Harmless, Idle, GetStart
    <2>2. QED
      BY <1>6, <2>1, DeadQuiet DEF RevokeSession, shared
  <1>7. QED
    BY <1>1, <1>2, <1>3, <1>4, <1>5, <1>6 DEF Call

LEMMA GetDead ==
  ASSUME IInv, NEW s \in Sids, Dead(s), NEW t \in Tasks,
         ResolveFromMap(t) \/ ResolveFromDb(t) \/ GetFromCache(t) \/ GetFromDb(t) \/ Recache(t)
  PROVE  Dead(s)'
  <1>1. /\ task[t] \in TaskStates /\ Shape(task[t]) /\ OwnedLocals(task[t])
        /\ cache \in [Sids -> Docs \cup {NoDoc}] /\ db \in [Sids -> Docs \cup {NoDoc}]
    BY DEF IInv, Typed, TypeOK, Owned
  <1>2. CASE ResolveFromMap(t)
    <2>. DEFINE q == [task[t] EXCEPT !.sid = rmap[task[t].tok], !.pc = "get_cache"]
    <2>1. Harmless(q, s)
      BY <1>1 DEF Harmless, TaskStates
    <2>2. QED
      BY <1>2, <2>1, HarmlessIdle, DeadQuiet DEF ResolveFromMap, Finish, shared
  <1>3. CASE ResolveFromDb(t) /\ ~Finish(t)
    <2>1. PICK r \in ActiveSessions(task[t].user) :
             Become(t, [task[t] EXCEPT !.sid = r, !.pc = "rotate", !.ses = FromDict(db[r])])
      BY <1>3 DEF ResolveFromDb
    <2>. DEFINE q == [task[t] EXCEPT !.sid = r, !.pc = "rotate", !.ses = FromDict(db[r])]
    <2>2. r \in Sids /\ r # s /\ FromDict(db[r]).sid = r
      BY CopyOfDoc DEF ActiveSessions, NoDoc, Dead, IInv, Owned, OwnedStores
    <2>3. Harmless(q, s)
      BY <1>1, <2>2 DEF Harmless, TaskStates
    <2>4. QED
      BY <1>3, <2>1, <2>3, DeadQuiet DEF ResolveFromDb, shared
  <1>4. CASE ResolveFromDb(t) /\ Finish(t)
    BY <1>4, HarmlessIdle, DeadQuiet DEF ResolveFromDb, Finish, shared
  <1>5. CASE GetFromCache(t)
    <2>. DEFINE d == cache[task[t].sid]
                q == [task[t] EXCEPT !.pc = "get_db"]
    <2>1. task[t].sid \in Sids
      BY <1>1, <1>5 DEF GetFromCache, Shape, TaskStates
    <2>2. CASE d = NoDoc
      <3>1. Harmless(q, s)
        BY <1>1 DEF Harmless, TaskStates
      <3>2. QED
        BY <1>5, <2>2, <3>1, DeadQuiet DEF GetFromCache, Goto, shared
    <2>3. CASE d # NoDoc
      <3>1. FromDict(d).sid = task[t].sid
        BY <2>1, <2>3, CopyOfDoc DEF IInv, Owned, OwnedStores
      <3>2. FromDict(d).sid = s => FromDict(d).revoked
        BY <2>3, <3>1, DeadStored
      <3>3. \E p : Become(t, p) /\ Harmless(p, s)
        BY <1>5, <2>3, <3>2, GotHarmless DEF GetFromCache
      <3>4. QED
        BY <1>5, <3>3, DeadQuiet DEF GetFromCache, shared
    <2>4. QED
      BY <2>2, <2>3
  <1>6. CASE GetFromDb(t)
    <2>. DEFINE d == db[task[t].sid]
                q == [task[t] EXCEPT !.ses = FromDict(d), !.pc = "recache"]
    <2>1. task[t].sid \in Sids
      BY <1>1, <1>6 DEF GetFromDb, Shape, TaskStates
    <2>2. CASE d = NoDoc
      <3>1. NoSession.sid # s
        BY NullsDiffer DEF NoSession
      <3>2. \E p : Become(t, p) /\ Harmless(p, s)
        BY <1>6, <2>2, <3>1, GotHarmless DEF GetFromDb
      <3>3. QED
        BY <1>6, <3>2, DeadQuiet DEF GetFromDb, shared
    <2>3. CASE d # NoDoc
      <3>1. FromDict(d).sid = task[t].sid
        BY <2>1, <2>3, CopyOfDoc DEF IInv, Owned, OwnedStores
      <3>2. FromDict(d).sid = s => FromDict(d).revoked
        BY <2>3, <3>1, DeadStored
      <3>3. CASE Got(t, FromDict(d))
        <4>1. \E p : Become(t, p) /\ Harmless(p, s)
          BY <3>2, <3>3, GotHarmless
        <4>2. QED
          BY <1>6, <4>1, DeadQuiet DEF GetFromDb, shared
      <3>4. CASE Become(t, q)
        <4>1. Harmless(q, s)
          BY <1>1, <3>2 DEF Harmless, TaskStates
        <4>2. QED
          BY <1>6, <3>4, <4>1, DeadQuiet DEF GetFromDb, shared
      <3>5. QED
        BY <1>6, <2>3, <3>3, <3>4 DEF GetFromDb
    <2>4. QED
      BY <2>2, <2>3
  <1>7. CASE Recache(t)
    <2>. DEFINE x == task[t].ses
    <2>1. x.sid = s => x.revoked
      BY <1>7, HeldHarmless DEF Recache
    <2>2. \E p : Become(t, p) /\ Harmless(p, s)
      BY <1>7, <2>1, GotHarmless DEF Recache
    <2>3. x.sid = task[t].sid
      BY <1>1, <1>7 DEF Recache, OwnedLocals
    <2>4. cache'[s].status # "active"
      BY <1>1, <1>7, <2>1, <2>3 DEF Recache, ToDict, Dead
    <2>5. QED
      BY <1>7, <2>2, <2>4, DeadStep DEF Recache, Dead
  <1>8. QED
    BY <1>2, <1>3, <1>4, <1>5, <1>6, <1>7

LEMMA PutDead ==
  ASSUME IInv, NEW s \in Sids, Dead(s), NEW t \in Tasks,
         Rotate(t) \/ PutCache(t) \/ PutDb(t) \/ PutMap(t) \/ IndexUserSession(t)
  PROVE  Dead(s)'
  <1>. DEFINE x == task[t].ses
  <1>1. /\ task[t] \in TaskStates /\ Shape(task[t])
        /\ cache \in [Sids -> Docs \cup {NoDoc}] /\ db \in [Sids -> Docs \cup {NoDoc}]
    BY DEF IInv, Typed, TypeOK
  <1>2. \A step \in Steps \ {"recache", "rotate", "put_cache", "put_db"} :
           Harmless([task[t] EXCEPT !.pc = step], s)
    BY <1>1 DEF Harmless, TaskStates
  <1>3. CASE Rotate(t)
    <2>1. PICK k \in Fresh(MaxToken, minted, NoSid) :
            Become(t, [task[t] EXCEPT !.pc = PutStart,
                     !.ses = [@ EXCEPT !.tok = k, !.exp = now + Lifetime]])
      BY <1>3 DEF Rotate
    <2>. DEFINE y == [x EXCEPT !.tok = k, !.exp = now + Lifetime]
                q == [task[t] EXCEPT !.pc = PutStart, !.ses = y]
    <2>2. x \in SessionObjects /\ (x.sid = s => x.revoked)
      BY <1>1, <1>3, HeldHarmless DEF Rotate, Shape, TaskStates
    <2>3. y.sid = x.sid /\ y.revoked = x.revoked
      BY <2>2 DEF SessionObjects
    <2>4. q.ses = y
      BY <1>1 DEF TaskStates
    <2>5. Harmless(q, s)
      BY <2>2, <2>3, <2>4 DEF Harmless
    <2>6. QED
      BY <1>3, <2>1, <2>5, DeadQuiet DEF Rotate
  <1>4. CASE PutCache(t)
    <2>. DEFINE q == [task[t] EXCEPT !.pc = "put_db"]
    <2>1. x.sid = s => x.revoked
      BY <1>4, HeldHarmless DEF PutCache
    <2>2. cache'[s].status # "active"
      BY <1>1, <1>4, <2>1 DEF PutCache, ToDict, Dead
    <2>3. Harmless(q, s)
      BY <1>1, <2>1 DEF Harmless, TaskStates
    <2>4. QED
      BY <1>4, <2>2, <2>3, DeadStep DEF PutCache, Goto, Dead
  <1>5. CASE PutDb(t)
    <2>1. x.sid = s => x.revoked
      BY <1>5, HeldHarmless DEF PutDb
    <2>2. db'[s].status = "revoked"
      BY <1>1, <1>5, <2>1 DEF PutDb, ToDict, Dead
    <2>3. \E q : Become(t, q) /\ Harmless(q, s)
      BY <1>2, <1>5, HarmlessIdle DEF PutDb, Stored, Goto, Finish, Steps
    <2>4. QED
      BY <1>5, <2>2, <2>3, DeadStep DEF PutDb, Dead
  <1>6. CASE PutMap(t) \/ IndexUserSession(t)
    <2>1. \E q : Become(t, q) /\ Harmless(q, s)
      BY <1>2, <1>6, HarmlessIdle DEF PutMap, IndexUserSession, Stored, Goto, Finish, Steps
    <2>2. QED
      BY <1>6, <2>1, DeadQuiet DEF PutMap, IndexUserSession
  <1>7. QED
    BY <1>3, <1>4, <1>5, <1>6

(* Every continuation of an eviction or of a drop is at an await that writes *)
(* no session.                                                               *)
LEMMA EvictRestHarmless ==
  ASSUME IInv, NEW s \in Sids, NEW t \in Tasks, NEW rest, EvictRest(t, rest)
  PROVE  \E q : Become(t, q) /\ Harmless(q, s)
  <1>. DEFINE q == [task[t] EXCEPT !.todo = rest, !.pc = "limit_revoke"]
  <1>1. task[t] \in TaskStates
    BY DEF IInv, Typed, TypeOK
  <1>2. Harmless(q, s)
    BY <1>1 DEF Harmless, TaskStates
  <1>3. Become(t, Idle) \/ Become(t, q)
    BY DEF EvictRest, Finish
  <1>4. QED
    BY <1>2, <1>3, HarmlessIdle

LEMMA DropRestHarmless ==
  ASSUME IInv, NEW s \in Sids, NEW t \in Tasks, NEW rest, DropRest(t, rest)
  PROVE  \E q : Become(t, q) /\ Harmless(q, s)
  <1>1. task[t] \in TaskStates
    BY DEF IInv, Typed, TypeOK
  <1>2. CASE Finish(t)
    BY <1>2, HarmlessIdle DEF Finish
  <1>3. CASE ~Finish(t)
    <2>1. PICK r \in rest :
             Become(t, [task[t] EXCEPT !.todo = rest, !.sid = r, !.pc = "drop_cache"])
      BY <1>3 DEF DropRest
    <2>. DEFINE q == [task[t] EXCEPT !.todo = rest, !.sid = r, !.pc = "drop_cache"]
    <2>2. Harmless(q, s)
      BY <1>1 DEF Harmless, TaskStates
    <2>3. QED
      BY <2>1, <2>2
  <1>4. QED
    BY <1>2, <1>3

LEMMA DroppedHarmless ==
  ASSUME IInv, NEW s \in Sids, NEW t \in Tasks, Dropped(t)
  PROVE  \E q : Become(t, q) /\ Harmless(q, s)
  <1>1. CASE EvictRest(t, task[t].todo \ {task[t].sid})
    BY <1>1, EvictRestHarmless
  <1>2. CASE DropRest(t, task[t].todo \ {task[t].sid})
    BY <1>2, DropRestHarmless
  <1>3. CASE Finish(t)
    BY <1>3, HarmlessIdle DEF Finish
  <1>4. QED
    BY <1>1, <1>2, <1>3 DEF Dropped

LEMMA RevokeDead ==
  ASSUME IInv, NEW s \in Sids, Dead(s), NEW t \in Tasks,
         LimitRead(t) \/ LimitRevoke(t) \/ RevokeDb(t) \/ AllRead(t) \/ AllRevoke(t)
  PROVE  Dead(s)'
  <1>1. task[t] \in TaskStates
    BY DEF IInv, Typed, TypeOK
  <1>2. CASE LimitRead(t)
    <2>1. \E q : Become(t, q) /\ Harmless(q, s)
      BY <1>2, EvictRestHarmless DEF LimitRead
    <2>2. QED
      BY <1>2, <2>1, DeadQuiet DEF LimitRead
  <1>3. CASE LimitRevoke(t)
    <2>1. PICK r \in task[t].todo :
            /\ db' = RevokeRows({r})
            /\ \/ Become(t, [task[t] EXCEPT !.sid = r, !.pc = "drop_cache"])
               \/ EvictRest(t, task[t].todo \ {r})
      BY <1>3 DEF LimitRevoke
    <2>. DEFINE q == [task[t] EXCEPT !.sid = r, !.pc = "drop_cache"]
    <2>2. Harmless(q, s)
      BY <1>1 DEF Harmless, TaskStates
    <2>3. \E p : Become(t, p) /\ Harmless(p, s)
      BY <2>1, <2>2, EvictRestHarmless
    <2>4. db'[s].status = "revoked"
      BY <2>1, RevokeRowsDead DEF Dead
    <2>5. QED
      BY <1>3, <2>3, <2>4, DeadStep DEF LimitRevoke, Dead
  <1>4. CASE RevokeDb(t)
    <2>. DEFINE q == [task[t] EXCEPT !.user = task[t].ses.user, !.pc = "drop_cache"]
    <2>1. Harmless(q, s)
      BY <1>1 DEF Harmless, TaskStates
    <2>2. db'[s].status = "revoked"
      BY <1>4, RevokeRowsDead DEF Dead, RevokeDb
    <2>3. Become(t, Idle) \/ Become(t, q)
      BY <1>4 DEF RevokeDb, Finish
    <2>4. QED
      BY <1>4, <2>1, <2>2, <2>3, HarmlessIdle, DeadStep DEF RevokeDb, Dead
  <1>5. CASE AllRead(t)
    <2>. DEFINE q == [task[t] EXCEPT !.todo = ActiveSessions(task[t].user),
                                     !.pc = "all_revoke"]
    <2>1. Harmless(q, s)
      BY <1>1 DEF Harmless, TaskStates
    <2>2. QED
      BY <1>5, <2>1, DeadQuiet DEF AllRead, shared
  <1>6. CASE AllRevoke(t)
    <2>1. \E q : Become(t, q) /\ Harmless(q, s)
      BY <1>6, DropRestHarmless DEF AllRevoke
    <2>2. db'[s].status = "revoked"
      BY <1>6, RevokeRowsDead DEF Dead, AllRevoke
    <2>3. QED
      BY <1>6, <2>1, <2>2, DeadStep DEF AllRevoke, Dead
  <1>7. QED
    BY <1>2, <1>3, <1>4, <1>5, <1>6

LEMMA DropDead ==
  ASSUME IInv, NEW s \in Sids, Dead(s), NEW t \in Tasks,
         DropCache(t) \/ DropRead(t) \/ DropMap(t)
           \/ IndexRead(t) \/ IndexDelete(t) \/ IndexPush(t)
  PROVE  Dead(s)'
  <1>1. task[t] \in TaskStates /\ cache \in [Sids -> Docs \cup {NoDoc}]
    BY DEF IInv, Typed, TypeOK
  <1>2. \A step \in Steps \ {"recache", "rotate", "put_cache", "put_db"} :
           Harmless([task[t] EXCEPT !.pc = step], s)
    BY <1>1 DEF Harmless, TaskStates
  <1>3. CASE DropCache(t)
    <2>. DEFINE q == [task[t] EXCEPT !.pc = "drop_read"]
    <2>1. Harmless(q, s)
      BY <1>2 DEF Steps
    <2>2. cache'[s].status # "active"
      BY <1>1, <1>3 DEF DropCache, NoDoc, Dead
    <2>3. QED
      BY <1>3, <2>1, <2>2, DeadStep DEF DropCache, Goto, Dead
  <1>4. CASE DropRead(t)
    <2>. DEFINE k == db[task[t].sid].tok
                q == [task[t] EXCEPT !.tok = k,
                         !.pc = IF k = NoToken THEN "index_read" ELSE "drop_map"]
    <2>1. Harmless(q, s)
      BY <1>1 DEF Harmless, TaskStates
    <2>2. QED
      BY <1>4, <2>1, DeadQuiet DEF DropRead, shared
  <1>5. CASE DropMap(t)
    <2>. DEFINE q == [task[t] EXCEPT !.pc = "index_read"]
    <2>1. Harmless(q, s)
      BY <1>2 DEF Steps
    <2>2. QED
      BY <1>5, <2>1, DeadQuiet DEF DropMap, Goto
  <1>6. CASE IndexRead(t)
    <2>. DEFINE q == [task[t] EXCEPT !.keep = index[task[t].user] \ {task[t].sid},
                                     !.pc = "index_delete"]
    <2>1. Harmless(q, s)
      BY <1>1 DEF Harmless, TaskStates
    <2>2. QED
      BY <1>6, <2>1, DeadQuiet DEF IndexRead, shared
  <1>7. CASE IndexDelete(t)
    <2>. DEFINE q == [task[t] EXCEPT !.pc = "index_push"]
    <2>1. Harmless(q, s)
      BY <1>2 DEF Steps
    <2>2. Dropped(t) \/ Become(t, q)
      BY <1>7 DEF IndexDelete, Goto
    <2>3. \E p : Become(t, p) /\ Harmless(p, s)
      BY <2>1, <2>2, DroppedHarmless
    <2>4. QED
      BY <1>7, <2>3, DeadQuiet DEF IndexDelete
  <1>8. CASE IndexPush(t)
    <2>1. \E p : Become(t, p) /\ Harmless(p, s)
      BY <1>8, DroppedHarmless DEF IndexPush
    <2>2. QED
      BY <1>8, <2>1, DeadQuiet DEF IndexPush
  <1>9. QED
    BY <1>3, <1>4, <1>5, <1>6, <1>7, <1>8

LEMMA EnvironmentDead ==
  ASSUME IInv, NEW s \in Sids, Dead(s), Environment
  PROVE  Dead(s)'
  <1>1. ASSUME NEW r \in Sids, CacheLoseSession(r)
        PROVE  Dead(s)'
    <2>1. cache'[s].status # "active"
      BY <1>1 DEF CacheLoseSession, IInv, Typed, TypeOK, NoDoc, Dead
    <2>2. QED
      BY <1>1, <2>1 DEF CacheLoseSession, Dead, MayRevive
  <1>2. ASSUME NEW t \in Tasks, Fail(t)
        PROVE  Dead(s)'
    BY <1>2, HarmlessIdle, DeadQuiet DEF Fail, Finish
  <1>3. CASE (\E k \in Tokens : CacheLoseMap(k)) \/ Tick
    BY <1>3 DEF CacheLoseMap, Tick, Dead, MayRevive
  <1>4. QED
    BY <1>1, <1>2, <1>3 DEF Environment

LEMMA DeadNext ==
  ASSUME IInv, [Next]_vars, NEW s \in Sids, Dead(s)
  PROVE  Dead(s)'
  <1>1. CASE UNCHANGED vars
    BY <1>1 DEF vars, Dead, MayRevive
  <1>2. CASE \E t \in Tasks : Call(t)
    BY <1>2, CallDead
  <1>3. CASE \E t \in Tasks : Step(t)
    BY <1>3, GetDead, PutDead, RevokeDead, DropDead DEF Step, Resolve
  <1>4. CASE Environment
    BY <1>4, EnvironmentDead
  <1>5. QED
    BY <1>1, <1>2, <1>3, <1>4 DEF Next

(* Once a session is revoked in the database, its cached copy is gone or     *)
(* revoked and no coroutine holds an active copy it could still write, no    *)
(* sequence of calls, cache losses and failures brings it back.              *)
THEOREM DeadForever == Spec => DeadStaysDead
  <1>1. IInv /\ [Next]_vars => [\A s \in Sids : Dead(s) => Dead(s)']_vars
    BY DeadNext
  <1>2. QED
    BY <1>1, InitIInv, NextIInv, PTL DEF Spec, DeadStaysDead

-----------------------------------------------------------------------------
(* A useless refresh token stays useless *)

(* A coroutine with locals q is not about to store a copy with token k. *)
LetsGo(q, k) ==
    q.pc \in {"recache", "put_cache", "put_db", "put_map"} => q.ses.tok # k

(* A document that can still be taken for a live session with token k. *)
Carries(d, k) == d.status = "active" /\ d.tok = k

LEMMA LetsGoIdle == ASSUME NEW k PROVE LetsGo(Idle, k)
  BY DEF LetsGo, Idle

LEMMA UselessStep ==
  ASSUME IInv, NEW k \in Tokens, Useless(k), NEW t \in Tasks, NEW q, Become(t, q), LetsGo(q, k),
         minted'[k] = minted[k], rmap'[k] = NoSid,
         \A s \in Sids : ~Carries(cache'[s], k) /\ ~Carries(db'[s], k)
  PROVE  Useless(k)'
  <1>1. task'[t] = q /\ \A r \in Tasks \ {t} : task'[r] = task[r]
    BY Became DEF IInv
  <1>2. ASSUME NEW r \in Tasks
        PROVE  ~MayRestore(r, k)'
    BY <1>1 DEF Useless, MayRestore, LetsGo
  <1>3. QED
    BY <1>2 DEF Useless, Carries

(* No store carries the token, and no step moves it to another session. *)
LEMMA UselessStores ==
  ASSUME IInv, NEW k \in Tokens, Useless(k)
  PROVE  /\ rmap[k] = NoSid /\ minted[k] # NoSid
         /\ \A s \in Sids : ~Carries(cache[s], k) /\ ~Carries(db[s], k)
  BY DEF Useless, Carries

(* A step that writes nothing but its coroutine's locals. *)
LEMMA UselessQuiet ==
  ASSUME IInv, NEW k \in Tokens, Useless(k), NEW t \in Tasks, NEW q, Become(t, q), LetsGo(q, k),
         UNCHANGED <<minted, rmap, cache, db>>
  PROVE  Useless(k)'
  BY UselessStep, UselessStores

(* A conditional update revives no row. *)
LEMMA RevokeRowsCarry ==
  ASSUME IInv, NEW k \in Tokens, NEW S, NEW s \in Sids, ~Carries(db[s], k), db' = RevokeRows(S)
  PROVE  ~Carries(db'[s], k)
  <1>1. db'[s] = db[s] \/ (db[s] \in Docs /\ db'[s] = [db[s] EXCEPT !.status = "revoked"])
    BY RevokeRowsType DEF IInv, Typed, TypeOK
  <1>2. QED
    BY <1>1 DEF Carries, Docs

LEMMA UselessRevokes ==
  ASSUME IInv, NEW k \in Tokens, Useless(k), NEW t \in Tasks, NEW q, Become(t, q), LetsGo(q, k),
         UNCHANGED <<minted, rmap, cache>>, NEW S, db' = RevokeRows(S)
  PROVE  Useless(k)'
  BY UselessStep, UselessStores, RevokeRowsCarry

(* The caller of _get_session stores what it found only if it is active. *)
LEMMA GotLetsGo ==
  ASSUME IInv, NEW k \in Tokens, NEW t \in Tasks, NEW x,
         x # NoSession /\ ~x.revoked => x.tok # k, Got(t, x)
  PROVE  \E q : Become(t, q) /\ LetsGo(q, k)
  <1>1. task[t] \in TaskStates
    BY DEF IInv, Typed, TypeOK
  <1>2. CASE Finish(t)
    BY <1>2, LetsGoIdle DEF Finish
  <1>3. CASE GotForValidate(t, x) /\ ~Finish(t)
    <2>. DEFINE q == [Idle EXCEPT !.op = "touch", !.pc = GetStart, !.sid = x.sid]
    <2>1. Become(t, q)
      BY <1>3 DEF GotForValidate
    <2>2. LetsGo(q, k)
      BY DEF LetsGo, Idle, GetStart
    <2>3. QED
      BY <2>1, <2>2
  <1>4. CASE GotForTouch(t, x) /\ ~Finish(t)
    <2>. DEFINE q == [task[t] EXCEPT !.ses = x, !.pc = PutStart]
    <2>1. Become(t, q) /\ x # NoSession /\ ~x.revoked
      BY <1>4 DEF GotForTouch
    <2>2. q.ses = x
      BY <1>1 DEF TaskStates
    <2>3. QED
      BY <2>1, <2>2 DEF LetsGo
  <1>5. CASE (GotForRefresh(t, x) \/ GotForRevoke(t, x)) /\ ~Finish(t)
    <2>1. PICK step \in {"rotate", "revoke_db"} :
               Become(t, [task[t] EXCEPT !.ses = x, !.pc = step])
      BY <1>5 DEF GotForRefresh, GotForRevoke
    <2>. DEFINE q == [task[t] EXCEPT !.ses = x, !.pc = step]
    <2>2. LetsGo(q, k)
      BY <1>1 DEF LetsGo, TaskStates
    <2>3. QED
      BY <2>1, <2>2
  <1>6. QED
    BY <1>2, <1>3, <1>4, <1>5 DEF Got

(* What from_dict returns is active only if the document was. *)
LEMMA DictCarries ==
  ASSUME NEW d, NEW k, ~Carries(d, k)
  PROVE  ~FromDict(d).revoked => FromDict(d).tok # k
  BY DEF FromDict, Carries

LEMMA CallUseless ==
  ASSUME IInv, NEW k \in Tokens, Useless(k), NEW t \in Tasks, Call(t)
  PROVE  Useless(k)'
  <1>1. ASSUME NEW u \in Users, CreateSession(t, u)
        PROVE  Useless(k)'
    <2>1. PICK r \in Fresh(MaxSid, owner, NoUser), j \in Fresh(MaxToken, minted, NoSid) :
            /\ minted' = [minted EXCEPT ![j] = r]
            /\ Become(t, [Idle EXCEPT !.op = "create", !.pc = PutStart, !.user = u, !.sid = r,
                         !.ses = [sid |-> r, user |-> u, tok |-> j,
                                  exp |-> now + Lifetime, revoked |-> FALSE]])
      BY <1>1 DEF CreateSession
    <2>. DEFINE q == [Idle EXCEPT !.op = "create", !.pc = PutStart, !.user = u, !.sid = r,
                         !.ses = [sid |-> r, user |-> u, tok |-> j,
                                  exp |-> now + Lifetime, revoked |-> FALSE]]
    <2>2. j # k /\ minted'[k] = minted[k]
      BY <2>1, FreshIn, UselessStores DEF IInv, Typed, TypeOK
    <2>3. LetsGo(q, k)
      BY <2>2 DEF LetsGo, Idle
    <2>4. QED
      BY <1>1, <2>1, <2>2, <2>3, UselessStep, UselessStores DEF CreateSession
  <1>2. ASSUME NEW u \in Users, RevokeAllUserSessions(t, u)
        PROVE  Useless(k)'
    <2>. DEFINE q == [Idle EXCEPT !.op = "revokeAll", !.pc = "all_read", !.user = u]
    <2>1. LetsGo(q, k)
      BY DEF LetsGo, Idle
    <2>2. QED
      BY <1>2, <2>1, UselessQuiet DEF RevokeAllUserSessions, shared
  <1>3. ASSUME NEW u \in Users, ResetPassword(t, u)
        PROVE  Useless(k)'
    <2>. DEFINE q == [Idle EXCEPT !.op = "reset", !.pc = "all_revoke", !.user = u]
    <2>1. LetsGo(q, k)
      BY DEF LetsGo, Idle
    <2>2. QED
      BY <1>3, <2>1, UselessQuiet DEF ResetPassword, shared
  <1>4. ASSUME NEW j \in Tokens, ValidateSession(t, j)
        PROVE  Useless(k)'
    <2>. DEFINE q == [Idle EXCEPT !.op = "validate", !.pc = GetStart,
                                  !.user = owner[minted[j]], !.sid = minted[j]]
    <2>1. LetsGo(q, k)
      BY DEF LetsGo, Idle, GetStart
    <2>2. QED
      BY <1>4, <2>1, UselessQuiet DEF ValidateSession, shared
  <1>5. ASSUME NEW j \in Tokens, RefreshSession(t, j)
        PROVE  Useless(k)'
    <2>. DEFINE q == [Idle EXCEPT !.op = "refresh", !.pc = ResolveStart,
                                  !.user = owner[minted[j]], !.tok = j]
    <2>1. LetsGo(q, k)
      BY DEF LetsGo, Idle, ResolveStart
    <2>2. QED
      BY <1>5, <2>1, UselessQuiet DEF RefreshSession, shared
  <1>6. ASSUME NEW r \in Sids, RevokeSession(t, r)
        PROVE  Useless(k)'
    <2>. DEFINE q == [Idle EXCEPT !.op = "revoke", !.pc = GetStart, !.sid = r]
    <2>1. LetsGo(q, k)
      BY DEF LetsGo, Idle, GetStart
    <2>2. QED
      BY <1>6, <2>1, UselessQuiet DEF RevokeSession, shared
  <1>7. QED
    BY <1>1, <1>2, <1>3, <1>4, <1>5, <1>6 DEF Call

LEMMA GetUseless ==
  ASSUME IInv, NEW k \in Tokens, Useless(k), NEW t \in Tasks,
         ResolveFromMap(t) \/ ResolveFromDb(t) \/ GetFromCache(t) \/ GetFromDb(t) \/ Recache(t)
  PROVE  Useless(k)'
  <1>1. /\ task[t] \in TaskStates /\ Shape(task[t])
        /\ cache \in [Sids -> Docs \cup {NoDoc}] /\ db \in [Sids -> Docs \cup {NoDoc}]
    BY DEF IInv, Typed, TypeOK
  <1>2. CASE ResolveFromMap(t)
    <2>. DEFINE q == [task[t] EXCEPT !.sid = rmap[task[t].tok], !.pc = "get_cache"]
    <2>1. LetsGo(q, k)
      BY <1>1 DEF LetsGo, TaskStates
    <2>2. QED
      BY <1>2, <2>1, LetsGoIdle, UselessQuiet DEF ResolveFromMap, Finish, shared
  <1>3. CASE ResolveFromDb(t) /\ ~Finish(t)
    <2>1. PICK r \in ActiveSessions(task[t].user) :
             Become(t, [task[t] EXCEPT !.sid = r, !.pc = "rotate", !.ses = FromDict(db[r])])
      BY <1>3 DEF ResolveFromDb
    <2>. DEFINE q == [task[t] EXCEPT !.sid = r, !.pc = "rotate", !.ses = FromDict(db[r])]
    <2>2. LetsGo(q, k)
      BY <1>1 DEF LetsGo, TaskStates
    <2>3. QED
      BY <1>3, <2>1, <2>2, UselessQuiet DEF ResolveFromDb, shared
  <1>4. CASE ResolveFromDb(t) /\ Finish(t)
    BY <1>4, LetsGoIdle, UselessQuiet DEF ResolveFromDb, Finish, shared
  <1>5. CASE GetFromCache(t)
    <2>. DEFINE d == cache[task[t].sid]
                q == [task[t] EXCEPT !.pc = "get_db"]
    <2>1. task[t].sid \in Sids
      BY <1>1, <1>5 DEF GetFromCache, Shape, TaskStates
    <2>2. CASE d = NoDoc
      <3>1. LetsGo(q, k)
        BY <1>1 DEF LetsGo, TaskStates
      <3>2. QED
        BY <1>5, <2>2, <3>1, UselessQuiet DEF GetFromCache, Goto, shared
    <2>3. CASE d # NoDoc
      <3>1. ~FromDict(d).revoked => FromDict(d).tok # k
        BY <2>1, UselessStores, DictCarries
      <3>2. \E p : Become(t, p) /\ LetsGo(p, k)
        BY <1>5, <2>3, <3>1, GotLetsGo DEF GetFromCache
      <3>3. QED
        BY <1>5, <3>2, UselessQuiet DEF GetFromCache, shared
    <2>4. QED
      BY <2>2, <2>3
  <1>6. CASE GetFromDb(t)
    <2>. DEFINE d == db[task[t].sid]
                q == [task[t] EXCEPT !.ses = FromDict(d), !.pc = "recache"]
    <2>1. task[t].sid \in Sids
      BY <1>1, <1>6 DEF GetFromDb, Shape, TaskStates
    <2>2. ~FromDict(d).revoked => FromDict(d).tok # k
      BY <2>1, UselessStores, DictCarries
    <2>3. CASE Got(t, NoSession) \/ Got(t, FromDict(d))
      <3>1. \E p : Become(t, p) /\ LetsGo(p, k)
        BY <2>2, <2>3, GotLetsGo
      <3>2. QED
        BY <1>6, <3>1, UselessQuiet DEF GetFromDb, shared
    <2>4. CASE Become(t, q) /\ ~FromDict(d).revoked
      <3>1. q.ses = FromDict(d)
        BY <1>1 DEF TaskStates
      <3>2. LetsGo(q, k)
        BY <2>2, <2>4, <3>1 DEF LetsGo
      <3>3. QED
        BY <1>6, <2>4, <3>2, UselessQuiet DEF GetFromDb, shared
    <2>5. QED
      BY <1>6, <2>3, <2>4 DEF GetFromDb
  <1>7. CASE Recache(t)
    <2>. DEFINE x == task[t].ses
    <2>1. x.tok # k
      BY <1>7 DEF Recache, Useless, MayRestore
    <2>2. \E p : Become(t, p) /\ LetsGo(p, k)
      BY <1>7, <2>1, GotLetsGo DEF Recache
    <2>3. ~Carries(ToDict(x), k)
      BY <2>1 DEF Carries, ToDict
    <2>4. \A s \in Sids : ~Carries(cache'[s], k)
      BY <1>1, <1>7, <2>3, UselessStores DEF Recache
    <2>5. QED
      BY <1>7, <2>2, <2>4, UselessStep, UselessStores DEF Recache
  <1>8. QED
    BY <1>2, <1>3, <1>4, <1>5, <1>6, <1>7

LEMMA PutUseless ==
  ASSUME IInv, NEW k \in Tokens, Useless(k), NEW t \in Tasks,
         Rotate(t) \/ PutCache(t) \/ PutDb(t) \/ PutMap(t) \/ IndexUserSession(t)
  PROVE  Useless(k)'
  <1>. DEFINE x == task[t].ses
  <1>1. /\ task[t] \in TaskStates /\ Shape(task[t]) /\ rmap \in [Tokens -> Sids \cup {NoSid}]
        /\ cache \in [Sids -> Docs \cup {NoDoc}] /\ db \in [Sids -> Docs \cup {NoDoc}]
        /\ minted \in [Tokens -> Sids \cup {NoSid}]
    BY DEF IInv, Typed, TypeOK
  <1>2. \A step \in {"index", "limit_read"} : LetsGo([task[t] EXCEPT !.pc = step], k)
    BY <1>1 DEF LetsGo, TaskStates
  <1>3. x.tok # k => \A step \in Steps : LetsGo([task[t] EXCEPT !.pc = step], k)
    BY <1>1 DEF LetsGo, TaskStates
  <1>4. x.tok # k => ~Carries(ToDict(x), k)
    BY DEF Carries, ToDict
  <1>5. CASE Rotate(t)
    <2>1. PICK j \in Fresh(MaxToken, minted, NoSid) :
            /\ minted' = [minted EXCEPT ![j] = x.sid]
            /\ Become(t, [task[t] EXCEPT !.pc = PutStart,
                     !.ses = [@ EXCEPT !.tok = j, !.exp = now + Lifetime]])
      BY <1>5 DEF Rotate
    <2>. DEFINE y == [x EXCEPT !.tok = j, !.exp = now + Lifetime]
                q == [task[t] EXCEPT !.pc = PutStart, !.ses = y]
    <2>2. j # k /\ minted'[k] = minted[k] /\ rmap'[k] = NoSid
      <3>1. j \in Tokens /\ minted[j] = NoSid
        BY FreshIn DEF Tokens
      <3>2. rmap' = rmap \/ rmap' = [rmap EXCEPT ![task[t].tok] = NoSid]
        BY <1>5 DEF Rotate
      <3>3. rmap'[k] = NoSid
        BY <1>1, <3>2, UselessStores
      <3>4. QED
        BY <1>1, <2>1, <3>1, <3>3, UselessStores
    <2>3. x \in SessionObjects
      BY <1>1, <1>5 DEF Rotate, Shape, TaskStates
    <2>4. y.tok = j /\ q.ses = y
      BY <1>1, <2>3 DEF SessionObjects, TaskStates
    <2>5. LetsGo(q, k)
      BY <2>2, <2>4 DEF LetsGo
    <2>6. QED
      BY <1>5, <2>1, <2>2, <2>5, UselessStep, UselessStores DEF Rotate
  <1>6. CASE PutCache(t)
    <2>1. x.tok # k
      BY <1>6 DEF PutCache, Useless, MayRestore
    <2>2. \A s \in Sids : ~Carries(cache'[s], k)
      BY <1>1, <1>4, <1>6, <2>1, UselessStores DEF PutCache
    <2>3. \E q : Become(t, q) /\ LetsGo(q, k)
      BY <1>3, <1>6, <2>1 DEF PutCache, Goto, Steps
    <2>4. QED
      BY <1>6, <2>2, <2>3, UselessStep, UselessStores DEF PutCache
  <1>7. CASE PutDb(t)
    <2>1. x.tok # k
      BY <1>7 DEF PutDb, Useless, MayRestore
    <2>2. \A s \in Sids : ~Carries(db'[s], k)
      BY <1>1, <1>4, <1>7, <2>1, UselessStores DEF PutDb
    <2>3. \E q : Become(t, q) /\ LetsGo(q, k)
      BY <1>3, <1>7, <2>1, LetsGoIdle DEF PutDb, Stored, Goto, Finish, Steps
    <2>4. QED
      BY <1>7, <2>2, <2>3, UselessStep, UselessStores DEF PutDb
  <1>8. CASE PutMap(t)
    <2>1. x.tok # k
      BY <1>8 DEF PutMap, Useless, MayRestore
    <2>2. rmap'[k] = NoSid
      BY <1>1, <1>8, <2>1, UselessStores DEF PutMap
    <2>3. \E q : Become(t, q) /\ LetsGo(q, k)
      BY <1>2, <1>8, LetsGoIdle DEF PutMap, Stored, Goto, Finish
    <2>4. QED
      BY <1>8, <2>2, <2>3, UselessStep, UselessStores DEF PutMap
  <1>9. CASE IndexUserSession(t)
    <2>1. \E q : Become(t, q) /\ LetsGo(q, k)
      BY <1>2, <1>9 DEF IndexUserSession, Goto
    <2>2. QED
      BY <1>9, <2>1, UselessQuiet DEF IndexUserSession
  <1>10. QED
    BY <1>5, <1>6, <1>7, <1>8, <1>9

(* No continuation of an eviction or of a drop is about to store a session. *)
LEMMA EvictRestLetsGo ==
  ASSUME IInv, NEW k \in Tokens, NEW t \in Tasks, NEW rest, EvictRest(t, rest)
  PROVE  \E q : Become(t, q) /\ LetsGo(q, k)
  <1>. DEFINE q == [task[t] EXCEPT !.todo = rest, !.pc = "limit_revoke"]
  <1>1. LetsGo(q, k)
    BY DEF LetsGo, IInv, Typed, TypeOK, TaskStates
  <1>2. Become(t, Idle) \/ Become(t, q)
    BY DEF EvictRest, Finish
  <1>3. QED
    BY <1>1, <1>2, LetsGoIdle

LEMMA DropRestLetsGo ==
  ASSUME IInv, NEW k \in Tokens, NEW t \in Tasks, NEW rest, DropRest(t, rest)
  PROVE  \E q : Become(t, q) /\ LetsGo(q, k)
  <1>1. CASE Finish(t)
    BY <1>1, LetsGoIdle DEF Finish
  <1>2. CASE ~Finish(t)
    <2>1. PICK r \in rest :
             Become(t, [task[t] EXCEPT !.todo = rest, !.sid = r, !.pc = "drop_cache"])
      BY <1>2 DEF DropRest
    <2>. DEFINE q == [task[t] EXCEPT !.todo = rest, !.sid = r, !.pc = "drop_cache"]
    <2>2. LetsGo(q, k)
      BY DEF LetsGo, IInv, Typed, TypeOK, TaskStates
    <2>3. QED
      BY <2>1, <2>2
  <1>3. QED
    BY <1>1, <1>2

LEMMA DroppedLetsGo ==
  ASSUME IInv, NEW k \in Tokens, NEW t \in Tasks, Dropped(t)
  PROVE  \E q : Become(t, q) /\ LetsGo(q, k)
  BY EvictRestLetsGo, DropRestLetsGo, LetsGoIdle DEF Dropped, Finish

LEMMA RevokeUseless ==
  ASSUME IInv, NEW k \in Tokens, Useless(k), NEW t \in Tasks,
         LimitRead(t) \/ LimitRevoke(t) \/ RevokeDb(t) \/ AllRead(t) \/ AllRevoke(t)
  PROVE  Useless(k)'
  <1>1. task[t] \in TaskStates
    BY DEF IInv, Typed, TypeOK
  <1>2. CASE LimitRead(t)
    <2>1. \E q : Become(t, q) /\ LetsGo(q, k)
      BY <1>2, EvictRestLetsGo DEF LimitRead
    <2>2. QED
      BY <1>2, <2>1, UselessQuiet DEF LimitRead
  <1>3. CASE LimitRevoke(t)
    <2>1. PICK r \in task[t].todo :
            /\ db' = RevokeRows({r})
            /\ \/ Become(t, [task[t] EXCEPT !.sid = r, !.pc = "drop_cache"])
               \/ EvictRest(t, task[t].todo \ {r})
      BY <1>3 DEF LimitRevoke
    <2>. DEFINE q == [task[t] EXCEPT !.sid = r, !.pc = "drop_cache"]
    <2>2. LetsGo(q, k)
      BY <1>1 DEF LetsGo, TaskStates
    <2>3. \E p : Become(t, p) /\ LetsGo(p, k)
      BY <2>1, <2>2, EvictRestLetsGo
    <2>4. QED
      BY <1>3, <2>1, <2>3, UselessRevokes DEF LimitRevoke
  <1>4. CASE RevokeDb(t)
    <2>. DEFINE q == [task[t] EXCEPT !.user = task[t].ses.user, !.pc = "drop_cache"]
    <2>1. LetsGo(q, k)
      BY <1>1 DEF LetsGo, TaskStates
    <2>2. Become(t, Idle) \/ Become(t, q)
      BY <1>4 DEF RevokeDb, Finish
    <2>3. QED
      BY <1>4, <2>1, <2>2, LetsGoIdle, UselessRevokes DEF RevokeDb
  <1>5. CASE AllRead(t)
    <2>. DEFINE q == [task[t] EXCEPT !.todo = ActiveSessions(task[t].user),
                                     !.pc = "all_revoke"]
    <2>1. LetsGo(q, k)
      BY <1>1 DEF LetsGo, TaskStates
    <2>2. QED
      BY <1>5, <2>1, UselessQuiet DEF AllRead, shared
  <1>6. CASE AllRevoke(t)
    <2>1. \E q : Become(t, q) /\ LetsGo(q, k)
      BY <1>6, DropRestLetsGo DEF AllRevoke
    <2>2. QED
      BY <1>6, <2>1, UselessRevokes DEF AllRevoke
  <1>7. QED
    BY <1>2, <1>3, <1>4, <1>5, <1>6

LEMMA DropUseless ==
  ASSUME IInv, NEW k \in Tokens, Useless(k), NEW t \in Tasks,
         DropCache(t) \/ DropRead(t) \/ DropMap(t)
           \/ IndexRead(t) \/ IndexDelete(t) \/ IndexPush(t)
  PROVE  Useless(k)'
  <1>1. /\ task[t] \in TaskStates /\ cache \in [Sids -> Docs \cup {NoDoc}]
        /\ rmap \in [Tokens -> Sids \cup {NoSid}]
    BY DEF IInv, Typed, TypeOK
  <1>2. \A step \in Steps \ {"recache", "put_cache", "put_db", "put_map"} :
           LetsGo([task[t] EXCEPT !.pc = step], k)
    BY <1>1 DEF LetsGo, TaskStates
  <1>3. /\ UNCHANGED <<minted, db>> /\ rmap'[k] = NoSid
        /\ \A s \in Sids : cache'[s] \in {cache[s], NoDoc}
    BY <1>1, UselessStores DEF DropCache, DropRead, DropMap, IndexRead, IndexDelete, IndexPush, shared
  <1>4. \A s \in Sids : ~Carries(cache'[s], k) /\ ~Carries(db'[s], k)
    BY <1>3, UselessStores DEF Carries, NoDoc
  <1>5. \E q : Become(t, q) /\ LetsGo(q, k)
    <2>1. CASE DropRead(t)
      <3>. DEFINE j == db[task[t].sid].tok
                  q == [task[t] EXCEPT !.tok = j,
                           !.pc = IF j = NoToken THEN "index_read" ELSE "drop_map"]
      <3>1. Become(t, q)
        BY <2>1 DEF DropRead
      <3>2. LetsGo(q, k)
        BY <1>1 DEF LetsGo, TaskStates
      <3>3. QED
        BY <3>1, <3>2
    <2>2. CASE IndexRead(t)
      <3>. DEFINE q == [task[t] EXCEPT !.keep = index[task[t].user] \ {task[t].sid},
                                       !.pc = "index_delete"]
      <3>1. LetsGo(q, k)
        BY <1>1 DEF LetsGo, TaskStates
      <3>2. QED
        BY <2>2, <3>1 DEF IndexRead
    <2>3. CASE Dropped(t)
      BY <2>3, DroppedLetsGo
    <2>4. CASE \E step \in {"drop_read", "index_read", "index_push"} : Goto(t, step)
      BY <1>2, <2>4 DEF Goto, Steps
    <2>5. QED
      BY <2>1, <2>2, <2>3, <2>4 DEF DropCache, DropMap, IndexDelete, IndexPush
  <1>6. QED
    BY <1>3, <1>4, <1>5, UselessStep

LEMMA EnvironmentUseless ==
  ASSUME IInv, NEW k \in Tokens, Useless(k), Environment
  PROVE  Useless(k)'
  <1>1. ASSUME NEW r \in Sids, CacheLoseSession(r)
        PROVE  Useless(k)'
    <2>1. \A s \in Sids : cache'[s] \in {cache[s], NoDoc}
      BY <1>1 DEF CacheLoseSession, IInv, Typed, TypeOK
    <2>2. QED
      BY <1>1, <2>1 DEF CacheLoseSession, Useless, MayRestore, NoDoc
  <1>2. ASSUME NEW t \in Tasks, Fail(t)
        PROVE  Useless(k)'
    BY <1>2, LetsGoIdle, UselessQuiet DEF Fail, Finish
  <1>3. ASSUME NEW j \in Tokens, CacheLoseMap(j)
        PROVE  Useless(k)'
    <2>1. rmap'[k] = NoSid
      BY <1>3, UselessStores DEF CacheLoseMap, IInv, Typed, TypeOK
    <2>2. QED
      BY <1>3, <2>1 DEF CacheLoseMap, Useless, MayRestore
  <1>4. CASE Tick
    BY <1>4 DEF Tick, Useless, MayRestore
  <1>5. QED
    BY <1>1, <1>2, <1>3, <1>4 DEF Environment

LEMMA UselessNext ==
  ASSUME IInv, [Next]_vars, NEW k \in Tokens, Useless(k)
  PROVE  Useless(k)'
  <1>1. CASE UNCHANGED vars
    BY <1>1 DEF vars, Useless, MayRestore
  <1>2. CASE \E t \in Tasks : Call(t)
    BY <1>2, CallUseless
  <1>3. CASE \E t \in Tasks : Step(t)
    BY <1>3, GetUseless, PutUseless, RevokeUseless, DropUseless DEF Step, Resolve
  <1>4. CASE Environment
    BY <1>4, EnvironmentUseless
  <1>5. QED
    BY <1>1, <1>2, <1>3, <1>4 DEF Next

(* Once a refresh token is in no ledger, on no active copy and in no          *)
(* coroutine's hands, no sequence of calls, last-active updates included,     *)
(* makes it work again.                                                       *)
THEOREM UselessForever == Spec => UselessStaysUseless
  <1>1. IInv /\ [Next]_vars => [\A k \in Tokens : Useless(k) => Useless(k)']_vars
    BY UselessNext
  <1>2. QED
    BY <1>1, InitIInv, NextIInv, PTL DEF Spec, UselessStaysUseless

-----------------------------------------------------------------------------
(* The eviction of create_session never takes the newest session *)

(* The awaits of create_session, from the first write to the last eviction. *)
CreateSteps == {"put_cache", "put_db", "put_map", "index", "limit_read", "limit_revoke",
                "drop_cache", "drop_read", "drop_map", "index_read", "index_delete",
                "index_push"}

(* A newer session of the same user is in the database. *)
Outdone(s) == \E r \in Sids : r > s /\ owner[r] = owner[s] /\ db[r] # NoDoc

(* What a coroutine with locals r evicts is outdone. *)
Aged(r) == r.op = "create" => r.pc \in CreateSteps /\ \A s \in r.todo : Outdone(s)

AInv == IInv /\ \A t \in Tasks : Aged(task[t])

(* Owners, minted tokens and rows are there for good. *)
LEMMA Lasting ==
  ASSUME IInv, [Next]_vars
  PROVE  Grows /\ \A s \in Sids : db[s] # NoDoc => db'[s] # NoDoc
  <1>. USE DEF IInv, Typed, TypeOK
  <1>1. CASE UNCHANGED vars
    BY <1>1 DEF vars, Grows
  <1>2. ASSUME NEW t \in Tasks, Call(t)
        PROVE  Grows /\ db' = db
    <2>1. ASSUME NEW u \in Users, CreateSession(t, u)
          PROVE  Grows /\ db' = db
      BY <2>1, FreshIn DEF CreateSession, Grows
    <2>2. QED
      BY <1>2, <2>1 DEF Call, RevokeAllUserSessions, ResetPassword, ValidateSession,
                        RefreshSession, RevokeSession, shared, Grows
  <1>3. ASSUME NEW t \in Tasks, Step(t)
        PROVE  Grows
    <2>1. CASE Rotate(t)
      BY <2>1, FreshIn DEF Rotate, Grows
    <2>2. CASE ~Rotate(t)
      <3>1. UNCHANGED <<owner, minted>>
        BY <1>3, <2>2 DEF Step, Resolve, ResolveFromMap, ResolveFromDb, GetFromCache, GetFromDb,
              Recache, PutCache, PutDb, PutMap, IndexUserSession, LimitRead, LimitRevoke, RevokeDb,
              AllRead, AllRevoke, DropCache, DropRead, DropMap, IndexRead, IndexDelete, IndexPush,
              shared
      <3>2. QED
        BY <3>1 DEF Grows
    <2>3. QED
      BY <2>1, <2>2
  <1>4. ASSUME NEW t \in Tasks, Step(t), NEW s \in Sids, db[s] # NoDoc
        PROVE  db'[s] # NoDoc
    <2>1. CASE db' = db
      BY <1>4, <2>1
    <2>2. CASE \E S : db' = RevokeRows(S)
      <3>1. db'[s] = db[s] \/ (db[s] \in Docs /\ db'[s] = [db[s] EXCEPT !.status = "revoked"])
        BY <2>2, RevokeRowsType
      <3>2. QED
        BY <1>4, <3>1 DEF Docs, NoDoc
    <2>3. CASE PutDb(t)
      <3>1. ToDict(task[t].ses) # NoDoc
        BY <2>3, HeldSession, ToDictType, NullsDiffer DEF PutDb
      <3>2. db' = [db EXCEPT ![task[t].ses.sid] = ToDict(task[t].ses)]
        BY <2>3 DEF PutDb
      <3>3. QED
        BY <1>4, <3>1, <3>2
    <2>4. QED
      BY <1>4, <2>1, <2>2, <2>3 DEF Step, Resolve, ResolveFromMap, ResolveFromDb, GetFromCache,
            GetFromDb, Recache, Rotate, PutCache, PutMap, IndexUserSession, LimitRead, LimitRevoke,
            RevokeDb, AllRead, AllRevoke, DropCache, DropRead, DropMap, IndexRead, IndexDelete,
            IndexPush, shared
  <1>5. CASE Environment
    BY <1>5 DEF Environment, CacheLoseSession, CacheLoseMap, Fail, Tick, Grows
  <1>6. QED
    BY <1>1, <1>2, <1>3, <1>4, <1>5 DEF Next

LEMMA OutdoneLasts ==
  ASSUME IInv, [Next]_vars, NEW s \in Sids, Outdone(s)
  PROVE  Outdone(s)'
  <1>1. PICK r \in Sids : r > s /\ owner[r] = owner[s] /\ db[r] # NoDoc
    BY DEF Outdone
  <1>2. owner[r] # NoUser
    <2>1. db[r] \in Docs /\ OwnCopy(r, db[r])
      BY <1>1 DEF IInv, Typed, TypeOK, Owned, OwnedStores
    <2>2. QED
      BY <2>1, UsersAssumption DEF OwnCopy, Docs
  <1>3. owner'[r] = owner[r] /\ owner'[s] = owner[s] /\ db'[r] # NoDoc
    BY <1>1, <1>2, Lasting DEF Grows
  <1>4. QED
    BY <1>1, <1>3 DEF Outdone

(* Whatever is beyond the newest MaxConcurrent sessions is outdone. *)
LEMMA OldestOutdone ==
  ASSUME IInv, NEW u, NEW s \in Oldest(ActiveSessions(u))
  PROVE  s \in Sids /\ Outdone(s)
  <1>. DEFINE A == ActiveSessions(u)
              N == {r \in A : r > s}
  <1>1. s \in A /\ MaxConcurrent # 0 /\ Cardinality(N) >= MaxConcurrent
    BY DEF Oldest
  <1>2. N # {}
    BY <1>1, FS_EmptySet, BoundsAssumption
  <1>3. PICK r \in A : r > s
    BY <1>2
  <1>4. /\ r \in Sids /\ db[r].user = u /\ db[r] # NoDoc
        /\ s \in Sids /\ db[s].user = u /\ db[s] # NoDoc
    BY <1>1, <1>3 DEF ActiveSessions, NoDoc
  <1>5. owner[r] = owner[s]
    BY <1>4 DEF IInv, Owned, OwnedStores, OwnCopy
  <1>6. QED
    BY <1>3, <1>4, <1>5 DEF Outdone

(* A coroutine with locals q goes on with create_session as r: the same      *)
(* session, and no session more to evict.                                    *)
Pursues(q, r) ==
    /\ q.op = "create" /\ q.ses = r.ses /\ q.user = r.user
    /\ q.pc \in CreateSteps /\ q.todo \subseteq r.todo

LEMMA EvictRestPursues ==
  ASSUME IInv, NEW t \in Tasks, NEW rest, EvictRest(t, rest), task[t].op = "create"
  PROVE  /\ \A r \in Tasks \ {t} : task'[r] = task[r]
         /\ IF rest = {} THEN task'[t] = Idle
            ELSE task'[t] = [task[t] EXCEPT !.todo = rest, !.pc = "limit_revoke"]
  BY Became DEF EvictRest, Finish, IInv

LEMMA CreateProceeds ==
  ASSUME IInv, NEW t \in Tasks, task[t].op = "create", task[t].pc \in CreateSteps, Step(t),
         ~LimitRead(t)
  PROVE  /\ \A r \in Tasks \ {t} : task'[r] = task[r]
         /\ task'[t] = Idle \/ Pursues(task'[t], task[t])
  <1>1. task[t] \in TaskStates
    BY DEF IInv, Typed, TypeOK
  <1>2. \/ PutCache(t) \/ PutDb(t) \/ PutMap(t) \/ IndexUserSession(t) \/ LimitRevoke(t)
        \/ DropCache(t) \/ DropRead(t) \/ DropMap(t)
        \/ IndexRead(t) \/ IndexDelete(t) \/ IndexPush(t)
    BY DEF Step, Resolve, ResolveFromMap, ResolveFromDb, GetFromCache, GetFromDb, Recache, Rotate,
           RevokeDb, AllRead, AllRevoke, CreateSteps
  <1>3. CASE \E step \in CreateSteps : Goto(t, step)
    <2>1. PICK step \in CreateSteps : Goto(t, step)
      BY <1>3
    <2>. DEFINE q == [task[t] EXCEPT !.pc = step]
    <2>2. task'[t] = q /\ \A r \in Tasks \ {t} : task'[r] = task[r]
      BY <2>1, Became DEF Goto, IInv
    <2>3. Pursues(q, task[t])
      BY <1>1 DEF Pursues, TaskStates
    <2>4. QED
      BY <2>2, <2>3
  <1>4. CASE \E rest \in SUBSET task[t].todo : EvictRest(t, rest)
    <2>1. PICK rest \in SUBSET task[t].todo : EvictRest(t, rest)
      BY <1>4
    <2>. DEFINE q == [task[t] EXCEPT !.todo = rest, !.pc = "limit_revoke"]
    <2>2. (task'[t] = q \/ task'[t] = Idle) /\ \A r \in Tasks \ {t} : task'[r] = task[r]
      BY <2>1, EvictRestPursues
    <2>3. Pursues(q, task[t])
      BY <1>1 DEF Pursues, TaskStates, CreateSteps
    <2>4. QED
      BY <2>2, <2>3
  <1>5. CASE \E s : Become(t, [task[t] EXCEPT !.sid = s, !.pc = "drop_cache"])
    <2>1. PICK s : Become(t, [task[t] EXCEPT !.sid = s, !.pc = "drop_cache"])
      BY <1>5
    <2>. DEFINE q == [task[t] EXCEPT !.sid = s, !.pc = "drop_cache"]
    <2>2. task'[t] = q /\ \A r \in Tasks \ {t} : task'[r] = task[r]
      BY <2>1, Became DEF IInv
    <2>3. Pursues(q, task[t])
      BY <1>1 DEF Pursues, TaskStates, CreateSteps
    <2>4. QED
      BY <2>2, <2>3
  <1>6. CASE DropRead(t)
    <2>. DEFINE j == db[task[t].sid].tok
                q == [task[t] EXCEPT !.tok = j,
                         !.pc = IF j = NoToken THEN "index_read" ELSE "drop_map"]
    <2>1. task'[t] = q /\ \A r \in Tasks \ {t} : task'[r] = task[r]
      BY <1>6, Became DEF DropRead, IInv
    <2>2. Pursues(q, task[t])
      BY <1>1 DEF Pursues, TaskStates, CreateSteps
    <2>3. QED
      BY <2>1, <2>2
  <1>7. CASE IndexRead(t)
    <2>. DEFINE q == [task[t] EXCEPT !.keep = index[task[t].user] \ {task[t].sid},
                                     !.pc = "index_delete"]
    <2>1. task'[t] = q /\ \A r \in Tasks \ {t} : task'[r] = task[r]
      BY <1>7, Became DEF IndexRead, IInv
    <2>2. Pursues(q, task[t])
      BY <1>1 DEF Pursues, TaskStates, CreateSteps
    <2>3. QED
      BY <2>1, <2>2
  <1>8. CASE Finish(t)
    BY <1>8, Became DEF Finish, IInv
  <1>9. CASE PutCache(t) \/ PutDb(t) \/ PutMap(t) \/ IndexUserSession(t)
    BY <1>3, <1>8, <1>9 DEF PutCache, PutDb, PutMap, IndexUserSession, Stored, CreateSteps
  <1>10. CASE LimitRevoke(t)
    BY <1>4, <1>5, <1>10 DEF LimitRevoke
  <1>11. CASE DropCache(t) \/ DropMap(t)
    BY <1>3, <1>11 DEF DropCache, DropMap, CreateSteps
  <1>12. CASE IndexDelete(t) \/ IndexPush(t)
    <2>1. task[t].todo \ {task[t].sid} \in SUBSET task[t].todo
      OBVIOUS
    <2>2. CASE Dropped(t)
      BY <1>4, <2>1, <2>2 DEF Dropped
    <2>3. QED
      BY <1>3, <1>12, <2>2 DEF IndexDelete, IndexPush, CreateSteps
  <1>13. QED
    BY <1>2, <1>6, <1>7, <1>9, <1>10, <1>11, <1>12

(* No other method turns into create_session. *)
LEMMA OthersStay ==
  ASSUME IInv, NEW t \in Tasks, Step(t), task[t].op # "create"
  PROVE  /\ \A r \in Tasks \ {t} : task'[r] = task[r]
         /\ task'[t].op # "create"
  <1>1. task[t] \in TaskStates /\ Shape(task[t])
    BY DEF IInv, Typed, TypeOK
  <1>. DEFINE Others == \A r \in Tasks \ {t} : task'[r] = task[r]
  <1>2. ASSUME NEW q, Become(t, q), q.op # "create"
        PROVE  Others /\ task'[t].op # "create"
    BY <1>2, Became DEF IInv
  <1>3. CASE Finish(t)
    BY <1>2, <1>3 DEF Finish, Idle
  <1>4. ASSUME NEW step, Goto(t, step)
        PROVE  Others /\ task'[t].op # "create"
    BY <1>1, <1>2, <1>4 DEF Goto, TaskStates
  <1>5. ASSUME NEW x, Got(t, x)
        PROVE  Others /\ task'[t].op # "create"
    <2>1. ASSUME NEW step, Become(t, [task[t] EXCEPT !.ses = x, !.pc = step])
          PROVE  Others /\ task'[t].op # "create"
      BY <1>1, <1>2, <2>1 DEF TaskStates
    <2>2. ASSUME Become(t, [Idle EXCEPT !.op = "touch", !.pc = GetStart, !.sid = x.sid])
          PROVE  Others /\ task'[t].op # "create"
      BY <1>2, <2>2 DEF Idle
    <2>3. QED
      BY <1>3, <1>5, <2>1, <2>2 DEF Got, GotForValidate, GotForTouch, GotForRefresh, GotForRevoke
  <1>6. ASSUME NEW rest, DropRest(t, rest)
        PROVE  Others /\ task'[t].op # "create"
    <2>1. ASSUME NEW s, Become(t, [task[t] EXCEPT !.todo = rest, !.sid = s, !.pc = "drop_cache"])
          PROVE  Others /\ task'[t].op # "create"
      BY <1>1, <1>2, <2>1 DEF TaskStates
    <2>2. QED
      BY <1>3, <1>6, <2>1 DEF DropRest
  <1>7. CASE Dropped(t)
    BY <1>3, <1>6, <1>7 DEF Dropped
  <1>8. CASE Resolve(t)
    <2>1. ASSUME NEW s, NEW x, Become(t, [task[t] EXCEPT !.sid = s, !.pc = "rotate", !.ses = x])
          PROVE  Others /\ task'[t].op # "create"
      BY <1>1, <1>2, <2>1 DEF TaskStates
    <2>2. ASSUME NEW s, Become(t, [task[t] EXCEPT !.sid = s, !.pc = "get_cache"])
          PROVE  Others /\ task'[t].op # "create"
      BY <1>1, <1>2, <2>2 DEF TaskStates
    <2>3. QED
      BY <1>3, <1>8, <2>1, <2>2 DEF Resolve, ResolveFromMap, ResolveFromDb
  <1>9. CASE GetFromCache(t) \/ GetFromDb(t) \/ Recache(t)
    <2>1. ASSUME NEW x, Become(t, [task[t] EXCEPT !.ses = x, !.pc = "recache"])
          PROVE  Others /\ task'[t].op # "create"
      BY <1>1, <1>2, <2>1 DEF TaskStates
    <2>2. QED
      BY <1>4, <1>5, <1>9, <2>1 DEF GetFromCache, GetFromDb, Recache
  <1>10. CASE Rotate(t)
    <2>1. PICK k : Become(t, [task[t] EXCEPT !.pc = PutStart,
                                !.ses = [@ EXCEPT !.tok = k, !.exp = now + Lifetime]])
      BY <1>10 DEF Rotate
    <2>. DEFINE q == [task[t] EXCEPT !.pc = PutStart,
                                !.ses = [@ EXCEPT !.tok = k, !.exp = now + Lifetime]]
    <2>2. q.op # "create" /\ Become(t, q)
      BY <1>1, <2>1 DEF TaskStates
    <2>. HIDE DEF q
    <2>3. QED
      BY <1>2, <2>2
  <1>11. CASE PutCache(t) \/ PutDb(t) \/ PutMap(t) \/ IndexUserSession(t)
    BY <1>3, <1>4, <1>11 DEF PutCache, PutDb, PutMap, IndexUserSession, Stored
  <1>12. ~LimitRead(t) /\ ~LimitRevoke(t)
    BY <1>1 DEF LimitRead, LimitRevoke, Shape
  <1>13. CASE RevokeDb(t)
    <2>. DEFINE q == [task[t] EXCEPT !.user = task[t].ses.user, !.pc = "drop_cache"]
    <2>1. q.op # "create"
      BY <1>1 DEF TaskStates
    <2>2. QED
      BY <1>2, <1>3, <1>13, <2>1 DEF RevokeDb
  <1>14. CASE AllRead(t)
    <2>. DEFINE q == [task[t] EXCEPT !.todo = ActiveSessions(task[t].user), !.pc = "all_revoke"]
    <2>1. q.op # "create"
      BY <1>1 DEF TaskStates
    <2>2. QED
      BY <1>2, <1>14, <2>1 DEF AllRead
  <1>15. CASE AllRevoke(t)
    BY <1>6, <1>15 DEF AllRevoke
  <1>16. CASE DropCache(t) \/ DropMap(t) \/ IndexDelete(t) \/ IndexPush(t)
    BY <1>4, <1>7, <1>16 DEF DropCache, DropMap, IndexDelete, IndexPush
  <1>17. CASE DropRead(t)
    <2>. DEFINE j == db[task[t].sid].tok
                q == [task[t] EXCEPT !.tok = j,
                         !.pc = IF j = NoToken THEN "index_read" ELSE "drop_map"]
    <2>1. q.op # "create"
      BY <1>1 DEF TaskStates
    <2>2. QED
      BY <1>2, <1>17, <2>1 DEF DropRead
  <1>18. CASE IndexRead(t)
    <2>. DEFINE q == [task[t] EXCEPT !.keep = index[task[t].user] \ {task[t].sid},
                                     !.pc = "index_delete"]
    <2>1. q.op # "create"
      BY <1>1 DEF TaskStates
    <2>2. QED
      BY <1>2, <1>18, <2>1 DEF IndexRead
  <1>19. QED
    BY <1>8, <1>9, <1>10, <1>11, <1>12, <1>13, <1>14, <1>15, <1>16, <1>17, <1>18 DEF Step

(* A call starts with nothing to evict. *)
LEMMA CallStarts ==
  ASSUME IInv, NEW t \in Tasks, Call(t)
  PROVE  /\ \A r \in Tasks \ {t} : task'[r] = task[r]
         /\ task'[t].op = "create" => task'[t].pc = PutStart /\ task'[t].todo = {}
         /\ UNCHANGED <<cache, db>>
  <1>. DEFINE Started == /\ \A r \in Tasks \ {t} : task'[r] = task[r]
                         /\ task'[t].op = "create" => task'[t].pc = PutStart /\ task'[t].todo = {}
  <1>1. ASSUME NEW q, Become(t, q), q.op = "create" => q.pc = PutStart /\ q.todo = {}
        PROVE  Started
    BY <1>1, Became DEF IInv
  <1>2. ASSUME NEW u \in Users, CreateSession(t, u)
        PROVE  Started
    <2>1. PICK s \in Fresh(MaxSid, owner, NoUser), k \in Fresh(MaxToken, minted, NoSid) :
            Become(t, [Idle EXCEPT !.op = "create", !.pc = PutStart, !.user = u, !.sid = s,
                                   !.ses = [sid |-> s, user |-> u, tok |-> k,
                                            exp |-> now + Lifetime, revoked |-> FALSE]])
      BY <1>2 DEF CreateSession
    <2>. DEFINE x == [sid |-> s, user |-> u, tok |-> k, exp |-> now + Lifetime, revoked |-> FALSE]
                q == [Idle EXCEPT !.op = "create", !.pc = PutStart, !.user = u,
                                  !.sid = s, !.ses = x]
    <2>2. q.pc = PutStart /\ q.todo = {} /\ Become(t, q)
      BY <2>1 DEF Idle
    <2>. HIDE DEF q
    <2>3. QED
      BY <1>1, <2>2
  <1>3. ASSUME NEW u \in Users, RevokeAllUserSessions(t, u)
        PROVE  Started
    <2>. DEFINE q == [Idle EXCEPT !.op = "revokeAll", !.pc = "all_read", !.user = u]
    <2>1. Become(t, q)
      BY <1>3 DEF RevokeAllUserSessions
    <2>2. q.op # "create"
      BY DEF Idle
    <2>. HIDE DEF q
    <2>3. QED
      BY <1>1, <2>1, <2>2
  <1>4. ASSUME NEW u \in Users, ResetPassword(t, u)
        PROVE  Started
    <2>. DEFINE q == [Idle EXCEPT !.op = "reset", !.pc = "all_revoke", !.user = u]
    <2>1. Become(t, q)
      BY <1>4 DEF ResetPassword
    <2>2. q.op # "create"
      BY DEF Idle
    <2>. HIDE DEF q
    <2>3. QED
      BY <1>1, <2>1, <2>2
  <1>5. ASSUME NEW k \in Tokens, ValidateSession(t, k)
        PROVE  Started
    <2>. DEFINE q == [Idle EXCEPT !.op = "validate", !.pc = GetStart,
                                  !.user = owner[minted[k]], !.sid = minted[k]]
    <2>1. Become(t, q)
      BY <1>5 DEF ValidateSession
    <2>2. q.op # "create"
      BY DEF Idle
    <2>. HIDE DEF q
    <2>3. QED
      BY <1>1, <2>1, <2>2
  <1>6. ASSUME NEW k \in Tokens, RefreshSession(t, k)
        PROVE  Started
    <2>. DEFINE q == [Idle EXCEPT !.op = "refresh", !.pc = ResolveStart,
                                  !.user = owner[minted[k]], !.tok = k]
    <2>1. Become(t, q)
      BY <1>6 DEF RefreshSession
    <2>2. q.op # "create"
      BY DEF Idle
    <2>. HIDE DEF q
    <2>3. QED
      BY <1>1, <2>1, <2>2
  <1>7. ASSUME NEW s \in Sids, RevokeSession(t, s)
        PROVE  Started
    <2>. DEFINE q == [Idle EXCEPT !.op = "revoke", !.pc = GetStart, !.sid = s]
    <2>1. Become(t, q)
      BY <1>7 DEF RevokeSession
    <2>2. q.op # "create"
      BY DEF Idle
    <2>. HIDE DEF q
    <2>3. QED
      BY <1>1, <2>1, <2>2
  <1>8. UNCHANGED <<cache, db>>
    BY DEF Call, CreateSession, RevokeAllUserSessions, ResetPassword, ValidateSession,
           RefreshSession, RevokeSession, shared
  <1>9. QED
    BY <1>2, <1>3, <1>4, <1>5, <1>6, <1>7, <1>8 DEF Call

LEMMA InitAInv == Init => AInv
  BY InitIInv DEF Init, AInv, Aged, Idle

LEMMA NextAInv == AInv /\ [Next]_vars => AInv'
  <1>. SUFFICES ASSUME AInv, [Next]_vars
                PROVE  \A t \in Tasks : Aged(task[t])'
    BY NextIInv DEF AInv
  <1>1. IInv
    BY DEF AInv
  <1>2. ASSUME NEW r, Aged(r), r.todo \subseteq Sids
        PROVE  Aged(r)'
    BY <1>1, <1>2, OutdoneLasts DEF Aged, Outdone
  <1>3. ASSUME NEW t \in Tasks, task'[t] = task[t]
        PROVE  Aged(task[t])'
    <2>1. Aged(task[t]) /\ task[t].todo \subseteq Sids
      BY DEF AInv, IInv, Typed, TypeOK, TaskStates
    <2>2. \A s \in task[t].todo : Outdone(s) => Outdone(s)'
      BY <1>1, <2>1, OutdoneLasts
    <2>3. QED
      BY <1>3, <2>1, <2>2 DEF Aged, Outdone
  <1>4. ASSUME NEW t \in Tasks, Call(t)
        PROVE  \A r \in Tasks : Aged(task[r])'
    <2>1. Aged(task[t])'
      BY <1>1, <1>4, CallStarts DEF Aged, PutStart, CreateSteps
    <2>2. QED
      BY <1>1, <1>3, <1>4, <2>1, CallStarts
  <1>5. ASSUME NEW t \in Tasks, Step(t)
        PROVE  \A r \in Tasks : Aged(task[r])'
    <2>1. CASE task[t].op # "create"
      BY <1>1, <1>3, <1>5, <2>1, OthersStay DEF Aged
    <2>2. CASE task[t].op = "create"
      <3>1. /\ task[t].pc \in CreateSteps /\ task[t].todo \subseteq Sids
            /\ \A s \in task[t].todo : Outdone(s)
        BY <2>2 DEF AInv, Aged, IInv, Typed, TypeOK, TaskStates
      <3>2. CASE LimitRead(t)
        <4>. DEFINE O == Oldest(ActiveSessions(task[t].user))
                    q == [task[t] EXCEPT !.todo = O, !.pc = "limit_revoke"]
        <4>1. /\ \A r \in Tasks \ {t} : task'[r] = task[r]
              /\ task'[t] = Idle \/ task'[t] = q
          BY <1>1, <2>2, <3>2, EvictRestPursues DEF LimitRead
        <4>2. \A s \in O : Outdone(s)'
          BY <1>1, OldestOutdone, OutdoneLasts
        <4>3. q.pc \in CreateSteps /\ q.todo = O
          BY DEF AInv, IInv, Typed, TypeOK, TaskStates, CreateSteps
        <4>. HIDE DEF O, q
        <4>4. Aged(task[t])'
          BY <4>1, <4>2, <4>3 DEF Aged, Outdone, Idle
        <4>5. QED
          BY <1>3, <4>1, <4>4
      <3>3. CASE ~LimitRead(t)
        <4>1. /\ \A r \in Tasks \ {t} : task'[r] = task[r]
              /\ task'[t] = Idle \/ Pursues(task'[t], task[t])
          BY <1>1, <1>5, <2>2, <3>1, <3>3, CreateProceeds
        <4>2. \A s \in task[t].todo : Outdone(s)'
          BY <1>1, <3>1, OutdoneLasts
        <4>3. Aged(task[t])'
          BY <4>1, <4>2 DEF Aged, Outdone, Pursues, Idle
        <4>4. QED
          BY <1>3, <4>1, <4>3
      <3>4. QED
        BY <3>2, <3>3
    <2>3. QED
      BY <2>1, <2>2
  <1>6. CASE UNCHANGED task
    BY <1>3, <1>6
  <1>7. ASSUME NEW t \in Tasks, Fail(t)
        PROVE  \A r \in Tasks : Aged(task[r])'
    <2>1. task'[t] = Idle /\ \A r \in Tasks \ {t} : task'[r] = task[r]
      BY <1>1, <1>7, Became DEF Fail, Finish, IInv
    <2>2. QED
      BY <1>3, <2>1 DEF Aged, Idle
  <1>8. QED
    BY <1>4, <1>5, <1>6, <1>7 DEF Next, Environment, vars, CacheLoseSession, CacheLoseMap, Tick

(* create_session lists the sessions to evict, and revokes them one await at  *)
(* a time while other logins add sessions and other revocations take some     *)
(* away: it never revokes the newest session of a user all the same.          *)
THEOREM NewestKept == Spec => NewestSurvives
  <1>1. ASSUME AInv, Next, NEW s \in Sids, db[s].status = "active", db'[s].status = "revoked",
               NEW t \in Tasks, Evicts(t)
        PROVE  Outdone(s)
    <2>1. IInv /\ task[t].pc = "limit_revoke" /\ task'[t] # task[t] /\ db'[s] # db[s]
      BY <1>1 DEF AInv, Evicts
    <2>2. ~\E r \in Tasks : Call(r)
      BY <2>1, CallStarts
    <2>3. ~Environment
      BY <2>1 DEF Environment, CacheLoseSession, CacheLoseMap, Fail, Tick
    <2>4. PICK r \in Tasks : Step(r)
      BY <1>1, <2>2, <2>3 DEF Next
    <2>5. r = t
      <3>1. CASE task[r].op # "create"
        BY <2>1, <2>4, <3>1, OthersStay
      <3>2. CASE task[r].op = "create" /\ LimitRead(r)
        BY <2>1, <3>2, EvictRestPursues DEF LimitRead
      <3>3. CASE task[r].op = "create" /\ ~LimitRead(r)
        BY <1>1, <2>1, <2>4, <3>3, CreateProceeds DEF AInv, Aged
      <3>4. QED
        BY <3>1, <3>2, <3>3
    <2>6. LimitRevoke(t)
      BY <2>1, <2>4, <2>5 DEF Step, Resolve, ResolveFromMap, ResolveFromDb, GetFromCache, GetFromDb,
            Recache, Rotate, PutCache, PutDb, PutMap, IndexUserSession, LimitRead, RevokeDb,
            AllRead, AllRevoke, DropCache, DropRead, DropMap, IndexRead, IndexDelete, IndexPush
    <2>7. PICK x \in task[t].todo : db' = RevokeRows({x})
      BY <2>6 DEF LimitRevoke
    <2>8. s = x
      BY <2>1, <2>7 DEF RevokeRows
    <2>9. task[t].op = "create"
      BY <2>1 DEF IInv, Typed, Shape
    <2>10. QED
      BY <1>1, <2>8, <2>9 DEF AInv, Aged
  <1>2. ASSUME AInv, Next, NEW s \in Sids, db[s].status = "active", db'[s].status = "revoked",
               \E t \in Tasks : Evicts(t)
        PROVE  \E r \in Sids : r > s /\ owner[r] = owner[s] /\ db[r] # NoDoc
    BY <1>1, <1>2 DEF Outdone
  <1>3. AInv /\ [Next]_vars =>
          [\A s \in Sids :
             db[s].status = "active" /\ db'[s].status = "revoked" /\ (\E t \in Tasks : Evicts(t)) =>
               \E r \in Sids : r > s /\ owner[r] = owner[s] /\ db[r] # NoDoc]_vars
    BY <1>2
  <1>4. QED
    BY <1>3, InitAInv, NextAInv, PTL DEF Spec, NewestSurvives

-----------------------------------------------------------------------------
(* Logins and single revocations only: the session limit, and what a         *)
(* revocation leaves behind                                                   *)

(* The clients log in and revoke, and no call is cut off half-way: the        *)
(* last-active update revives sessions, revoke_all_user_sessions drops only    *)
(* what it had listed, and an aborted eviction or revocation leaves the rest.  *)
LoginsOnly == Ops \subseteq {"create", "revoke"} /\ MaxFail = 0

DropSteps == {"drop_cache", "drop_read", "drop_map", "index_read", "index_delete", "index_push"}
RevokeSteps == {"get_cache", "get_db", "recache", "revoke_db"} \cup DropSteps

(* The coroutines there are, and where they can be. *)
Allowed(r) ==
    /\ r.op \in {"none", "create", "revoke"}
    /\ r.op = "none" => r.pc = "idle"
    /\ r.op = "create" => r.ses.user = r.user /\ ~r.ses.revoked
    /\ r.op = "revoke" => r.pc \in RevokeSteps

(* A session whose row is not written yet is known to its own login only. *)
Unstored(r) == r.op = "create" /\ r.pc \in {"put_cache", "put_db"}
Unborn ==
    /\ \A t \in Tasks : Unstored(task[t]) => db[task[t].ses.sid] = NoDoc
    /\ \A t, r \in Tasks : Unstored(task[t]) /\ Unstored(task[r]) /\ t # r =>
         task[t].ses.sid # task[r].ses.sid

(* A login of u has stored its row and has not listed the sessions of u yet.  *)
Entries == {"put_map", "index", "limit_read"}
Entering(r, u) == r.op = "create" /\ r.user = u /\ r.pc \in Entries

(* The sessions a login still has to evict. *)
Owed(r) == IF r.op = "create" /\ r.pc = "limit_revoke" THEN r.todo
           ELSE IF r.op = "create" /\ r.pc \in DropSteps THEN r.todo \ {r.sid} ELSE {}

(* Whoever stores a session beyond the limit has still to look, or every      *)
(* session beyond the limit is on the list of a login.                        *)
Limited ==
    \A u \in Users :
        \/ \E t \in Tasks : Entering(task[t], u)
        \/ \A s \in Oldest(ActiveSessions(u)) : \E t \in Tasks : s \in Owed(task[t])

LInv == AInv /\ (\A t \in Tasks : Allowed(task[t])) /\ Unborn /\ Limited

(* The sessions beyond the newest are the same or fewer among fewer. *)
LEMMA ActiveFinite == \A u : ActiveSessions(u) \subseteq Sids /\ IsFiniteSet(ActiveSessions(u))
  <1>1. IsFiniteSet(Sids)
    BY FS_Interval, BoundsAssumption DEF Sids
  <1>2. QED
    BY <1>1, FS_Subset DEF ActiveSessions

LEMMA OldestMonotone ==
  ASSUME NEW A, IsFiniteSet(A), NEW B \in SUBSET A
  PROVE  Oldest(B) \subseteq Oldest(A)
  <1>1. ASSUME NEW s \in B, Cardinality({r \in B : r > s}) >= MaxConcurrent
        PROVE  Cardinality({r \in A : r > s}) >= MaxConcurrent
    <2>. DEFINE M == {r \in B : r > s}
                N == {r \in A : r > s}
    <2>1. IsFiniteSet(N) /\ M \in SUBSET N
      BY FS_Subset
    <2>2. Cardinality(M) <= Cardinality(N) /\ Cardinality(M) \in Nat /\ Cardinality(N) \in Nat
      <3>. HIDE DEF M, N
      <3>1. QED
        BY <2>1, FS_Subset, FS_CardinalityType
    <2>3. QED
      BY <1>1, <2>2, BoundsAssumption
  <1>2. QED
    BY <1>1 DEF Oldest

LEMMA Least ==
  ASSUME NEW S \in SUBSET Nat, IsFiniteSet(S), S # {}
  PROVE  \E m \in S : \A n \in S : m <= n
  <1>. DEFINE Below(s) == {r \in S : r < s}
              T == {Below(s) : s \in S}
  <1>1. IsWellFoundedOn(StrictSubsetOrdering(S), SUBSET S)
    BY FS_StrictSubsetOrderingWellFounded, FS_FiniteSubsetsOfFinite
  <1>2. PICK x \in T : \A y \in T : ~(<<y, x>> \in StrictSubsetOrdering(S))
    <2>1. T \subseteq SUBSET S /\ T # {}
      OBVIOUS
    <2>. HIDE DEF T
    <2>2. QED
      BY <1>1, <2>1, WFMin
  <1>3. PICK m \in S : x = Below(m)
    BY <1>2
  <1>4. ASSUME NEW n \in S, n < m
        PROVE  FALSE
    <2>1. /\ Below(n) \in SUBSET S /\ Below(m) \in SUBSET S
          /\ n \in Below(m) /\ n \notin Below(n)
      BY <1>4
    <2>2. Below(n) \subseteq Below(m)
      <3>1. ASSUME NEW r \in S, r < n
            PROVE  r < m
        <4>1. r \in Nat /\ n \in Nat /\ m \in Nat
          OBVIOUS
        <4>2. QED
          BY <1>4, <3>1, <4>1
      <3>2. QED
        BY <3>1
    <2>3. <<Below(n), Below(m)>> \in StrictSubsetOrdering(S)
      <3>. HIDE DEF Below
      <3>1. QED
        BY <2>1, <2>2 DEF StrictSubsetOrdering
    <2>4. QED
      BY <1>2, <1>3, <2>3
  <1>5. QED
    BY <1>4

(* Nothing is beyond the newest MaxConcurrent only if there are no more.      *)
LEMMA OldestEmpty ==
  ASSUME NEW S \in SUBSET Nat, IsFiniteSet(S), Oldest(S) = {}, MaxConcurrent > 0
  PROVE  Cardinality(S) <= MaxConcurrent
  <1>1. CASE S = {}
    BY <1>1, FS_EmptySet, BoundsAssumption
  <1>2. CASE S # {}
    <2>1. PICK m \in S : \A n \in S : m <= n
      BY <1>2, Least
    <2>. DEFINE N == {r \in S : r > m}
    <2>2. N = S \ {m}
      <3>1. ASSUME NEW r \in S
            PROVE  r > m <=> r # m
        <4>1. r \in Nat /\ m \in Nat /\ m <= r
          BY <2>1
        <4>2. QED
          BY <4>1
      <3>2. QED
        BY <3>1
    <2>3. ~(Cardinality(N) >= MaxConcurrent)
      BY BoundsAssumption DEF Oldest
    <2>4. Cardinality(N) = Cardinality(S) - 1 /\ Cardinality(S) \in Nat
      BY <2>2, FS_RemoveElement, FS_CardinalityType
    <2>5. QED
      BY <2>3, <2>4, BoundsAssumption
  <1>3. QED
    BY <1>1, <1>2

(* What a login does next. *)
LEMMA CreateActions ==
  ASSUME NEW t \in Tasks, task[t].pc \in CreateSteps, Step(t)
  PROVE  \/ PutCache(t) \/ PutDb(t) \/ PutMap(t) \/ IndexUserSession(t)
         \/ LimitRead(t) \/ LimitRevoke(t) \/ DropCache(t) \/ DropRead(t) \/ DropMap(t)
         \/ IndexRead(t) \/ IndexDelete(t) \/ IndexPush(t)
  BY DEF Step, Resolve, ResolveFromMap, ResolveFromDb, GetFromCache, GetFromDb, Recache, Rotate,
         RevokeDb, AllRead, AllRevoke, CreateSteps

(* A login forgets no eviction that is not done. *)
Keeps(t) ==
    /\ \A s \in Owed(task[t]) : s \in Owed(task'[t]) \/ db'[s].status # "active"
    /\ task[t].pc \in Entries => task'[t].pc \in Entries

LEMMA CreateKeeps ==
  ASSUME IInv, NEW t \in Tasks, task[t].op = "create", task[t].pc \in CreateSteps, Step(t),
         ~LimitRead(t)
  PROVE  /\ Keeps(t)
         /\ PutDb(t) => task'[t].pc \in Entries
         /\ task'[t].pc \in {"put_cache", "put_db"} => PutCache(t) /\ task'[t].pc = "put_db"
  <1>1. /\ task[t] \in TaskStates /\ task \in [Tasks -> TaskStates]
        /\ db \in [Sids -> Docs \cup {NoDoc}]
    BY DEF IInv, Typed, TypeOK
  <1>2. CASE PutCache(t) \/ PutMap(t) \/ IndexUserSession(t) \/ PutDb(t)
    <2>1. Owed(task[t]) = {}
      BY <1>2 DEF PutCache, PutMap, IndexUserSession, PutDb, Owed, DropSteps
    <2>2. PICK step \in {"put_db", "put_map", "index", "limit_read"} :
            /\ Goto(t, step)
            /\ PutCache(t) => step = "put_db"
            /\ ~PutCache(t) => step # "put_db"
      BY <1>2 DEF PutCache, PutMap, IndexUserSession, PutDb, Stored
    <2>3. task'[t].pc = step
      BY <1>1, <2>2 DEF Goto, Become, TaskStates
    <2>4. PutCache(t) => task[t].pc \notin Entries
      BY DEF PutCache, Entries
    <2>5. PutDb(t) => ~PutCache(t)
      BY DEF PutDb, PutCache
    <2>6. QED
      BY <1>2, <2>1, <2>2, <2>3, <2>4, <2>5 DEF Keeps, Entries
  <1>3. ASSUME NEW S, EvictRest(t, S)
        PROVE  /\ S # {} => task'[t].op = "create" /\ task'[t].pc = "limit_revoke"
                            /\ task'[t].todo = S
               /\ S = {} => task'[t] = Idle
    <2>1. CASE S = {}
      BY <1>3, <2>1, EvictRestPursues
    <2>2. CASE S # {}
      <3>1. task'[t] = [task[t] EXCEPT !.todo = S, !.pc = "limit_revoke"]
        BY <1>3, <2>2, EvictRestPursues
      <3>2. QED
        BY <1>1, <2>2, <3>1 DEF TaskStates
    <2>3. QED
      BY <2>1, <2>2
  <1>4. ASSUME NEW S, EvictRest(t, S)
        PROVE  /\ \A s \in S : s \in Owed(task'[t])
               /\ task'[t].pc \notin {"put_cache", "put_db"}
    BY <1>3, <1>4 DEF Owed, Idle
  <1>5. CASE LimitRevoke(t)
    <2>1. PICK x \in task[t].todo :
            /\ db' = RevokeRows({x})
            /\ \/ Become(t, [task[t] EXCEPT !.sid = x, !.pc = "drop_cache"])
               \/ EvictRest(t, task[t].todo \ {x})
      BY <1>5 DEF LimitRevoke
    <2>2. db'[x].status # "active"
      BY <1>1, <2>1 DEF RevokeRows, Docs, TaskStates
    <2>3. Owed(task[t]) = task[t].todo /\ task[t].pc \notin Entries
      BY <1>5 DEF LimitRevoke, Owed, Entries
    <2>4. CASE Become(t, [task[t] EXCEPT !.sid = x, !.pc = "drop_cache"])
      <3>1. /\ task'[t].op = "create" /\ task'[t].pc = "drop_cache"
            /\ task'[t].todo = task[t].todo /\ task'[t].sid = x
        BY <1>1, <2>4 DEF Become, TaskStates
      <3>2. Owed(task'[t]) = task[t].todo \ {x}
        BY <3>1 DEF Owed, DropSteps
      <3>3. QED
        BY <1>5, <2>2, <2>3, <3>1, <3>2 DEF Keeps, PutDb, LimitRevoke
    <2>5. CASE EvictRest(t, task[t].todo \ {x})
      <3>1. ~PutDb(t)
        BY <1>5 DEF PutDb, LimitRevoke
      <3>2. /\ \A s \in task[t].todo \ {x} : s \in Owed(task'[t])
            /\ task'[t].pc \notin {"put_cache", "put_db"}
        BY <1>4, <2>5
      <3>3. QED
        BY <2>2, <2>3, <3>1, <3>2 DEF Keeps
    <2>6. QED
      BY <2>1, <2>4, <2>5
  <1>6. ASSUME task[t].pc \in DropSteps, task'[t].op = "create", task'[t].pc \in DropSteps,
               task'[t].todo = task[t].todo, task'[t].sid = task[t].sid
        PROVE  /\ Keeps(t) /\ ~PutDb(t)
               /\ task'[t].pc \notin {"put_cache", "put_db"}
    BY <1>6 DEF Keeps, Owed, DropSteps, Entries, PutDb
  <1>7. CASE DropCache(t) \/ DropRead(t) \/ DropMap(t) \/ IndexRead(t)
    <2>1. task[t].pc \in DropSteps
      BY <1>7 DEF DropCache, DropRead, DropMap, IndexRead, DropSteps
    <2>2. ASSUME NEW q, Become(t, q), q.op = "create", q.pc \in DropSteps,
                 q.todo = task[t].todo, q.sid = task[t].sid
          PROVE  task'[t].op = "create" /\ task'[t].pc \in DropSteps
                 /\ task'[t].todo = task[t].todo /\ task'[t].sid = task[t].sid
      BY <2>2, Became DEF IInv
    <2>3. CASE DropCache(t) \/ DropMap(t)
      <3>1. PICK step \in DropSteps : Become(t, [task[t] EXCEPT !.pc = step])
        BY <2>3 DEF DropCache, DropMap, Goto, DropSteps
      <3>. DEFINE q == [task[t] EXCEPT !.pc = step]
      <3>2. q.op = "create" /\ q.pc \in DropSteps /\ q.todo = task[t].todo /\ q.sid = task[t].sid
        BY <1>1 DEF TaskStates
      <3>3. QED
        BY <1>6, <2>1, <2>2, <3>1, <3>2
    <2>4. CASE DropRead(t)
      <3>. DEFINE j == db[task[t].sid].tok
                  q == [task[t] EXCEPT !.tok = j,
                           !.pc = IF j = NoToken THEN "index_read" ELSE "drop_map"]
      <3>1. q.op = "create" /\ q.pc \in DropSteps /\ q.todo = task[t].todo /\ q.sid = task[t].sid
        BY <1>1 DEF TaskStates, DropSteps
      <3>2. Become(t, q)
        BY <2>4 DEF DropRead
      <3>3. QED
        BY <1>6, <2>1, <2>2, <3>1, <3>2
    <2>5. CASE IndexRead(t)
      <3>. DEFINE q == [task[t] EXCEPT !.keep = index[task[t].user] \ {task[t].sid},
                                       !.pc = "index_delete"]
      <3>1. q.op = "create" /\ q.pc \in DropSteps /\ q.todo = task[t].todo /\ q.sid = task[t].sid
        BY <1>1 DEF TaskStates, DropSteps
      <3>2. Become(t, q)
        BY <2>5 DEF IndexRead
      <3>3. QED
        BY <1>6, <2>1, <2>2, <3>1, <3>2
    <2>6. QED
      BY <1>7, <2>3, <2>4, <2>5
  <1>8. CASE IndexDelete(t) \/ IndexPush(t)
    <2>1. task[t].pc \in DropSteps /\ task[t].pc \notin Entries
          /\ Owed(task[t]) = task[t].todo \ {task[t].sid} /\ ~PutDb(t)
      BY <1>8 DEF IndexDelete, IndexPush, DropSteps, Owed, PutDb, Entries
    <2>2. CASE Dropped(t)
      BY <1>3, <1>4, <2>1, <2>2 DEF Dropped, Keeps
    <2>3. CASE Goto(t, "index_push")
      <3>1. /\ task'[t].op = "create" /\ task'[t].pc \in DropSteps
            /\ task'[t].todo = task[t].todo /\ task'[t].sid = task[t].sid
        BY <1>1, <2>3 DEF Goto, Become, TaskStates, DropSteps
      <3>2. QED
        BY <1>6, <2>1, <3>1
    <2>4. QED
      BY <1>8, <2>2, <2>3 DEF IndexDelete, IndexPush
  <1>9. QED
    BY <1>2, <1>5, <1>7, <1>8, CreateActions

(* What a revocation does next. *)
LEMMA RevokeActions ==
  ASSUME NEW t \in Tasks, task[t].op = "revoke", task[t].pc \in RevokeSteps, Step(t)
  PROVE  \/ GetFromCache(t) \/ GetFromDb(t) \/ Recache(t) \/ RevokeDb(t)
         \/ DropCache(t) \/ DropRead(t) \/ DropMap(t)
         \/ IndexRead(t) \/ IndexDelete(t) \/ IndexPush(t)
  BY DEF Step, Resolve, ResolveFromMap, ResolveFromDb, Rotate, PutCache, PutDb, PutMap,
         IndexUserSession, LimitRead, LimitRevoke, AllRead, AllRevoke, RevokeSteps, DropSteps

(* A revocation goes on with its session, or ends. *)
Insists(t) ==
    task'[t] # Idle =>
        task'[t].op = "revoke" /\ task'[t].pc \in RevokeSteps /\ task'[t].sid = task[t].sid

LEMMA RevokeProceeds ==
  ASSUME IInv, NEW t \in Tasks, task[t].op = "revoke", task[t].pc \in RevokeSteps, Step(t)
  PROVE  /\ Insists(t)
         /\ db' = db \/ db' = RevokeRows({task[t].sid})
  <1>1. task[t] \in TaskStates
    BY DEF IInv, Typed, TypeOK
  <1>2. ASSUME NEW q, Become(t, q), q.op = "revoke", q.pc \in RevokeSteps, q.sid = task[t].sid
        PROVE  Insists(t)
    BY <1>2, Became DEF IInv, Insists
  <1>3. ASSUME NEW step \in RevokeSteps, Goto(t, step)
        PROVE  Insists(t)
    <2>. DEFINE q == [task[t] EXCEPT !.pc = step]
    <2>1. q.op = "revoke" /\ q.pc \in RevokeSteps /\ q.sid = task[t].sid
      BY <1>1 DEF TaskStates
    <2>2. Become(t, q)
      BY <1>3 DEF Goto
    <2>. HIDE DEF q
    <2>3. QED
      BY <1>2, <2>1, <2>2
  <1>4. ASSUME Finish(t)
        PROVE  Insists(t)
    <2>1. task'[t] = Idle
      BY <1>4, Became DEF Finish, IInv
    <2>2. QED
      BY <2>1 DEF Insists
  <1>5. ASSUME NEW x, NEW step \in RevokeSteps, Become(t, [task[t] EXCEPT !.ses = x, !.pc = step])
        PROVE  Insists(t)
    <2>. DEFINE q == [task[t] EXCEPT !.ses = x, !.pc = step]
    <2>1. q.op = "revoke" /\ q.pc \in RevokeSteps /\ q.sid = task[t].sid
      BY <1>1 DEF TaskStates
    <2>2. Become(t, q)
      BY <1>5
    <2>. HIDE DEF q
    <2>3. QED
      BY <1>2, <2>1, <2>2
  <1>6. CASE GetFromCache(t) \/ GetFromDb(t) \/ Recache(t)
    <2>1. ASSUME NEW x, Got(t, x)
          PROVE  Insists(t)
      BY <1>5, <2>1 DEF Got, GotForValidate, GotForTouch, GotForRefresh, GotForRevoke, RevokeSteps
    <2>2. Insists(t)
      BY <1>3, <1>5, <1>6, <2>1 DEF GetFromCache, GetFromDb, Recache, RevokeSteps
    <2>3. QED
      BY <1>6, <2>2 DEF GetFromCache, GetFromDb, Recache, shared
  <1>7. CASE RevokeDb(t)
    <2>. DEFINE q == [task[t] EXCEPT !.user = task[t].ses.user, !.pc = "drop_cache"]
    <2>1. q.op = "revoke" /\ q.pc \in RevokeSteps /\ q.sid = task[t].sid
      BY <1>1 DEF TaskStates, RevokeSteps, DropSteps
    <2>2. Insists(t)
      BY <1>2, <1>4, <1>7, <2>1 DEF RevokeDb
    <2>3. QED
      BY <1>7, <2>2 DEF RevokeDb
  <1>8. CASE DropRead(t)
    <2>. DEFINE j == db[task[t].sid].tok
                q == [task[t] EXCEPT !.tok = j,
                         !.pc = IF j = NoToken THEN "index_read" ELSE "drop_map"]
    <2>1. q.op = "revoke" /\ q.pc \in RevokeSteps /\ q.sid = task[t].sid
      BY <1>1 DEF TaskStates, RevokeSteps, DropSteps
    <2>2. QED
      BY <1>2, <1>8, <2>1 DEF DropRead, shared
  <1>9. CASE IndexRead(t)
    <2>. DEFINE q == [task[t] EXCEPT !.keep = index[task[t].user] \ {task[t].sid},
                                     !.pc = "index_delete"]
    <2>1. q.op = "revoke" /\ q.pc \in RevokeSteps /\ q.sid = task[t].sid
      BY <1>1 DEF TaskStates, RevokeSteps, DropSteps
    <2>2. QED
      BY <1>2, <1>9, <2>1 DEF IndexRead, shared
  <1>10. CASE DropCache(t) \/ DropMap(t) \/ IndexDelete(t) \/ IndexPush(t)
    <2>1. Insists(t)
      BY <1>3, <1>4, <1>10 DEF DropCache, DropMap, IndexDelete, IndexPush, Dropped, RevokeSteps,
                               DropSteps
    <2>2. QED
      BY <1>10, <2>1 DEF DropCache, DropMap, IndexDelete, IndexPush
  <1>11. QED
    BY <1>6, <1>7, <1>8, <1>9, <1>10, RevokeActions

(* What a step has to keep for the limit to hold in the end. *)
LEMMA LimitedStep ==
  ASSUME AInv, Limited, NEW t \in Tasks, \A r \in Tasks \ {t} : task'[r] = task[r],
         \A u \in Users : ActiveSessions(u)' \subseteq ActiveSessions(u) \/ Entering(task'[t], u),
         \A u \in Users : Entering(task[t], u) =>
             \/ Entering(task'[t], u)
             \/ \A s \in Oldest(ActiveSessions(u)) : s \in Owed(task'[t]),
         \A s \in Owed(task[t]) : s \in Owed(task'[t]) \/ db'[s].status # "active"
  PROVE  Limited'
  <1>. SUFFICES ASSUME NEW u \in Users, \A r \in Tasks : ~Entering(task'[r], u),
                       NEW s \in Oldest(ActiveSessions(u)')
                PROVE  \E r \in Tasks : s \in Owed(task'[r])
    BY DEF Limited, Oldest
  <1>1. s \in Oldest(ActiveSessions(u))
    <2>1. ActiveSessions(u)' \subseteq ActiveSessions(u)
      OBVIOUS
    <2>2. QED
      BY <2>1, ActiveFinite, OldestMonotone
  <1>2. db'[s].status = "active"
    BY DEF Oldest, ActiveSessions
  <1>3. CASE Entering(task[t], u)
    BY <1>1, <1>3
  <1>4. CASE ~Entering(task[t], u)
    <2>1. \A r \in Tasks : ~Entering(task[r], u)
      BY <1>4
    <2>2. PICK r \in Tasks : s \in Owed(task[r])
      BY <1>1, <2>1 DEF Limited
    <2>3. QED
      BY <1>2, <2>2
  <1>5. QED
    BY <1>3, <1>4

(* What a step has to keep for new sessions to be unknown. *)
LEMMA UnbornStep ==
  ASSUME IInv, Unborn, NEW t \in Tasks, \A r \in Tasks \ {t} : task'[r] = task[r],
         \A s \in Sids : db[s] = NoDoc =>
             \/ db'[s] = NoDoc
             \/ Unstored(task[t]) /\ s = task[t].ses.sid /\ ~Unstored(task'[t]),
         Unstored(task'[t]) => Unstored(task[t]) /\ task'[t].ses = task[t].ses
  PROVE  Unborn'
  <1>1. \A r \in Tasks : Unstored(task[r]) => task[r].ses.sid \in Sids
    BY HeldSession DEF IInv, Unstored
  <1>2. QED
    BY <1>1 DEF Unborn

LEMMA RevokeRowsKeep ==
  ASSUME IInv, NEW S, db' = RevokeRows(S)
  PROVE  /\ \A u : ActiveSessions(u)' \subseteq ActiveSessions(u)
         /\ \A s \in Sids : db[s] = NoDoc => db'[s] = NoDoc
  <1>1. \A s \in Sids : \/ db'[s] = db[s]
                        \/ db[s] \in Docs /\ db'[s] = [db[s] EXCEPT !.status = "revoked"]
    BY RevokeRowsType DEF IInv, Typed, TypeOK
  <1>2. \A s \in Sids : \/ db'[s] = db[s]
                        \/ db[s] # NoDoc /\ db'[s].status # "active"
    <2>1. ASSUME NEW d \in Docs
          PROVE  d # NoDoc /\ [d EXCEPT !.status = "revoked"].status # "active"
      BY DEF Docs, NoDoc
    <2>2. QED
      BY <1>1, <2>1
  <1>3. QED
    BY <1>2 DEF ActiveSessions

(* A session just drawn is unknown to all. *)
LEMMA Unknown ==
  ASSUME IInv, NEW s \in Sids, owner[s] = NoUser
  PROVE  db[s] = NoDoc /\ \A r \in Tasks : task[r].op = "create" => task[r].ses.sid # s
  <1>1. db[s] = NoDoc
    <2>1. ASSUME db[s] \in Docs
          PROVE  FALSE
      BY <2>1, UsersAssumption, NullsDiffer DEF IInv, Owned, OwnedStores, OwnCopy, Docs
    <2>2. QED
      BY <2>1 DEF IInv, Typed, TypeOK
  <1>2. ASSUME NEW r \in Tasks, task[r].op = "create", task[r].ses.sid = s
        PROVE  FALSE
    BY <1>2, HeldSession, UsersAssumption DEF IInv, OwnCopy, SessionObjects
  <1>3. QED
    BY <1>1, <1>2

Settled == (\A t \in Tasks : Allowed(task[t])) /\ Unborn /\ Limited

LEMMA CallSettled ==
  ASSUME LoginsOnly, LInv, NEW t \in Tasks, Call(t)
  PROVE  Settled'
  <1>1. AInv /\ IInv /\ Unborn /\ Limited /\ \A r \in Tasks : Allowed(task[r])
    BY DEF LInv, AInv
  <1>2. (\A r \in Tasks \ {t} : task'[r] = task[r]) /\ db' = db
    BY <1>1, CallStarts
  <1>3. task[t] = Idle
    BY DEF Call, CreateSession, RevokeAllUserSessions, ResetPassword, ValidateSession,
           RefreshSession, RevokeSession
  <1>4. Limited'
    <2>1. \A u : ActiveSessions(u)' = ActiveSessions(u)
      BY <1>2 DEF ActiveSessions
    <2>2. Owed(task[t]) = {} /\ \A u : ~Entering(task[t], u)
      BY <1>3 DEF Owed, Entering, Idle
    <2>3. QED
      BY <1>1, <1>2, <2>1, <2>2, LimitedStep
  <1>5. CASE \E u \in Users : CreateSession(t, u)
    <2>1. PICK u \in Users : CreateSession(t, u)
      BY <1>5
    <2>2. PICK s \in Fresh(MaxSid, owner, NoUser), k \in Fresh(MaxToken, minted, NoSid) :
            Become(t, [Idle EXCEPT !.op = "create", !.pc = PutStart, !.user = u, !.sid = s,
                         !.ses = [sid |-> s, user |-> u, tok |-> k,
                                  exp |-> now + Lifetime, revoked |-> FALSE]])
      BY <2>1 DEF CreateSession
    <2>. DEFINE q == [Idle EXCEPT !.op = "create", !.pc = PutStart, !.user = u, !.sid = s,
                         !.ses = [sid |-> s, user |-> u, tok |-> k,
                                  exp |-> now + Lifetime, revoked |-> FALSE]]
    <2>3. q.op = "create" /\ q.user = u /\ q.ses.user = u /\ ~q.ses.revoked /\ q.ses.sid = s
      BY DEF Idle
    <2>4. task'[t] = q
      BY <1>1, <2>2, Became DEF IInv
    <2>5. s \in Sids /\ owner[s] = NoUser
      BY FreshIn DEF Sids
    <2>. HIDE DEF q
    <2>6. db[s] = NoDoc /\ \A r \in Tasks : task[r].op = "create" => task[r].ses.sid # s
      BY <1>1, <2>5, Unknown
    <2>7. \A r \in Tasks : Allowed(task'[r])
      BY <1>1, <1>2, <2>3, <2>4 DEF Allowed
    <2>8. Unborn'
      BY <1>1, <1>2, <2>3, <2>4, <2>6 DEF Unborn, Unstored
    <2>9. QED
      BY <1>4, <2>7, <2>8 DEF Settled
  <1>6. CASE \E s \in Sids : RevokeSession(t, s)
    <2>1. PICK s \in Sids : Become(t, [Idle EXCEPT !.op = "revoke", !.pc = GetStart, !.sid = s])
      BY <1>6 DEF RevokeSession
    <2>. DEFINE q == [Idle EXCEPT !.op = "revoke", !.pc = GetStart, !.sid = s]
    <2>2. q.op = "revoke" /\ q.pc \in RevokeSteps
      BY DEF Idle, GetStart, RevokeSteps
    <2>3. task'[t] = q
      BY <1>1, <2>1, Became DEF IInv
    <2>. HIDE DEF q
    <2>4. \A r \in Tasks : Allowed(task'[r])
      BY <1>1, <1>2, <2>2, <2>3 DEF Allowed
    <2>5. Unborn'
      BY <1>1, <1>2, <2>2, <2>3 DEF Unborn, Unstored
    <2>6. QED
      BY <1>4, <2>4, <2>5 DEF Settled
  <1>7. QED
    BY <1>5, <1>6 DEF Call, LoginsOnly, RevokeAllUserSessions, ResetPassword, ValidateSession,
                      RefreshSession

LEMMA RevokeSettled ==
  ASSUME LInv, NEW t \in Tasks, Step(t), task[t].op = "revoke"
  PROVE  Settled'
  <1>1. AInv /\ IInv /\ Unborn /\ Limited /\ \A r \in Tasks : Allowed(task[r])
    BY DEF LInv, AInv
  <1>2. \A r \in Tasks \ {t} : task'[r] = task[r]
    BY <1>1, OthersStay
  <1>3. Insists(t) /\ (db' = db \/ db' = RevokeRows({task[t].sid}))
    BY <1>1, RevokeProceeds DEF Allowed
  <1>4. /\ \A u : ActiveSessions(u)' \subseteq ActiveSessions(u)
        /\ \A s \in Sids : db[s] = NoDoc => db'[s] = NoDoc
    BY <1>1, <1>3, RevokeRowsKeep DEF ActiveSessions
  <1>5. /\ Owed(task[t]) = {} /\ \A u : ~Entering(task[t], u)
        /\ ~Unstored(task'[t]) /\ Allowed(task'[t])
    BY <1>3 DEF Owed, Entering, Insists, Unstored, Allowed, Idle
  <1>6. Limited'
    BY <1>1, <1>2, <1>4, <1>5, LimitedStep
  <1>7. Unborn'
    BY <1>1, <1>2, <1>4, <1>5, UnbornStep
  <1>8. QED
    BY <1>1, <1>2, <1>5, <1>6, <1>7 DEF Settled

LEMMA LimitReadSettled ==
  ASSUME LInv, NEW t \in Tasks, LimitRead(t), task[t].op = "create"
  PROVE  Settled'
  <1>1. AInv /\ IInv /\ Unborn /\ Limited /\ \A r \in Tasks : Allowed(task[r])
    BY DEF LInv, AInv
  <1>. DEFINE O == Oldest(ActiveSessions(task[t].user))
              q == [task[t] EXCEPT !.todo = O, !.pc = "limit_revoke"]
  <1>2. /\ \A r \in Tasks \ {t} : task'[r] = task[r]
        /\ IF O = {} THEN task'[t] = Idle ELSE task'[t] = q
        /\ task[t].pc = "limit_read" /\ db' = db
    BY <1>1, EvictRestPursues DEF LimitRead
  <1>3. q.op = "create" /\ q.pc = "limit_revoke" /\ q.todo = O /\ q.user = task[t].user
        /\ q.ses = task[t].ses
    BY <1>1 DEF IInv, Typed, TypeOK, TaskStates
  <1>. HIDE DEF q
  <1>4. \A s \in O : s \in Owed(task'[t])
    BY <1>2, <1>3 DEF Owed
  <1>5. Owed(task[t]) = {}
    BY <1>2 DEF Owed, DropSteps
  <1>6. \A u : Entering(task[t], u) => u = task[t].user
    BY DEF Entering
  <1>7. \A u : ActiveSessions(u)' = ActiveSessions(u)
    BY <1>2 DEF ActiveSessions
  <1>8. Limited'
    BY <1>1, <1>2, <1>4, <1>5, <1>6, <1>7, LimitedStep
  <1>9. ~Unstored(task'[t]) /\ Allowed(task'[t])
    BY <1>1, <1>2, <1>3 DEF Unstored, Allowed, Idle
  <1>10. Unborn'
    BY <1>1, <1>2, <1>9, UnbornStep
  <1>11. QED
    BY <1>1, <1>2, <1>8, <1>9, <1>10 DEF Settled

LEMMA CreateSettled ==
  ASSUME LInv, NEW t \in Tasks, Step(t), task[t].op = "create", ~LimitRead(t)
  PROVE  Settled'
  <1>1. AInv /\ IInv /\ Unborn /\ Limited /\ \A r \in Tasks : Allowed(task[r])
    BY DEF LInv, AInv
  <1>2. task[t].pc \in CreateSteps
    BY <1>1 DEF AInv, Aged
  <1>3. /\ \A r \in Tasks \ {t} : task'[r] = task[r]
        /\ task'[t] = Idle \/ Pursues(task'[t], task[t])
        /\ Keeps(t)
        /\ PutDb(t) => task'[t].pc \in Entries
        /\ task'[t].pc \in {"put_cache", "put_db"} => PutCache(t) /\ task'[t].pc = "put_db"
    BY <1>1, <1>2, CreateProceeds, CreateKeeps
  <1>4. task[t].ses.user = task[t].user /\ ~task[t].ses.revoked
    BY <1>1 DEF Allowed
  <1>5. \/ db' = db \/ \E S : db' = RevokeRows(S)
        \/ PutDb(t) /\ db' = [db EXCEPT ![task[t].ses.sid] = ToDict(task[t].ses)]
    BY <1>2, CreateActions DEF PutCache, PutDb, PutMap, IndexUserSession, LimitRead, LimitRevoke,
         DropCache, DropRead, DropMap, IndexRead, IndexDelete, IndexPush, shared
  <1>6. Idle.pc \notin Entries /\ Idle.op = "none" /\ Idle.pc = "idle"
    BY DEF Idle, Entries
  <1>7. PutDb(t) => Entering(task'[t], task[t].user)
    BY <1>3, <1>6 DEF Pursues, Entering
  <1>8. Allowed(task'[t])
    BY <1>3, <1>4, <1>6 DEF Allowed, Pursues
  <1>9. Unstored(task'[t]) => Unstored(task[t]) /\ task'[t].ses = task[t].ses
    BY <1>3, <1>6 DEF Unstored, Pursues, PutCache
  <1>10. ASSUME NEW u
         PROVE  ActiveSessions(u)' \subseteq ActiveSessions(u) \/ Entering(task'[t], u)
    <2>1. CASE db' = db
      BY <2>1 DEF ActiveSessions
    <2>2. CASE \E S : db' = RevokeRows(S)
      BY <1>1, <2>2, RevokeRowsKeep
    <2>3. CASE PutDb(t) /\ db' = [db EXCEPT ![task[t].ses.sid] = ToDict(task[t].ses)]
      <3>1. CASE u = task[t].user
        BY <1>7, <2>3, <3>1
      <3>2. CASE u # task[t].user
        <4>1. db \in [Sids -> Docs \cup {NoDoc}]
          BY <1>1 DEF IInv, Typed, TypeOK
        <4>2. ToDict(task[t].ses).user # u
          BY <1>4, <3>2 DEF ToDict
        <4>3. \A s \in Sids : db'[s] = db[s] \/ db'[s].user # u
          BY <2>3, <4>1, <4>2
        <4>4. QED
          BY <4>3 DEF ActiveSessions
      <3>3. QED
        BY <3>1, <3>2
    <2>4. QED
      BY <1>5, <2>1, <2>2, <2>3
  <1>11. \A u : Entering(task[t], u) => Entering(task'[t], u)
    BY <1>3, <1>6 DEF Entering, Keeps, Pursues
  <1>12. Limited'
    BY <1>1, <1>3, <1>10, <1>11, LimitedStep DEF Keeps
  <1>13. ASSUME NEW s \in Sids, db[s] = NoDoc
         PROVE  \/ db'[s] = NoDoc
                \/ Unstored(task[t]) /\ s = task[t].ses.sid /\ ~Unstored(task'[t])
    <2>1. CASE db' = db
      BY <1>13, <2>1
    <2>2. CASE \E S : db' = RevokeRows(S)
      BY <1>1, <1>13, <2>2, RevokeRowsKeep
    <2>3. CASE PutDb(t) /\ db' = [db EXCEPT ![task[t].ses.sid] = ToDict(task[t].ses)]
      <3>1. db \in [Sids -> Docs \cup {NoDoc}]
        BY <1>1 DEF IInv, Typed, TypeOK
      <3>2. Unstored(task[t]) /\ ~Unstored(task'[t])
        BY <1>3, <2>3 DEF Unstored, Entries, PutDb
      <3>3. QED
        BY <1>13, <2>3, <3>1, <3>2
    <2>4. QED
      BY <1>5, <2>1, <2>2, <2>3
  <1>14. Unborn'
    BY <1>1, <1>3, <1>9, <1>13, UnbornStep
  <1>15. QED
    BY <1>1, <1>3, <1>8, <1>12, <1>14 DEF Settled

LEMMA InitLInv == Init => LInv
  <1>. SUFFICES ASSUME Init
                PROVE  LInv
    OBVIOUS
  <1>1. AInv
    BY InitAInv
  <1>2. \A t \in Tasks : task[t] = Idle
    BY DEF Init
  <1>3. Idle.op = "none" /\ Idle.pc = "idle"
    BY DEF Idle
  <1>4. \A t \in Tasks : Allowed(task[t]) /\ ~Unstored(task[t])
    BY <1>2, <1>3 DEF Allowed, Unstored
  <1>5. \A u : ActiveSessions(u) = {}
    BY DEF Init, ActiveSessions, NoDoc
  <1>6. QED
    BY <1>1, <1>4, <1>5 DEF LInv, Unborn, Limited, Oldest

LEMMA NextLInv ==
  ASSUME LoginsOnly
  PROVE  LInv /\ [Next]_vars => LInv'
  <1>. SUFFICES ASSUME LInv, [Next]_vars
                PROVE  LInv'
    OBVIOUS
  <1>1. AInv /\ IInv /\ AInv'
    BY NextAInv DEF LInv, AInv
  <1>2. ASSUME NEW t \in Tasks, Step(t)
        PROVE  Settled'
    <2>1. Allowed(task[t])
      BY DEF LInv
    <2>2. CASE task[t].op = "none"
      BY <1>2, <2>1, <2>2 DEF Allowed, Step, Resolve, ResolveFromMap, ResolveFromDb, GetFromCache,
            GetFromDb, Recache, Rotate, PutCache, PutDb, PutMap, IndexUserSession, LimitRead,
            LimitRevoke, RevokeDb, AllRead, AllRevoke, DropCache, DropRead, DropMap, IndexRead,
            IndexDelete, IndexPush
    <2>3. CASE task[t].op = "create"
      BY <1>2, <2>3, CreateSettled, LimitReadSettled
    <2>4. CASE task[t].op = "revoke"
      BY <1>2, <2>4, RevokeSettled
    <2>5. QED
      BY <2>1, <2>2, <2>3, <2>4 DEF Allowed
  <1>3. ASSUME UNCHANGED <<task, db>>
        PROVE  Settled'
    <2>1. \A u : ActiveSessions(u)' = ActiveSessions(u)
      BY <1>3 DEF ActiveSessions
    <2>2. Limited'
      BY <1>3, <2>1 DEF LInv, Limited
    <2>3. \A t \in Tasks : Allowed(task'[t])
      BY <1>3 DEF LInv
    <2>4. Unborn'
      BY <1>3 DEF LInv, Unborn
    <2>5. QED
      BY <2>2, <2>3, <2>4 DEF Settled
  <1>4. \A t \in Tasks : ~Fail(t)
    BY <1>1 DEF Fail, LoginsOnly, IInv, Typed, TypeOK
  <1>5. QED
    BY <1>1, <1>2, <1>3, <1>4, CallSettled DEF Next, Environment, CacheLoseSession, CacheLoseMap,
         Tick, vars, LInv, Settled

(* However the logins of a user interleave, and whichever of its sessions    *)
(* revocations take away meanwhile: once they are over, the user has no more *)
(* active sessions than max_concurrent_sessions.                             *)
THEOREM LimitKept ==
  ASSUME LoginsOnly
  PROVE  Spec => []LimitHolds
  <1>1. LInv => LimitHolds
    <2>. SUFFICES ASSUME LInv, MaxConcurrent > 0, Quiescent, NEW u \in Users
                  PROVE  Cardinality(ActiveSessions(u)) <= MaxConcurrent
      BY DEF LimitHolds
    <2>1. Idle.op = "none"
      BY DEF Idle
    <2>2. \A t \in Tasks : ~Entering(task[t], u) /\ Owed(task[t]) = {}
      BY <2>1 DEF Quiescent, Entering, Owed
    <2>3. Oldest(ActiveSessions(u)) = {}
      BY <2>2 DEF LInv, Limited
    <2>4. ActiveSessions(u) \subseteq Nat
      BY ActiveFinite DEF Sids
    <2>5. QED
      BY <2>3, <2>4, ActiveFinite, OldestEmpty
  <1>2. QED
    BY <1>1, InitLInv, NextLInv, PTL DEF Spec

(* A revocation has found the session it revokes, and its copy of it. *)
Known(r) == r.op = "revoke" => /\ db[r.sid] # NoDoc
                               /\ r.pc = "revoke_db" => r.ses # NoSession

(* The coroutine r is going to drop session s from the cache. *)
Drops(r, s) ==
    /\ r.sid = s
    /\ \/ r.pc = "drop_cache"
       \/ r.op = "revoke" /\ r.pc \in {"get_cache", "get_db", "recache", "revoke_db"}

Swept ==
    \A s \in Sids : db[s].status = "revoked" /\ cache[s] # NoDoc =>
        \E t \in Tasks : Drops(task[t], s)

SInv == LInv /\ (\A t \in Tasks : Known(task[t])) /\ Swept

(* What a step has to keep for revoked sessions to leave the cache. *)
LEMMA SweptStep ==
  ASSUME Swept, NEW t \in Tasks, \A r \in Tasks \ {t} : task'[r] = task[r],
         \A s \in Sids : db'[s].status = "revoked" /\ cache'[s] # NoDoc =>
             \/ Drops(task'[t], s)
             \/ db[s].status = "revoked" /\ cache[s] # NoDoc /\ ~Drops(task[t], s)
  PROVE  Swept'
  <1>. SUFFICES ASSUME NEW s \in Sids, db'[s].status = "revoked", cache'[s] # NoDoc,
                       ~Drops(task'[t], s)
                PROVE  \E r \in Tasks : Drops(task'[r], s)
    BY DEF Swept
  <1>1. PICK r \in Tasks : Drops(task[r], s)
    BY DEF Swept
  <1>2. QED
    BY <1>1

LEMMA CreateSwept ==
  ASSUME HasCache, SInv, NEW t \in Tasks, Step(t), task[t].op = "create"
  PROVE  Swept'
  <1>1. AInv /\ IInv /\ Unborn /\ Swept /\ Allowed(task[t])
    BY DEF SInv, LInv, AInv
  <1>2. task[t].pc \in CreateSteps
    BY <1>1 DEF AInv, Aged
  <1>3. \A r \in Tasks \ {t} : task'[r] = task[r]
    BY <1>1, <1>2, CreateProceeds, EvictRestPursues DEF LimitRead
  <1>4. /\ db \in [Sids -> Docs \cup {NoDoc}] /\ cache \in [Sids -> Docs \cup {NoDoc}]
        /\ task[t] \in TaskStates
    BY <1>1 DEF IInv, Typed, TypeOK
  <1>5. \A s : Drops(task[t], s) => task[t].pc = "drop_cache" /\ s = task[t].sid
    BY DEF Drops
  <1>6. CASE PutCache(t)
    <2>1. Unstored(task[t]) /\ db' = db /\ task[t].pc # "drop_cache"
          /\ cache' = [cache EXCEPT ![task[t].ses.sid] = ToDict(task[t].ses)]
      BY <1>6 DEF PutCache, Unstored
    <2>2. db[task[t].ses.sid].status # "revoked"
      BY <1>1, <2>1 DEF Unborn, NoDoc
    <2>3. \A s \in Sids : s # task[t].ses.sid => cache'[s] = cache[s]
      BY <1>4, <2>1
    <2>4. QED
      BY <1>1, <1>3, <1>5, <2>1, <2>2, <2>3, SweptStep
  <1>7. CASE PutDb(t)
    <2>1. /\ db' = [db EXCEPT ![task[t].ses.sid] = ToDict(task[t].ses)]
          /\ cache' = cache /\ task[t].pc # "drop_cache"
      BY <1>7 DEF PutDb
    <2>2. ToDict(task[t].ses).status # "revoked"
      BY <1>1 DEF Allowed, ToDict
    <2>3. \A s \in Sids : db'[s] = db[s] \/ db'[s].status # "revoked"
      BY <1>4, <2>1, <2>2
    <2>4. QED
      BY <1>1, <1>3, <1>5, <2>1, <2>3, SweptStep
  <1>8. CASE LimitRevoke(t)
    <2>1. PICK x \in task[t].todo :
            db' = RevokeRows({x}) /\ Become(t, [task[t] EXCEPT !.sid = x, !.pc = "drop_cache"])
      BY <1>8 DEF LimitRevoke
    <2>2. task'[t].sid = x /\ task'[t].pc = "drop_cache"
      <3>. DEFINE q == [task[t] EXCEPT !.sid = x, !.pc = "drop_cache"]
      <3>1. q.sid = x /\ q.pc = "drop_cache"
        BY <1>4 DEF TaskStates
      <3>2. task'[t] = q
        BY <1>1, <2>1, Became DEF IInv
      <3>. HIDE DEF q
      <3>3. QED
        BY <3>1, <3>2
    <2>3. Drops(task'[t], x)
      BY <2>2 DEF Drops
    <2>4. \A s \in Sids : s # x => db'[s] = db[s]
      BY <2>1 DEF RevokeRows
    <2>5. cache' = cache /\ task[t].pc # "drop_cache"
      BY <1>8 DEF LimitRevoke
    <2>6. QED
      BY <1>1, <1>3, <1>5, <2>3, <2>4, <2>5, SweptStep
  <1>9. CASE DropCache(t)
    <2>1. db' = db /\ cache' = [cache EXCEPT ![task[t].sid] = NoDoc]
      BY <1>9 DEF DropCache
    <2>2. \A s \in Sids : \/ cache'[s] = NoDoc
                          \/ s # task[t].sid /\ cache'[s] = cache[s]
      BY <1>4, <2>1
    <2>3. QED
      BY <1>1, <1>3, <1>5, <2>1, <2>2, SweptStep
  <1>10. CASE PutMap(t) \/ IndexUserSession(t) \/ LimitRead(t) \/ DropRead(t) \/ DropMap(t)
              \/ IndexRead(t) \/ IndexDelete(t) \/ IndexPush(t)
    <2>1. cache' = cache /\ db' = db /\ task[t].pc # "drop_cache"
      BY <1>10 DEF PutMap, IndexUserSession, LimitRead, DropRead, DropMap, IndexRead, IndexDelete,
                   IndexPush, shared
    <2>2. QED
      BY <1>1, <1>3, <1>5, <2>1, SweptStep
  <1>11. QED
    BY <1>2, <1>6, <1>7, <1>8, <1>9, <1>10, CreateActions

(* Until it has revoked the row, a revocation keeps its session in mind. *)
Minds(t) ==
    /\ task'[t].op = "revoke" /\ task'[t].sid = task[t].sid
    /\ task'[t].pc \in {"get_db", "recache", "revoke_db"}
    /\ task'[t].pc = "revoke_db" => task'[t].ses # NoSession

LEMMA RevokeMinds ==
  ASSUME IInv, NEW t \in Tasks, task[t].op = "revoke", Known(task[t]),
         GetFromCache(t) \/ GetFromDb(t) \/ Recache(t)
  PROVE  Minds(t)
  <1>1. task[t] \in TaskStates /\ Shape(task[t]) /\ task[t].sid \in Sids
    BY DEF IInv, Typed, TypeOK, TaskStates, Shape, GetFromCache, GetFromDb, Recache
  <1>2. ASSUME NEW q, Become(t, q), q.op = "revoke", q.sid = task[t].sid,
               q.pc \in {"get_db", "recache", "revoke_db"},
               q.pc = "revoke_db" => q.ses # NoSession
        PROVE  Minds(t)
    BY <1>2, Became DEF IInv, Minds
  <1>3. ASSUME NEW x, NEW step \in {"recache", "revoke_db"}, x # NoSession,
               Become(t, [task[t] EXCEPT !.ses = x, !.pc = step])
        PROVE  Minds(t)
    <2>. DEFINE q == [task[t] EXCEPT !.ses = x, !.pc = step]
    <2>1. /\ q.op = "revoke" /\ q.sid = task[t].sid /\ q.ses = x
          /\ q.pc \in {"get_db", "recache", "revoke_db"}
      BY <1>1 DEF TaskStates
    <2>2. Become(t, q)
      BY <1>3
    <2>. HIDE DEF q
    <2>3. QED
      BY <1>2, <1>3, <2>1, <2>2
  <1>4. ASSUME NEW x, x # NoSession, Got(t, x)
        PROVE  Minds(t)
    BY <1>3, <1>4 DEF Got, GotForValidate, GotForTouch, GotForRefresh, GotForRevoke
  <1>5. \A d \in Docs : FromDict(d) # NoSession
    BY FromDictType, NullsDiffer
  <1>6. CASE GetFromCache(t)
    <2>1. CASE Goto(t, "get_db")
      <3>. DEFINE q == [task[t] EXCEPT !.pc = "get_db"]
      <3>1. q.op = "revoke" /\ q.sid = task[t].sid /\ q.pc = "get_db"
        BY <1>1 DEF TaskStates
      <3>2. Become(t, q)
        BY <2>1 DEF Goto
      <3>. HIDE DEF q
      <3>3. QED
        BY <1>2, <3>1, <3>2
    <2>2. CASE cache[task[t].sid] # NoDoc /\ Got(t, FromDict(cache[task[t].sid]))
      <3>1. cache[task[t].sid] \in Docs
        BY <1>1, <2>2 DEF IInv, Typed, TypeOK
      <3>2. QED
        BY <1>4, <1>5, <2>2, <3>1
    <2>3. QED
      BY <1>6, <2>1, <2>2 DEF GetFromCache
  <1>7. CASE GetFromDb(t)
    <2>1. db[task[t].sid] # NoDoc
      BY DEF Known
    <2>2. db[task[t].sid] \in Docs
      BY <1>1, <2>1 DEF IInv, Typed, TypeOK
    <2>3. FromDict(db[task[t].sid]) # NoSession
      BY <1>5, <2>2
    <2>4. QED
      BY <1>3, <1>4, <1>7, <2>1, <2>3 DEF GetFromDb
  <1>8. CASE Recache(t)
    BY <1>1, <1>4, <1>8 DEF Recache, Shape
  <1>9. QED
    BY <1>6, <1>7, <1>8

LEMMA RevokeSwept ==
  ASSUME HasCache, SInv, NEW t \in Tasks, Step(t), task[t].op = "revoke"
  PROVE  Swept' /\ Known(task[t])'
  <1>1. IInv /\ Swept /\ Allowed(task[t]) /\ Known(task[t])
    BY DEF SInv, LInv, AInv
  <1>2. /\ \A r \in Tasks \ {t} : task'[r] = task[r]
        /\ task[t].pc \in RevokeSteps /\ Insists(t)
    BY <1>1, OthersStay, RevokeProceeds DEF Allowed
  <1>3. /\ db \in [Sids -> Docs \cup {NoDoc}] /\ cache \in [Sids -> Docs \cup {NoDoc}]
        /\ task[t] \in TaskStates
    BY <1>1 DEF IInv, Typed, TypeOK
  <1>4. Idle.op = "none"
    BY DEF Idle
  <1>5. db[task[t].sid] # NoDoc /\ db'[task[t].sid] # NoDoc
    <2>1. task[t].sid \in Sids
      BY <1>1, <1>2, <1>3 DEF IInv, Typed, Shape, RevokeSteps, DropSteps, TaskStates
    <2>2. [Next]_vars
      BY DEF Next
    <2>3. QED
      BY <1>1, <2>1, <2>2, Lasting DEF Known
  <1>6. \A s \in Sids : Drops(task[t], s) => s = task[t].sid
    BY DEF Drops
  <1>7. CASE GetFromCache(t) \/ GetFromDb(t) \/ Recache(t)
    <2>1. Minds(t)
      BY <1>1, <1>7, RevokeMinds
    <2>2. Known(task[t])' /\ Drops(task'[t], task[t].sid)
      BY <1>5, <2>1 DEF Minds, Known, Drops
    <2>3. db' = db /\ \A s \in Sids : s # task[t].sid => cache'[s] = cache[s]
      BY <1>3, <1>7 DEF GetFromCache, GetFromDb, Recache, shared
    <2>4. QED
      BY <1>1, <1>2, <1>6, <2>2, <2>3, SweptStep
  <1>8. CASE RevokeDb(t)
    <2>. DEFINE q == [task[t] EXCEPT !.user = task[t].ses.user, !.pc = "drop_cache"]
    <2>1. q.op = "revoke" /\ q.pc = "drop_cache" /\ q.sid = task[t].sid
      BY <1>3 DEF TaskStates
    <2>2. Become(t, q) /\ db' = RevokeRows({task[t].sid}) /\ cache' = cache
      BY <1>1, <1>8 DEF RevokeDb, Known
    <2>3. task'[t] = q
      BY <1>1, <2>2, Became DEF IInv
    <2>. HIDE DEF q
    <2>4. Known(task[t])' /\ Drops(task'[t], task[t].sid)
      BY <1>5, <2>1, <2>3 DEF Known, Drops
    <2>5. \A s \in Sids : s # task[t].sid => db'[s] = db[s]
      BY <2>2 DEF RevokeRows
    <2>6. QED
      BY <1>1, <1>2, <1>6, <2>2, <2>4, <2>5, SweptStep
  <1>9. CASE task[t].pc \in DropSteps
    <2>1. DropCache(t) \/ DropRead(t) \/ DropMap(t) \/ IndexRead(t) \/ IndexDelete(t) \/ IndexPush(t)
      BY <1>2, <1>9, RevokeActions DEF GetFromCache, GetFromDb, Recache, RevokeDb, DropSteps
    <2>2. task'[t].pc # "revoke_db"
      <3>1. ASSUME NEW q, Become(t, q), q.pc # "revoke_db"
            PROVE  task'[t].pc # "revoke_db"
        BY <1>1, <3>1, Became DEF IInv
      <3>2. ASSUME NEW step \in DropSteps, Goto(t, step)
            PROVE  task'[t].pc # "revoke_db"
        BY <1>3, <3>1, <3>2 DEF Goto, TaskStates, DropSteps
      <3>3. CASE Dropped(t)
        BY <3>1, <3>3 DEF Dropped, Finish, Idle
      <3>4. CASE DropRead(t)
        <4>. DEFINE j == db[task[t].sid].tok
                    q == [task[t] EXCEPT !.tok = j,
                             !.pc = IF j = NoToken THEN "index_read" ELSE "drop_map"]
        <4>1. q.pc # "revoke_db"
          BY <1>3 DEF TaskStates
        <4>2. QED
          BY <3>1, <3>4, <4>1 DEF DropRead
      <3>5. CASE IndexRead(t)
        <4>. DEFINE q == [task[t] EXCEPT !.keep = index[task[t].user] \ {task[t].sid},
                                         !.pc = "index_delete"]
        <4>1. q.pc # "revoke_db"
          BY <1>3 DEF TaskStates
        <4>2. QED
          BY <3>1, <3>5, <4>1 DEF IndexRead
      <3>6. QED
        BY <2>1, <3>2, <3>3, <3>4, <3>5 DEF DropCache, DropMap, IndexDelete, IndexPush, DropSteps
    <2>3. Known(task[t])'
      BY <1>2, <1>4, <1>5, <2>2 DEF Known, Insists
    <2>4. db' = db
      BY <2>1 DEF DropCache, DropRead, DropMap, IndexRead, IndexDelete, IndexPush, shared
    <2>5. CASE DropCache(t)
      <3>1. \A s \in Sids : \/ cache'[s] = NoDoc
                            \/ s # task[t].sid /\ cache'[s] = cache[s]
        BY <1>3, <2>5 DEF DropCache
      <3>2. QED
        BY <1>1, <1>2, <1>6, <2>3, <2>4, <3>1, SweptStep
    <2>6. CASE ~DropCache(t)
      <3>1. cache' = cache /\ task[t].pc # "drop_cache"
        BY <2>1, <2>6 DEF DropRead, DropMap, IndexRead, IndexDelete, IndexPush, shared
      <3>2. \A s : ~Drops(task[t], s)
        BY <1>9, <3>1 DEF Drops, DropSteps
      <3>3. QED
        BY <1>1, <1>2, <2>3, <2>4, <3>1, <3>2, SweptStep
    <2>7. QED
      BY <2>5, <2>6
  <1>10. QED
    BY <1>2, <1>7, <1>8, <1>9, RevokeActions DEF DropCache, DropRead, DropMap, IndexRead,
         IndexDelete, IndexPush, DropSteps

LEMMA CallKnown ==
  ASSUME LoginsOnly, SInv, NEW t \in Tasks, Call(t)
  PROVE  Swept' /\ Known(task[t])'
  <1>1. IInv /\ Swept
    BY DEF SInv, LInv, AInv
  <1>2. (\A r \in Tasks \ {t} : task'[r] = task[r]) /\ UNCHANGED <<cache, db>>
    BY <1>1, CallStarts
  <1>3. task[t] = Idle
    BY DEF Call, CreateSession, RevokeAllUserSessions, ResetPassword, ValidateSession,
           RefreshSession, RevokeSession
  <1>4. \A s : ~Drops(task[t], s)
    BY <1>3 DEF Drops, Idle
  <1>5. Swept'
    BY <1>1, <1>2, <1>4, SweptStep
  <1>6. CASE task'[t].op = "create"
    BY <1>5, <1>6 DEF Known
  <1>7. CASE \E s \in Sids : RevokeSession(t, s)
    <2>1. PICK s \in Sids : /\ db[s] # NoDoc
                            /\ Become(t, [Idle EXCEPT !.op = "revoke", !.pc = GetStart, !.sid = s])
      BY <1>7 DEF RevokeSession
    <2>. DEFINE q == [Idle EXCEPT !.op = "revoke", !.pc = GetStart, !.sid = s]
    <2>2. q.sid = s /\ q.pc # "revoke_db"
      BY DEF Idle, GetStart
    <2>3. task'[t] = q
      BY <1>1, <2>1, Became DEF IInv
    <2>. HIDE DEF q
    <2>4. QED
      BY <1>2, <1>5, <2>1, <2>2, <2>3 DEF Known
  <1>8. CASE \E u \in Users : CreateSession(t, u)
    <2>1. PICK u \in Users, s \in Fresh(MaxSid, owner, NoUser),
                            k \in Fresh(MaxToken, minted, NoSid) :
            Become(t, [Idle EXCEPT !.op = "create", !.pc = PutStart, !.user = u, !.sid = s,
                                   !.ses = [sid |-> s, user |-> u, tok |-> k,
                                            exp |-> now + Lifetime, revoked |-> FALSE]])
      BY <1>8 DEF CreateSession
    <2>. DEFINE x == [sid |-> s, user |-> u, tok |-> k, exp |-> now + Lifetime, revoked |-> FALSE]
                q == [Idle EXCEPT !.op = "create", !.pc = PutStart, !.user = u,
                                  !.sid = s, !.ses = x]
    <2>2. q.op = "create"
      BY DEF Idle
    <2>3. task'[t] = q
      BY <1>1, <2>1, Became DEF IInv
    <2>. HIDE DEF q
    <2>4. QED
      BY <1>6, <2>2, <2>3
  <1>9. QED
    BY <1>7, <1>8 DEF Call, LoginsOnly, RevokeAllUserSessions, ResetPassword, ValidateSession,
                      RefreshSession

LEMMA NextSInv ==
  ASSUME LoginsOnly, HasCache
  PROVE  SInv /\ [Next]_vars => SInv'
  <1>. SUFFICES ASSUME SInv, [Next]_vars
                PROVE  (\A t \in Tasks : Known(task[t])') /\ Swept'
    BY NextLInv DEF SInv
  <1>1. IInv /\ Swept /\ \A t \in Tasks : Known(task[t]) /\ Allowed(task[t])
    BY DEF SInv, LInv, AInv
  <1>2. ASSUME NEW t \in Tasks, task'[t] = task[t]
        PROVE  Known(task[t])'
    <2>1. ASSUME task[t].op = "revoke"
          PROVE  task[t].sid \in Sids
      BY <1>1, <2>1 DEF IInv, Typed, TypeOK, Shape, Allowed, RevokeSteps, DropSteps, TaskStates
    <2>2. QED
      BY <1>1, <1>2, <2>1, Lasting DEF Known
  <1>3. ASSUME NEW t \in Tasks, Call(t) \/ Step(t)
        PROVE  (\A r \in Tasks : Known(task[r])') /\ Swept'
    <2>1. \A r \in Tasks \ {t} : task'[r] = task[r]
      <3>1. CASE task[t].op = "create" /\ Step(t)
        BY <1>1, <3>1, CreateProceeds, EvictRestPursues DEF SInv, LInv, AInv, Aged, LimitRead
      <3>2. QED
        BY <1>1, <1>3, <3>1, CallStarts, OthersStay
    <2>2. Known(task[t])' /\ Swept'
      <3>1. CASE Call(t)
        BY <3>1, CallKnown
      <3>2. CASE Step(t) /\ task[t].op = "revoke"
        BY <3>2, RevokeSwept
      <3>3. CASE Step(t) /\ task[t].op = "create"
        <4>1. task'[t].op # "revoke"
          <5>1. CASE LimitRead(t)
            <6>. DEFINE O == Oldest(ActiveSessions(task[t].user))
                        q == [task[t] EXCEPT !.todo = O, !.pc = "limit_revoke"]
            <6>1. task'[t] = Idle \/ task'[t] = q
              BY <1>1, <3>3, <5>1, EvictRestPursues DEF LimitRead
            <6>2. q.op = "create" /\ Idle.op = "none"
              BY <1>1, <3>3 DEF Idle, IInv, Typed, TypeOK, TaskStates
            <6>. HIDE DEF q
            <6>3. QED
              BY <6>1, <6>2
          <5>2. CASE ~LimitRead(t)
            BY <1>1, <3>3, <5>2, CreateProceeds DEF SInv, LInv, AInv, Aged, Pursues, Idle
          <5>3. QED
            BY <5>1, <5>2
        <4>2. QED
          BY <3>3, <4>1, CreateSwept DEF Known
      <3>4. CASE Step(t) /\ task[t].op = "none"
        BY <1>1, <3>4 DEF Allowed, Step, Resolve, ResolveFromMap, ResolveFromDb, GetFromCache,
              GetFromDb, Recache, Rotate, PutCache, PutDb, PutMap, IndexUserSession, LimitRead,
              LimitRevoke, RevokeDb, AllRead, AllRevoke, DropCache, DropRead, DropMap, IndexRead,
              IndexDelete, IndexPush
      <3>5. QED
        BY <1>1, <1>3, <3>1, <3>2, <3>3, <3>4 DEF Allowed
    <2>3. QED
      BY <1>2, <2>1, <2>2
  <1>4. ASSUME UNCHANGED <<task, db>>, \A s \in Sids : cache'[s] \in {NoDoc, cache[s]}
        PROVE  (\A t \in Tasks : Known(task[t])') /\ Swept'
    <2>1. Swept'
      BY <1>1, <1>4 DEF Swept
    <2>2. QED
      BY <1>2, <1>4, <2>1
  <1>5. \A t \in Tasks : ~Fail(t)
    BY <1>1 DEF Fail, LoginsOnly, IInv, Typed, TypeOK
  <1>6. CASE \E s \in Sids : CacheLoseSession(s)
    BY <1>1, <1>4, <1>6 DEF CacheLoseSession, IInv, Typed, TypeOK
  <1>7. QED
    BY <1>3, <1>4, <1>5, <1>6 DEF Next, Environment, CacheLoseMap, Tick, vars

(* When the calls in progress are over, no cached copy of a revoked session  *)
(* is left: whoever put one there was, or will be followed by, the login or  *)
(* the revocation that drops it.                                             *)
THEOREM RevokedGone ==
  ASSUME LoginsOnly, HasCache
  PROVE  Spec => []RevokedIsGone
  <1>1. Init => SInv
    <2>. SUFFICES ASSUME Init
                  PROVE  SInv
      OBVIOUS
    <2>1. \A t \in Tasks : task[t].op = "none"
      BY DEF Init, Idle
    <2>2. \A s \in Sids : cache[s] = NoDoc
      BY DEF Init
    <2>3. QED
      BY <2>1, <2>2, InitLInv DEF SInv, Known, Swept
  <1>2. SInv => RevokedIsGone
    BY DEF SInv, Swept, Drops, RevokedIsGone, Quiescent, Idle
  <1>3. QED
    BY <1>1, <1>2, NextSInv, PTL DEF Spec

-----------------------------------------------------------------------------
(* Without a cache: rotation replaces a token for good                        *)

(* There is no cache and nobody validates: the last-active update that follows *)
(* a validation stores the token it read before (see Useless).                 *)
RowsOnly == ~HasCache /\ "validate" \notin Ops

(* Where a coroutine r can be when the clients hold the tokens H; a refresh    *)
(* was called with one of them.                                                *)
Confined(r, H) ==
    /\ r.op \in {"none", "create", "refresh", "revoke", "revokeAll", "reset"}
    /\ r.op = "none" => r.pc = "idle"
    /\ r.op = "create" => r.pc \in {"put_db", "limit_read", "limit_revoke"}
    /\ r.op = "refresh" => r.pc \in {"scan_db", "rotate", "put_db"} /\ r.tok \in H
    /\ r.op = "revoke" => r.pc \in {"get_db", "revoke_db"}
    /\ r.op \in {"revokeAll", "reset"} => r.pc \in {"all_read", "all_revoke"}

(* A token that is to be stored is known to one coroutine and to no client.    *)
Mints(r) == r.op = "create" \/ r.pc = "put_db"
Withheld ==
    /\ \A t \in Tasks : task[t].pc = "put_db" => task[t].ses.tok \notin handed
    /\ \A r, t \in Tasks : r # t /\ Mints(task[r]) /\ Mints(task[t]) =>
         task[r].ses.tok # task[t].ses.tok

(* A replaced token was a client's, and no active row has it.                  *)
Replaced == retired \subseteq handed /\ \A k \in retired, s \in Sids : ~Carries(db[s], k)

RInv == IInv /\ (\A t \in Tasks : Confined(task[t], handed)) /\ Withheld /\ Replaced

(* What a coroutine is about to store has a minted token.                      *)
LEMMA MintsMinted ==
  ASSUME RInv, NEW t \in Tasks, Mints(task[t])
  PROVE  task[t].ses.tok \in Tokens /\ minted[task[t].ses.tok] # NoSid
  <1>1. task[t] \in TaskStates /\ Shape(task[t]) /\ OwnedLocals(task[t])
    BY DEF RInv, IInv, Typed, TypeOK, Owned
  <1>2. task[t].ses \in SessionObjects /\ task[t].ses # NoSession
    BY <1>1 DEF Mints, Shape, TaskStates
  <1>3. QED
    BY <1>1, <1>2, NullsDiffer DEF OwnedLocals, OwnCopy, SessionObjects

(* A coroutine keeps its token or draws a fresh one, and may hand it out.      *)
LEMMA WithheldStep ==
  ASSUME RInv, NEW t \in Tasks, NEW q, Become(t, q), Confined(q, handed'),
         \/ handed' = handed
         \/ Mints(task[t]) /\ handed' = handed \cup {task[t].ses.tok} /\ q.pc # "put_db",
         Mints(q) =>
            \/ /\ Mints(task[t]) /\ q.ses.tok = task[t].ses.tok
               /\ q.pc = "put_db" => task[t].pc = "put_db"
            \/ minted[q.ses.tok] = NoSid /\ handed' = handed
  PROVE  (\A r \in Tasks : Confined(task[r], handed))' /\ Withheld'
  <1>1. task'[t] = q /\ \A r \in Tasks \ {t} : task'[r] = task[r]
    BY Became DEF RInv, IInv
  <1>2. ASSUME NEW r \in Tasks
        PROVE  Confined(task'[r], handed')
    BY <1>1 DEF RInv, Confined
  <1>3. \A k \in handed : minted[k] # NoSid
    BY DEF RInv, IInv, Owned, OwnedTokens
  <1>4. ASSUME NEW r \in Tasks, task'[r].pc = "put_db"
        PROVE  task'[r].ses.tok \notin handed'
    <2>1. CASE r = t
      BY <1>1, <1>3, <1>4, <2>1 DEF RInv, Withheld, Mints
    <2>2. CASE r # t
      BY <1>1, <1>4, <2>2 DEF RInv, Withheld, Mints
    <2>3. QED
      BY <2>1, <2>2
  <1>5. ASSUME NEW r \in Tasks \ {t}, Mints(task'[r]), Mints(q)
        PROVE  task'[r].ses.tok # q.ses.tok
    <2>1. Mints(task[r]) /\ task'[r].ses.tok = task[r].ses.tok
      BY <1>1, <1>5
    <2>2. minted[task[r].ses.tok] # NoSid
      BY <2>1, MintsMinted
    <2>3. QED
      BY <1>5, <2>1, <2>2 DEF RInv, Withheld
  <1>6. ASSUME NEW r \in Tasks, NEW u \in Tasks, r # u, Mints(task'[r]), Mints(task'[u])
        PROVE  task'[r].ses.tok # task'[u].ses.tok
    <2>1. CASE r = t \/ u = t
      BY <1>1, <1>5, <1>6, <2>1
    <2>2. CASE r # t /\ u # t
      BY <1>1, <1>6, <2>2 DEF RInv, Withheld
    <2>3. QED
      BY <2>1, <2>2
  <1>7. QED
    BY <1>2, <1>4, <1>6 DEF Withheld

(* No step but PutDb writes a row, except to revoke it.                        *)
LEMMA ReplacedKept ==
  ASSUME RInv, retired' = retired, handed \subseteq handed',
         db' = db \/ \E S : db' = RevokeRows(S)
  PROVE  Replaced'
  <1>1. ASSUME NEW k \in retired, NEW s \in Sids
        PROVE  ~Carries(db'[s], k)
    <2>1. ~Carries(db[s], k)
      BY DEF RInv, Replaced
    <2>2. CASE db' = db
      BY <2>1, <2>2
    <2>3. ASSUME NEW S, db' = RevokeRows(S)
          PROVE  ~Carries(db'[s], k)
      BY <2>1, <2>3, RevokeRowsCarry DEF RInv, IInv, Typed, TypeOK
    <2>4. QED
      BY <2>2, <2>3
  <1>2. retired \subseteq handed
    BY DEF RInv, Replaced
  <1>3. QED
    BY <1>1, <1>2 DEF Replaced

LEMMA ConfinedIdle == ASSUME NEW H PROVE Confined(Idle, H) /\ ~Mints(Idle) /\ Idle.pc # "put_db"
  BY DEF Confined, Idle, Mints

Moves == (\A r \in Tasks : Confined(task[r], handed))' /\ Withheld' /\ Replaced'

(* A call begins. *)
LEMMA CallMoves ==
  ASSUME RInv, RowsOnly, NEW t \in Tasks, Call(t)
  PROVE  Moves
  <1>1. ASSUME NEW u \in Users, CreateSession(t, u)
        PROVE  Moves
    <2>1. PICK s \in Fresh(MaxSid, owner, NoUser), k \in Fresh(MaxToken, minted, NoSid) :
             Become(t, [Idle EXCEPT !.op = "create", !.pc = PutStart, !.user = u, !.sid = s,
                        !.ses = [sid |-> s, user |-> u, tok |-> k,
                                 exp |-> now + Lifetime, revoked |-> FALSE]])
      BY <1>1 DEF CreateSession
    <2>. DEFINE q == [Idle EXCEPT !.op = "create", !.pc = PutStart, !.user = u, !.sid = s,
                        !.ses = [sid |-> s, user |-> u, tok |-> k,
                                 exp |-> now + Lifetime, revoked |-> FALSE]]
    <2>2. q.op = "create" /\ q.pc = "put_db" /\ q.ses.tok = k /\ minted[k] = NoSid
      BY FreshIn DEF Idle, PutStart, RowsOnly
    <2>3. UNCHANGED <<db, handed, retired>>
      BY <1>1 DEF CreateSession
    <2>4. Confined(q, handed')
      BY <2>2 DEF Confined
    <2>5. Become(t, q)
      BY <2>1
    <2>6. QED
      <3>. HIDE DEF q
      <3>1. QED
        BY <2>2, <2>3, <2>4, <2>5, WithheldStep, ReplacedKept DEF Moves
  <1>2. ASSUME NEW q, Become(t, q), Confined(q, handed), ~Mints(q), UNCHANGED shared
        PROVE  Moves
    BY <1>2, WithheldStep, ReplacedKept DEF shared, Moves
  <1>3. ASSUME NEW k \in Tokens, RefreshSession(t, k)
        PROVE  Moves
    <2>. DEFINE q == [Idle EXCEPT !.op = "refresh", !.pc = ResolveStart,
                                  !.user = owner[minted[k]], !.tok = k]
    <2>1. Confined(q, handed) /\ ~Mints(q)
      BY <1>3 DEF RefreshSession, Confined, Mints, Idle, ResolveStart, RowsOnly
    <2>2. Become(t, q) /\ UNCHANGED shared
      BY <1>3 DEF RefreshSession
    <2>3. QED
      <3>. HIDE DEF q
      <3>1. QED
        BY <1>2, <2>1, <2>2
  <1>4. ASSUME NEW s \in Sids, RevokeSession(t, s)
        PROVE  Moves
    <2>. DEFINE q == [Idle EXCEPT !.op = "revoke", !.pc = GetStart, !.sid = s]
    <2>1. Confined(q, handed) /\ ~Mints(q)
      BY DEF Confined, Mints, Idle, GetStart, RowsOnly
    <2>2. Become(t, q) /\ UNCHANGED shared
      BY <1>4 DEF RevokeSession
    <2>3. QED
      <3>. HIDE DEF q
      <3>1. QED
        BY <1>2, <2>1, <2>2
  <1>5. ASSUME NEW u \in Users, RevokeAllUserSessions(t, u) \/ ResetPassword(t, u)
        PROVE  Moves
    <2>1. PICK method \in {"revokeAll", "reset"}, step \in {"all_read", "all_revoke"} :
             Become(t, [Idle EXCEPT !.op = method, !.pc = step, !.user = u])
      BY <1>5 DEF RevokeAllUserSessions, ResetPassword
    <2>. DEFINE q == [Idle EXCEPT !.op = method, !.pc = step, !.user = u]
    <2>2. Confined(q, handed) /\ ~Mints(q)
      BY DEF Confined, Mints, Idle
    <2>3. Become(t, q) /\ UNCHANGED shared
      BY <1>5, <2>1 DEF RevokeAllUserSessions, ResetPassword
    <2>4. QED
      <3>. HIDE DEF q
      <3>1. QED
        BY <1>2, <2>2, <2>3
  <1>6. QED
    BY <1>1, <1>3, <1>4, <1>5 DEF Call, ValidateSession, RowsOnly

(* The steps of a coroutine that has no cache. *)
LEMMA RowActions ==
  ASSUME RInv, RowsOnly, NEW t \in Tasks, Step(t)
  PROVE  \/ ResolveFromDb(t) \/ GetFromDb(t) \/ Rotate(t) \/ PutDb(t)
         \/ LimitRead(t) \/ LimitRevoke(t) \/ RevokeDb(t) \/ AllRead(t) \/ AllRevoke(t)
  <1>1. task[t].pc \in {"idle", "put_db", "limit_read", "limit_revoke", "scan_db", "rotate",
                        "get_db", "revoke_db", "all_read", "all_revoke"}
    BY DEF RInv, Confined
  <1>2. QED
    BY <1>1 DEF Step, Resolve, GetFromCache, Recache, PutCache, PutMap, IndexUserSession,
                DropCache, DropRead, DropMap, IndexRead, IndexDelete, IndexPush, RowsOnly

(* The steps that store nothing or revoke rows. *)
LEMMA QuietMoves ==
  ASSUME RInv, RowsOnly, NEW t \in Tasks,
         ResolveFromDb(t) \/ GetFromDb(t) \/ RevokeDb(t) \/ AllRead(t) \/ AllRevoke(t)
  PROVE  Moves
  <1>1. task[t] \in TaskStates /\ Shape(task[t]) /\ Confined(task[t], handed)
    BY DEF RInv, IInv, Typed, TypeOK
  <1>2. UNCHANGED <<handed, retired>> /\ (db' = db \/ \E S : db' = RevokeRows(S))
    BY DEF ResolveFromDb, GetFromDb, RevokeDb, AllRead, AllRevoke, shared
  <1>3. ASSUME NEW q, Become(t, q), Confined(q, handed), ~Mints(q)
        PROVE  Moves
    BY <1>2, <1>3, WithheldStep, ReplacedKept DEF Moves
  <1>4. CASE Finish(t)
    BY <1>3, <1>4, ConfinedIdle DEF Finish
  <1>5. CASE ResolveFromDb(t) /\ ~Finish(t)
    <2>1. PICK s \in Sids : Become(t, [task[t] EXCEPT !.sid = s, !.pc = "rotate",
                                                      !.ses = FromDict(db[s])])
      BY <1>5 DEF ResolveFromDb, ActiveSessions
    <2>. DEFINE q == [task[t] EXCEPT !.sid = s, !.pc = "rotate", !.ses = FromDict(db[s])]
    <2>2. task[t].op = "refresh"
      BY <1>1, <1>5 DEF ResolveFromDb, Shape
    <2>3. q.op = "refresh" /\ q.pc = "rotate" /\ q.tok = task[t].tok
      BY <1>1, <2>2 DEF TaskStates
    <2>4. Confined(q, handed) /\ ~Mints(q)
      BY <1>1, <2>2, <2>3 DEF Confined, Mints
    <2>5. QED
      BY <1>3, <2>1, <2>4
  <1>6. CASE GetFromDb(t) /\ ~Finish(t)
    <2>1. task[t].op = "revoke"
      BY <1>1, <1>6 DEF GetFromDb, Confined
    <2>2. PICK x : Become(t, [task[t] EXCEPT !.ses = x, !.pc = "revoke_db"])
      BY <1>6, <2>1 DEF GetFromDb, Got, GotForValidate, GotForTouch, GotForRefresh, GotForRevoke,
                        RowsOnly
    <2>. DEFINE q == [task[t] EXCEPT !.ses = x, !.pc = "revoke_db"]
    <2>3. q.op = "revoke" /\ q.pc = "revoke_db"
      BY <1>1, <2>1 DEF TaskStates
    <2>4. Confined(q, handed) /\ ~Mints(q)
      BY <2>3 DEF Confined, Mints
    <2>5. QED
      BY <1>3, <2>2, <2>4
  <1>7. CASE RevokeDb(t) \/ AllRevoke(t)
    BY <1>4, <1>7 DEF RevokeDb, AllRevoke, DropRest, RowsOnly
  <1>8. CASE AllRead(t)
    <2>. DEFINE q == [task[t] EXCEPT !.todo = ActiveSessions(task[t].user), !.pc = "all_revoke"]
    <2>1. task[t].op \in {"revokeAll", "reset"}
      BY <1>1, <1>8 DEF AllRead, Confined
    <2>2. q.op \in {"revokeAll", "reset"} /\ q.pc = "all_revoke"
      BY <1>1, <2>1 DEF TaskStates
    <2>3. Confined(q, handed) /\ ~Mints(q) /\ Become(t, q)
      BY <1>8, <2>2 DEF Confined, Mints, AllRead
    <2>4. QED
      BY <1>3, <2>3
  <1>9. QED
    BY <1>4, <1>5, <1>6, <1>7, <1>8

(* A login evicts, and hands its session out in the end. *)
LEMMA LimitMoves ==
  ASSUME RInv, RowsOnly, NEW t \in Tasks, LimitRead(t) \/ LimitRevoke(t)
  PROVE  Moves
  <1>1. task[t] \in TaskStates /\ Shape(task[t]) /\ task[t].op = "create"
    BY DEF RInv, IInv, Typed, TypeOK, LimitRead, LimitRevoke, Shape
  <1>2. retired' = retired /\ (db' = db \/ \E S : db' = RevokeRows(S))
    BY DEF LimitRead, LimitRevoke
  <1>3. PICK rest : EvictRest(t, rest)
    BY DEF LimitRead, LimitRevoke, RowsOnly
  <1>4. CASE rest = {}
    <2>1. Become(t, Idle) /\ handed' = handed \cup {task[t].ses.tok} /\ Mints(task[t])
      BY <1>1, <1>3, <1>4 DEF EvictRest, Finish, Mints
    <2>2. QED
      BY <1>2, <2>1, ConfinedIdle, WithheldStep, ReplacedKept DEF Moves
  <1>5. CASE rest # {}
    <2>. DEFINE q == [task[t] EXCEPT !.todo = rest, !.pc = "limit_revoke"]
    <2>1. Become(t, q) /\ handed' = handed
      BY <1>3, <1>5 DEF EvictRest
    <2>2. q.op = "create" /\ q.pc = "limit_revoke" /\ q.ses = task[t].ses
      BY <1>1 DEF TaskStates
    <2>3. Confined(q, handed') /\ Mints(task[t])
      BY <1>1, <2>2 DEF Confined, Mints
    <2>4. QED
      <3>. HIDE DEF q
      <3>1. QED
        BY <1>2, <2>1, <2>2, <2>3, WithheldStep, ReplacedKept DEF Moves
  <1>6. QED
    BY <1>4, <1>5

(* A rotation draws a token. *)
LEMMA RotateMoves ==
  ASSUME RInv, RowsOnly, NEW t \in Tasks, Rotate(t)
  PROVE  Moves
  <1>1. task[t] \in TaskStates /\ Shape(task[t]) /\ Confined(task[t], handed)
    BY DEF RInv, IInv, Typed, TypeOK
  <1>2. task[t].op = "refresh" /\ task[t].ses \in SessionObjects
    BY <1>1 DEF Rotate, Shape, TaskStates
  <1>3. PICK k \in Fresh(MaxToken, minted, NoSid) :
           Become(t, [task[t] EXCEPT !.pc = PutStart,
                                     !.ses = [@ EXCEPT !.tok = k, !.exp = now + Lifetime]])
    BY DEF Rotate
  <1>. DEFINE q == [task[t] EXCEPT !.pc = PutStart,
                                   !.ses = [@ EXCEPT !.tok = k, !.exp = now + Lifetime]]
  <1>4. q.op = "refresh" /\ q.pc = "put_db" /\ q.tok = task[t].tok /\ q.ses.tok = k
    BY <1>1, <1>2 DEF TaskStates, SessionObjects, PutStart, RowsOnly
  <1>5. minted[k] = NoSid
    BY FreshIn
  <1>6. UNCHANGED <<db, handed, retired>>
    BY DEF Rotate
  <1>7. Confined(q, handed') /\ Become(t, q)
    BY <1>1, <1>2, <1>3, <1>4, <1>6 DEF Confined
  <1>8. QED
    <2>. HIDE DEF q
    <2>1. QED
      BY <1>4, <1>5, <1>6, <1>7, WithheldStep, ReplacedKept DEF Moves

(* A row is stored: what it has had is the token of the session being rotated. *)
LEMMA PutDbReplaced ==
  ASSUME RInv, RowsOnly, NEW t \in Tasks, PutDb(t)
  PROVE  Replaced'
  <1>1. task[t] \in TaskStates /\ Shape(task[t]) /\ Confined(task[t], handed)
        /\ OwnedLocals(task[t]) /\ task[t].pc = "put_db"
    BY DEF RInv, IInv, Typed, TypeOK, Owned, PutDb
  <1>2. PICK x \in SessionObjects : x = task[t].ses
    BY <1>1 DEF Shape, TaskStates
  <1>3. x.sid \in Sids /\ x.tok \notin handed
    BY <1>1, <1>2 DEF RInv, Withheld, SessionObjects
  <1>4. db' = [db EXCEPT ![x.sid] = ToDict(x)] /\ ToDict(x).tok = x.tok
    BY <1>2 DEF PutDb, ToDict
  <1>5. \/ UNCHANGED <<handed, retired>>
        \/ /\ task[t].op = "refresh" /\ handed' = handed \cup {x.tok}
           /\ retired' = retired \cup {task[t].tok}
    BY <1>2 DEF PutDb, Stored, RowsOnly
  <1>6. db \in [Sids -> Docs \cup {NoDoc}] /\ OwnedStores /\ retired \subseteq handed
    BY DEF RInv, IInv, Typed, TypeOK, Owned, Replaced
  <1>7. ASSUME task[t].op = "refresh"
        PROVE  task[t].tok \in handed /\ task[t].tok \in Tokens /\ minted[task[t].tok] = x.sid
    <2>1. task[t].tok \in handed
      BY <1>1, <1>7 DEF Confined
    <2>2. task[t].tok \in Tokens
      BY <2>1 DEF RInv, IInv, Typed, TypeOK
    <2>3. x # NoSession
      BY <1>2, NullsDiffer
    <2>4. x.sid = task[t].sid /\ task[t].sid \in {NoSid, minted[task[t].tok]}
      BY <1>1, <1>2, <1>7, <2>3 DEF OwnedLocals
    <2>5. QED
      BY <1>3, <2>1, <2>2, <2>4, NullsDiffer
  <1>8. ASSUME NEW k \in retired', NEW s \in Sids, Carries(db'[s], k)
        PROVE  FALSE
    <2>1. k \in handed
      BY <1>5, <1>6, <1>7
    <2>2. CASE s = x.sid
      BY <1>3, <1>4, <1>6, <1>8, <2>1, <2>2 DEF Carries
    <2>3. CASE s # x.sid
      <3>1. Carries(db[s], k)
        BY <1>4, <1>6, <1>8, <2>3
      <3>2. k \notin retired
        BY <3>1 DEF RInv, Replaced
      <3>3. minted[k] = x.sid
        BY <1>5, <1>7, <1>8, <3>2
      <3>4. minted[k] = s
        BY <1>6, <3>1 DEF OwnedStores, OwnCopy, Carries, NoDoc
      <3>5. QED
        BY <2>3, <3>3, <3>4
    <2>4. QED
      BY <2>2, <2>3
  <1>9. QED
    BY <1>5, <1>6, <1>7, <1>8 DEF Replaced

LEMMA PutDbMoves ==
  ASSUME RInv, RowsOnly, NEW t \in Tasks, PutDb(t)
  PROVE  Moves
  <1>1. task[t] \in TaskStates /\ Confined(task[t], handed) /\ Mints(task[t])
    BY DEF RInv, IInv, Typed, TypeOK, PutDb, Mints
  <1>2. Stored(t)
    BY DEF PutDb, RowsOnly
  <1>3. CASE task[t].op = "create"
    <2>. DEFINE q == [task[t] EXCEPT !.pc = "limit_read"]
    <2>1. Become(t, q) /\ handed' = handed
      BY <1>2, <1>3 DEF Stored, Goto, RowsOnly
    <2>2. q.op = "create" /\ q.pc = "limit_read" /\ q.ses = task[t].ses
      BY <1>1, <1>3 DEF TaskStates
    <2>3. Confined(q, handed')
      BY <2>2 DEF Confined
    <2>4. QED
      <3>. HIDE DEF q
      <3>1. QED
        BY <1>1, <2>1, <2>2, <2>3, WithheldStep, PutDbReplaced DEF Moves
  <1>4. CASE task[t].op # "create"
    <2>1. Become(t, Idle) /\ (handed' = handed \/ handed' = handed \cup {task[t].ses.tok})
      BY <1>2, <1>4 DEF Stored, Finish
    <2>2. QED
      BY <1>1, <2>1, ConfinedIdle, WithheldStep, PutDbReplaced DEF Moves
  <1>5. QED
    BY <1>3, <1>4

LEMMA EnvironmentMoves ==
  ASSUME RInv, RowsOnly, Environment
  PROVE  Moves
  <1>1. UNCHANGED <<db, handed, retired>>
    BY DEF Environment, CacheLoseSession, CacheLoseMap, Fail, Tick
  <1>2. ASSUME NEW t \in Tasks, Fail(t)
        PROVE  Moves
    BY <1>1, <1>2, ConfinedIdle, WithheldStep, ReplacedKept DEF Fail, Finish, Moves
  <1>3. CASE UNCHANGED task
    BY <1>1, <1>3 DEF Moves, RInv, Withheld, Replaced
  <1>4. QED
    BY <1>2, <1>3 DEF Environment, CacheLoseSession, CacheLoseMap, Tick

LEMMA NextRInv ==
  ASSUME RowsOnly
  PROVE  RInv /\ [Next]_vars => RInv'
  <1>1. SUFFICES ASSUME RInv, [Next]_vars
                 PROVE  RInv'
    OBVIOUS
  <1>2. IInv'
    BY <1>1, NextIInv DEF RInv
  <1>3. CASE UNCHANGED vars
    BY <1>1, <1>2, <1>3 DEF vars, RInv, Withheld, Replaced
  <1>4. ASSUME NEW t \in Tasks, Step(t)
        PROVE  Moves
    BY <1>1, <1>4, RowActions, QuietMoves, LimitMoves, RotateMoves, PutDbMoves
  <1>5. CASE Next
    BY <1>1, <1>2, <1>4, <1>5, CallMoves, EnvironmentMoves DEF Next, Moves, RInv
  <1>6. QED
    BY <1>1, <1>3, <1>5

(* refresh_session without a cache, "Rotation: the old refresh token stops     *)
(* working immediately": whatever logins, rotations, revocations, resets and   *)
(* aborted calls overlap it, no active row has a token that was replaced.      *)
THEOREM RetiredForever ==
  ASSUME RowsOnly
  PROVE  Spec => []RetiredIsUseless
  <1>1. Init => RInv
    <2>1. Init => \A t \in Tasks : Confined(task[t], handed) /\ ~Mints(task[t])
      BY ConfinedIdle DEF Init
    <2>2. QED
      BY <2>1, InitIInv DEF RInv, Init, Withheld, Replaced, Idle
  <1>2. RInv => RetiredIsUseless
    BY DEF RInv, Replaced, RetiredIsUseless, Carries, RowsOnly
  <1>3. QED
    BY <1>1, <1>2, NextRInv, PTL DEF Spec
=============================================================================
