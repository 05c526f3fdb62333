------------------------------ MODULE Sessions ------------------------------
(***************************************************************************)
(* The session manager (sessions/session_manager.py) over a shared cache   *)
(* and a shared database.                                                  *)
(*                                                                         *)
(* Every public method is a coroutine; between two of its awaits any other *)
(* coroutine, of this process or of another worker, may run.  A call is a  *)
(* task: task[t] holds the method it runs (op), the await it is about to   *)
(* perform (pc) and its local variables.  One action is one await together *)
(* with the straight-line code up to the next one.                         *)
(*                                                                         *)
(* Session ids and refresh tokens are numbered in the order in which they  *)
(* are drawn, so that the order of session ids is the order of created_at. *)
(***************************************************************************)
EXTENDS Naturals, FiniteSets

CONSTANTS
    Users,          \* user ids
    NoUser,         \* not a user id
    Tasks,          \* slots for coroutines in flight
    Ops,            \* the methods the clients of this instance call
    HasCache,       \* whether a cache adapter is configured
    MaxConcurrent,  \* config.max_concurrent_sessions (0: no limit)
    Lifetime,       \* config.session_expiry_seconds, in clock ticks
    MaxSid,         \* bound: sessions ever created
    MaxToken,       \* bound: refresh tokens ever minted
    MaxTime,        \* bound: clock ticks
    MaxLoss,        \* bound: cache entries lost (eviction, TTL, Redis restart)
    MaxFail         \* bound: calls aborted by an exception, a cancel or a crash

AllOps == {"create", "validate", "touch", "refresh", "revoke", "revokeAll", "reset"}

ASSUME UsersAssumption == NoUser \notin Users
ASSUME OpsAssumption == Ops \subseteq AllOps
ASSUME CacheAssumption == HasCache \in BOOLEAN
ASSUME BoundsAssumption ==
    /\ MaxConcurrent \in Nat /\ Lifetime \in Nat \ {0}
    /\ MaxSid \in Nat /\ MaxToken \in Nat /\ MaxTime \in Nat
    /\ MaxLoss \in Nat /\ MaxFail \in Nat

Sids == 1..MaxSid
NoSid == 0
Tokens == 1..MaxToken
NoToken == 0

(* A stored session document (Session.to_dict), and its absence. *)
Docs == [sid : Sids, user : Users, tok : Tokens, exp : Nat,
         status : {"active", "revoked"}]
NoDoc == [sid |-> NoSid, user |-> NoUser, tok |-> NoToken, exp |-> 0,
          status |-> "none"]

(* A Session object in a coroutine's locals, and None. *)
SessionObjects == [sid : Sids, user : Users, tok : Tokens, exp : Nat,
                   revoked : BOOLEAN]
NoSession == [sid |-> NoSid, user |-> NoUser, tok |-> NoToken, exp |-> 0,
              revoked |-> FALSE]

VARIABLES
    owner,    \* sid -> the user its session was created for
    minted,   \* token -> the session it was minted for (its JWT carries the user)
    cache,    \* tessera:session:{sid}
    rmap,     \* tessera:session_refresh:{sha256(token)}
    index,    \* tessera:user_sessions:{user}; written, read only to rewrite it
    db,       \* the sessions table
    handed,   \* refresh tokens returned to a client, with their access tokens
    retired,  \* history: refresh tokens a completed rotation has replaced
    now,      \* the clock
    lost,     \* cache losses so far
    failed,   \* aborted calls so far
    task      \* the coroutines in flight

shared == <<owner, minted, cache, rmap, index, db, handed, retired, now, lost, failed>>
vars == <<owner, minted, cache, rmap, index, db, handed, retired, now, lost,
          failed, task>>

-----------------------------------------------------------------------------
(* Tasks *)

Steps == {"idle", "map_read", "scan_db", "get_cache", "get_db", "recache",
          "rotate", "put_cache", "put_db", "put_map", "index", "limit_read",
          "limit_revoke", "revoke_db", "all_read", "all_revoke", "drop_cache",
          "drop_read", "drop_map", "index_read", "index_delete", "index_push"}

TaskStates == [op : AllOps \cup {"none"}, pc : Steps, user : Users \cup {NoUser},
               sid : Sids \cup {NoSid}, tok : Tokens \cup {NoToken},
               ses : SessionObjects \cup {NoSession},
               todo : SUBSET Sids, keep : SUBSET Sids]

Idle == [op |-> "none", pc |-> "idle", user |-> NoUser, sid |-> NoSid,
         tok |-> NoToken, ses |-> NoSession, todo |-> {}, keep |-> {}]

(* The first await of _get_session, of _store_session, of the refresh     *)
(* ledger lookup: without a cache the cached half of each is skipped.     *)
GetStart == IF HasCache THEN "get_cache" ELSE "get_db"
PutStart == IF HasCache THEN "put_cache" ELSE "put_db"
ResolveStart == IF HasCache THEN "map_read" ELSE "scan_db"

Become(t, r) == task' = [task EXCEPT ![t] = r]
Goto(t, step) == Become(t, [task[t] EXCEPT !.pc = step])
Finish(t) == Become(t, Idle)

(* Bound: every rotation in flight finds a token left to draw. *)
TokensLeft == Cardinality({k \in Tokens : minted[k] = NoSid})
                > Cardinality({t \in Tasks : task[t].op = "refresh"})

(* Mutant: ids are not unique. *)
FreshColliding(n, f, none) == 1..n

(* The lowest number not drawn yet. *)
Fresh(n, f, none) == {x \in 1..n : f[x] = none /\ \A y \in 1..n : f[y] = none => x <= y}

-----------------------------------------------------------------------------
(* Conversions and queries *)

(* Session.to_dict *)
ToDict(x) == [sid |-> x.sid, user |-> x.user, tok |-> x.tok, exp |-> x.exp,
              status |-> IF x.revoked THEN "revoked" ELSE "active"]

(* Mutant: the status of the document is not read back. *)
FromDictAlwaysActive(d) == [sid |-> d.sid, user |-> d.user, tok |-> d.tok,
                            exp |-> d.exp, revoked |-> FALSE]

(* Session.from_dict *)
FromDict(d) == [sid |-> d.sid, user |-> d.user, tok |-> d.tok, exp |-> d.exp,
                revoked |-> d.status # "active"]

(* db.get_active_sessions, as the set of their ids *)
ActiveSessions(u) == {s \in Sids : db[s].user = u /\ db[s].status = "active"}

(* Mutants: one session too many is kept; the newest sessions go first. *)
OldestKeepingOneMore(active) ==
    {s \in active : Cardinality({r \in active : r > s}) > MaxConcurrent}
NewestFirst(active) ==
    {s \in active : Cardinality({r \in active : r < s}) >= MaxConcurrent}

(* The ids beyond the newest MaxConcurrent of a set of sessions. *)
Oldest(active) ==
    IF MaxConcurrent = 0 THEN {}
    ELSE {s \in active : Cardinality({r \in active : r > s}) >= MaxConcurrent}

(* db.revoke_session / db.revoke_all_user_sessions: a conditional update.  *)
RevokeRows(S) == [s \in Sids |-> IF s \in S /\ db[s].status = "active"
                                 THEN [db[s] EXCEPT !.status = "revoked"]
                                 ELSE db[s]]

-----------------------------------------------------------------------------
Init ==
    /\ owner = [s \in Sids |-> NoUser]
    /\ minted = [k \in Tokens |-> NoSid]
    /\ cache = [s \in Sids |-> NoDoc]
    /\ rmap = [k \in Tokens |-> NoSid]
    /\ index = [u \in Users |-> {}]
    /\ db = [s \in Sids |-> NoDoc]
    /\ handed = {} /\ retired = {}
    /\ now = 0 /\ lost = 0 /\ failed = 0
    /\ task = [t \in Tasks |-> Idle]

-----------------------------------------------------------------------------
(* Calls *)

(* create_session up to its first await: draw an id and a token pair. *)
CreateSession(t, u) ==
    /\ "create" \in Ops /\ task[t] = Idle /\ TokensLeft
    /\ \E s \in Fresh(MaxSid, owner, NoUser), k \in Fresh(MaxToken, minted, NoSid) :
          /\ owner' = [owner EXCEPT ![s] = u]
          /\ minted' = [minted EXCEPT ![k] = s]
          /\ Become(t, [Idle EXCEPT !.op = "create", !.pc = PutStart, !.user = u,
                   !.sid = s,
                   !.ses = [sid |-> s, user |-> u, tok |-> k,
                            exp |-> now + Lifetime, revoked |-> FALSE]])
    /\ UNCHANGED <<cache, rmap, index, db, handed, retired, now, lost, failed>>

(* validate_session with an access token that verifies: its claims name    *)
(* the user and the session.                                               *)
ValidateSession(t, k) ==
    /\ "validate" \in Ops /\ task[t] = Idle /\ k \in handed
    /\ Become(t, [Idle EXCEPT !.op = "validate", !.pc = GetStart,
             !.user = owner[minted[k]], !.sid = minted[k]])
    /\ UNCHANGED shared

(* refresh_session with a refresh token that verifies: its claims name the *)
(* user only.                                                              *)
RefreshSession(t, k) ==
    /\ "refresh" \in Ops /\ task[t] = Idle /\ k \in handed /\ TokensLeft
    /\ Become(t, [Idle EXCEPT !.op = "refresh", !.pc = ResolveStart,
             !.user = owner[minted[k]], !.tok = k])
    /\ UNCHANGED shared

(* revoke_session for a session the database lists. *)
RevokeSession(t, s) ==
    /\ "revoke" \in Ops /\ task[t] = Idle /\ db[s] # NoDoc
    /\ Become(t, [Idle EXCEPT !.op = "revoke", !.pc = GetStart, !.sid = s])
    /\ UNCHANGED shared

(* revoke_all_user_sessions of the session manager. *)
RevokeAllUserSessions(t, u) ==
    /\ "revokeAll" \in Ops /\ task[t] = Idle
    /\ Become(t, [Idle EXCEPT !.op = "revokeAll", !.pc = "all_read", !.user = u])
    /\ UNCHANGED shared

(* The last await of SecurityManager.reset_password: it calls the database *)
(* adapter and not the session manager.                                    *)
ResetPassword(t, u) ==
    /\ "reset" \in Ops /\ task[t] = Idle
    /\ Become(t, [Idle EXCEPT !.op = "reset", !.pc = "all_revoke", !.user = u])
    /\ UNCHANGED shared

-----------------------------------------------------------------------------
(* _resolve_session_for_refresh *)

ResolveFromMap(t) ==
    /\ task[t].pc = "map_read"
    /\ LET s == rmap[task[t].tok] IN
       IF s = NoSid THEN Finish(t)
       ELSE Become(t, [task[t] EXCEPT !.sid = s, !.pc = "get_cache"])
    /\ UNCHANGED shared

(* A refresh goes on only with a session that is neither revoked nor expired. *)
Refreshable(x) == x # NoSession /\ ~x.revoked /\ x.exp > now

ResolveFromDb(t) ==
    /\ task[t].pc = "scan_db"
    /\ LET match == {s \in ActiveSessions(task[t].user) : db[s].tok = task[t].tok}
       IN  \/ /\ \A s \in match : ~Refreshable(FromDict(db[s]))
              /\ Finish(t)
           \/ \E s \in match :
                /\ Refreshable(FromDict(db[s]))
                /\ Become(t, [task[t] EXCEPT !.sid = s, !.pc = "rotate",
                                        !.ses = FromDict(db[s])])
    /\ UNCHANGED shared

Resolve(t) == IF HasCache THEN ResolveFromMap(t) ELSE ResolveFromDb(t)

-----------------------------------------------------------------------------
(* _get_session, and what each caller does with its result x *)

(* validate_session returns; when it accepts, the last-active update it     *)
(* schedules goes on as a task of its own (the caller has its answer).      *)
GotForValidate(t, x) ==
    /\ task[t].op = "validate"
    /\ IF Refreshable(x) /\ x.user = task[t].user
       THEN Become(t, [Idle EXCEPT !.op = "touch", !.pc = GetStart, !.sid = x.sid])
       ELSE Finish(t)

GotForTouch(t, x) ==
    /\ task[t].op = "touch"
    /\ IF x = NoSession \/ x.revoked THEN Finish(t)
       ELSE Become(t, [task[t] EXCEPT !.ses = x, !.pc = PutStart])

GotForRefresh(t, x) ==
    /\ task[t].op = "refresh"
    /\ IF ~Refreshable(x) THEN Finish(t)
       ELSE Become(t, [task[t] EXCEPT !.ses = x, !.pc = "rotate"])

GotForRevoke(t, x) ==
    /\ task[t].op = "revoke"
    /\ Become(t, [task[t] EXCEPT !.ses = x, !.pc = "revoke_db"])

Got(t, x) == \/ GotForValidate(t, x) \/ GotForTouch(t, x)
             \/ GotForRefresh(t, x) \/ GotForRevoke(t, x)

GetFromCache(t) ==
    /\ task[t].pc = "get_cache"
    /\ LET d == cache[task[t].sid] IN
       IF d = NoDoc THEN Goto(t, "get_db") ELSE Got(t, FromDict(d))
    /\ UNCHANGED shared

GetFromDb(t) ==
    /\ task[t].pc = "get_db"
    /\ LET d == db[task[t].sid] IN
       \/ d = NoDoc /\ Got(t, NoSession)
       \/ /\ d # NoDoc
          /\ IF HasCache /\ ~FromDict(d).revoked /\ d.exp > now
             THEN Become(t, [task[t] EXCEPT !.ses = FromDict(d), !.pc = "recache"])
             ELSE Got(t, FromDict(d))
    /\ UNCHANGED shared

(* The document just read from the database goes back into the cache. *)
Recache(t) ==
    /\ task[t].pc = "recache"
    /\ cache' = [cache EXCEPT ![task[t].sid] = ToDict(task[t].ses)]
    /\ Got(t, task[t].ses)
    /\ UNCHANGED <<owner, minted, rmap, index, db, handed, retired, now, lost, failed>>

-----------------------------------------------------------------------------
(* refresh_session: delete the ledger entry, then draw a new token pair *)

(* Mutant: no new refresh token is issued. *)
RotateWithoutToken(t) ==
    /\ task[t].pc = "rotate"
    /\ rmap' = IF HasCache THEN [rmap EXCEPT ![task[t].tok] = NoSid] ELSE rmap
    /\ Become(t, [task[t] EXCEPT !.pc = PutStart, !.ses = [@ EXCEPT !.tok = NoToken]])
    /\ UNCHANGED <<owner, minted, cache, index, db, handed, retired, now, lost, failed>>

Rotate(t) ==
    /\ task[t].pc = "rotate"
    /\ rmap' = IF HasCache THEN [rmap EXCEPT ![task[t].tok] = NoSid] ELSE rmap
    /\ \E k \in Fresh(MaxToken, minted, NoSid) :
          /\ minted' = [minted EXCEPT ![k] = task[t].ses.sid]
          /\ Become(t, [task[t] EXCEPT !.pc = PutStart,
                   !.ses = [@ EXCEPT !.tok = k, !.exp = now + Lifetime]])
    /\ UNCHANGED <<owner, cache, index, db, handed, retired, now, lost, failed>>

-----------------------------------------------------------------------------
(* _store_session, and what each caller does next *)

(* refresh_session returns the rotated session; an update just ends. *)
Stored(t) ==
    \/ /\ task[t].op = "create"
       /\ Goto(t, IF HasCache THEN "index" ELSE "limit_read")
       /\ UNCHANGED <<handed, retired>>
    \/ /\ task[t].op = "refresh"
       /\ handed' = handed \cup {task[t].ses.tok}
       /\ retired' = retired \cup {task[t].tok}
       /\ Finish(t)
    \/ /\ task[t].op = "touch"
       /\ Finish(t)
       /\ UNCHANGED <<handed, retired>>

PutCache(t) ==
    /\ task[t].pc = "put_cache"
    /\ cache' = [cache EXCEPT ![task[t].ses.sid] = ToDict(task[t].ses)]
    /\ Goto(t, "put_db")
    /\ UNCHANGED <<owner, minted, rmap, index, db, handed, retired, now, lost, failed>>

(* Mutant: the row is inserted, but an existing one is not replaced. *)
PutDbInsertOnly(t) ==
    /\ task[t].pc = "put_db"
    /\ db' = IF db[task[t].ses.sid] # NoDoc THEN db
             ELSE [db EXCEPT ![task[t].ses.sid] = ToDict(task[t].ses)]
    /\ IF HasCache THEN Goto(t, "put_map") /\ UNCHANGED <<handed, retired>>
                   ELSE Stored(t)
    /\ UNCHANGED <<owner, minted, cache, rmap, index, now, lost, failed>>

PutDb(t) ==
    /\ task[t].pc = "put_db"
    /\ db' = [db EXCEPT ![task[t].ses.sid] = ToDict(task[t].ses)]
    /\ IF HasCache THEN Goto(t, "put_map") /\ UNCHANGED <<handed, retired>>
                   ELSE Stored(t)
    /\ UNCHANGED <<owner, minted, cache, rmap, index, now, lost, failed>>

(* Mutant: a rotation writes the ledger entry of the token it was given. *)
PutMapPresented(t) ==
    /\ task[t].pc = "put_map"
    /\ LET k == IF task[t].op = "refresh" THEN task[t].tok ELSE task[t].ses.tok IN
          rmap' = [rmap EXCEPT ![k] = task[t].ses.sid]
    /\ Stored(t)
    /\ UNCHANGED <<owner, minted, cache, index, db, now, lost, failed>>

PutMap(t) ==
    /\ task[t].pc = "put_map"
    /\ rmap' = [rmap EXCEPT ![task[t].ses.tok] = task[t].ses.sid]
    /\ Stored(t)
    /\ UNCHANGED <<owner, minted, cache, index, db, now, lost, failed>>

(* _index_user_session *)
IndexUserSession(t) ==
    /\ task[t].pc = "index"
    /\ index' = [index EXCEPT ![task[t].user] = @ \cup {task[t].ses.sid}]
    /\ Goto(t, "limit_read")
    /\ UNCHANGED <<owner, minted, cache, rmap, db, handed, retired, now, lost, failed>>

-----------------------------------------------------------------------------
(* _enforce_session_limit, the end of create_session *)

(* Go on with the sessions still to evict; after the last one              *)
(* create_session returns its session to the client.                       *)
EvictRest(t, rest) ==
    IF rest = {}
    THEN /\ handed' = handed \cup {task[t].ses.tok}
         /\ Finish(t)
    ELSE /\ Become(t, [task[t] EXCEPT !.todo = rest, !.pc = "limit_revoke"])
         /\ UNCHANGED handed

LimitRead(t) ==
    /\ task[t].pc = "limit_read"
    /\ EvictRest(t, Oldest(ActiveSessions(task[t].user)))
    /\ UNCHANGED <<owner, minted, cache, rmap, index, db, retired, now, lost, failed>>

LimitRevoke(t) ==
    /\ task[t].pc = "limit_revoke"
    /\ \E s \in task[t].todo :
          /\ \A r \in task[t].todo : s <= r
          /\ db' = RevokeRows({s})
          /\ IF HasCache
             THEN /\ Become(t, [task[t] EXCEPT !.sid = s, !.pc = "drop_cache"])
                  /\ UNCHANGED handed
             ELSE EvictRest(t, task[t].todo \ {s})
    /\ UNCHANGED <<owner, minted, cache, rmap, index, retired, now, lost, failed>>

-----------------------------------------------------------------------------
(* revoke_session and revoke_all_user_sessions, on the database *)

(* Mutant: the cached state is dropped only by the call that flips the row. *)
RevokeDbDropIfFlipped(t) ==
    /\ task[t].pc = "revoke_db"
    /\ db' = RevokeRows({task[t].sid})
    /\ IF HasCache /\ db[task[t].sid].status = "active"
       THEN Become(t, [task[t] EXCEPT !.user = task[t].ses.user, !.pc = "drop_cache"])
       ELSE Finish(t)
    /\ UNCHANGED <<owner, minted, cache, rmap, index, handed, retired, now, lost, failed>>

RevokeDb(t) ==
    /\ task[t].pc = "revoke_db"
    /\ db' = RevokeRows({task[t].sid})
    /\ IF HasCache /\ task[t].ses # NoSession
       THEN Become(t, [task[t] EXCEPT !.user = task[t].ses.user, !.pc = "drop_cache"])
       ELSE Finish(t)
    /\ UNCHANGED <<owner, minted, cache, rmap, index, handed, retired, now, lost, failed>>

AllRead(t) ==
    /\ task[t].pc = "all_read"
    /\ Become(t, [task[t] EXCEPT !.todo = ActiveSessions(task[t].user),
                            !.pc = "all_revoke"])
    /\ UNCHANGED shared

(* The next of the listed sessions whose cached state is to be dropped. *)
DropRest(t, rest) ==
    \/ rest = {} /\ Finish(t)
    \/ \E s \in rest : Become(t, [task[t] EXCEPT !.todo = rest, !.sid = s,
                                            !.pc = "drop_cache"])

AllRevoke(t) ==
    /\ task[t].pc = "all_revoke"
    /\ db' = RevokeRows(ActiveSessions(task[t].user))
    /\ DropRest(t, IF HasCache THEN task[t].todo ELSE {})
    /\ UNCHANGED <<owner, minted, cache, rmap, index, handed, retired, now, lost, failed>>

-----------------------------------------------------------------------------
(* _drop_session_state *)

Dropped(t) ==
    \/ task[t].op = "create" /\ EvictRest(t, task[t].todo \ {task[t].sid})
    \/ task[t].op = "revokeAll" /\ DropRest(t, task[t].todo \ {task[t].sid})
       /\ UNCHANGED handed
    \/ task[t].op = "revoke" /\ Finish(t) /\ UNCHANGED handed

DropCache(t) ==
    /\ task[t].pc = "drop_cache"
    /\ cache' = [cache EXCEPT ![task[t].sid] = NoDoc]
    /\ Goto(t, "drop_read")
    /\ UNCHANGED <<owner, minted, rmap, index, db, handed, retired, now, lost, failed>>

DropRead(t) ==
    /\ task[t].pc = "drop_read"
    /\ LET k == db[task[t].sid].tok IN
       Become(t, [task[t] EXCEPT !.tok = k,
                            !.pc = IF k = NoToken THEN "index_read" ELSE "drop_map"])
    /\ UNCHANGED shared

DropMap(t) ==
    /\ task[t].pc = "drop_map"
    /\ rmap' = [rmap EXCEPT ![task[t].tok] = NoSid]
    /\ Goto(t, "index_read")
    /\ UNCHANGED <<owner, minted, cache, index, db, handed, retired, now, lost, failed>>

IndexRead(t) ==
    /\ task[t].pc = "index_read"
    /\ Become(t, [task[t] EXCEPT !.keep = index[task[t].user] \ {task[t].sid},
                            !.pc = "index_delete"])
    /\ UNCHANGED shared

IndexDelete(t) ==
    /\ task[t].pc = "index_delete"
    /\ index' = [index EXCEPT ![task[t].user] = {}]
    /\ IF task[t].keep = {} THEN Dropped(t)
       ELSE Goto(t, "index_push") /\ UNCHANGED handed
    /\ UNCHANGED <<owner, minted, cache, rmap, db, retired, now, lost, failed>>

IndexPush(t) ==
    /\ task[t].pc = "index_push"
    /\ index' = [index EXCEPT ![task[t].user] = @ \cup task[t].keep]
    /\ Dropped(t)
    /\ UNCHANGED <<owner, minted, cache, rmap, db, retired, now, lost, failed>>

-----------------------------------------------------------------------------
(* Environment *)

(* Redis drops a key: its TTL ends, it is evicted, the server restarts. *)
CacheLoseSession(s) ==
    /\ lost < MaxLoss /\ cache[s] # NoDoc
    /\ cache' = [cache EXCEPT ![s] = NoDoc] /\ lost' = lost + 1
    /\ UNCHANGED <<owner, minted, rmap, index, db, handed, retired, now, failed, task>>

CacheLoseMap(k) ==
    /\ lost < MaxLoss /\ rmap[k] # NoSid
    /\ rmap' = [rmap EXCEPT ![k] = NoSid] /\ lost' = lost + 1
    /\ UNCHANGED <<owner, minted, cache, index, db, handed, retired, now, failed, task>>

(* The await raises, the request is cancelled, or the worker dies: nothing *)
(* a method has written so far is undone.                                  *)
Fail(t) ==
    /\ failed < MaxFail /\ task[t] # Idle
    /\ Finish(t) /\ failed' = failed + 1
    /\ UNCHANGED <<owner, minted, cache, rmap, index, db, handed, retired, now, lost>>

Tick ==
    /\ now < MaxTime /\ now' = now + 1
    /\ UNCHANGED <<owner, minted, cache, rmap, index, db, handed, retired, lost, failed, task>>

-----------------------------------------------------------------------------
Call(t) ==
    \/ \E u \in Users : CreateSession(t, u) \/ RevokeAllUserSessions(t, u)
                        \/ ResetPassword(t, u)
    \/ \E k \in Tokens : ValidateSession(t, k) \/ RefreshSession(t, k)
    \/ \E s \in Sids : RevokeSession(t, s)

Step(t) ==
    \/ Resolve(t)
    \/ GetFromCache(t) \/ GetFromDb(t) \/ Recache(t) \/ Rotate(t)
    \/ PutCache(t) \/ PutDb(t) \/ PutMap(t) \/ IndexUserSession(t)
    \/ LimitRead(t) \/ LimitRevoke(t)
    \/ RevokeDb(t) \/ AllRead(t) \/ AllRevoke(t)
    \/ DropCache(t) \/ DropRead(t) \/ DropMap(t)
    \/ IndexRead(t) \/ IndexDelete(t) \/ IndexPush(t)

Environment ==
    \/ \E s \in Sids : CacheLoseSession(s)
    \/ \E k \in Tokens : CacheLoseMap(k)
    \/ \E t \in Tasks : Fail(t)
    \/ Tick

Next == (\E t \in Tasks : Call(t) \/ Step(t)) \/ Environment

Spec == Init /\ [][Next]_vars

-----------------------------------------------------------------------------
(* Type invariant *)

(* Every cached or stored value, every ledger and every coroutine's locals  *)
(* have the shape session_manager.py gives them.                            *)
TypeOK ==
    /\ owner \in [Sids -> Users \cup {NoUser}]
    /\ minted \in [Tokens -> Sids \cup {NoSid}]
    /\ cache \in [Sids -> Docs \cup {NoDoc}]
    /\ rmap \in [Tokens -> Sids \cup {NoSid}]
    /\ index \in [Users -> SUBSET Sids]
    /\ db \in [Sids -> Docs \cup {NoDoc}]
    /\ handed \subseteq Tokens /\ retired \subseteq Tokens
    /\ now \in Nat /\ lost \in Nat /\ failed \in Nat
    /\ task \in [Tasks -> TaskStates]

(* Which locals a coroutine has at which await, and in which method it is.  *)
Shape(r) ==
    /\ r.pc \in {"get_cache", "get_db", "recache", "revoke_db"} => r.sid # NoSid
    /\ r.pc \in {"recache", "rotate", "put_cache", "put_db", "put_map"} => r.ses # NoSession
    /\ r.pc \in {"index", "limit_read", "limit_revoke"} => r.op = "create"
    /\ r.pc \in {"map_read", "scan_db", "rotate"} => r.op = "refresh"
    /\ r.pc \in {"all_read", "all_revoke"} => r.user # NoUser
    /\ r.pc \in {"drop_cache", "drop_read", "drop_map", "index_read", "index_delete",
                 "index_push"} => r.sid # NoSid /\ r.user # NoUser
    /\ r.op = "refresh" => r.pc \in {"map_read", "scan_db", "get_cache", "get_db", "recache",
                                    "rotate", "put_cache", "put_db", "put_map"}
    /\ r.op = "create" => r.ses # NoSession /\ r.user # NoUser
    /\ r.op = "refresh" => r.tok # NoToken

Typed == TypeOK /\ \A t \in Tasks : Shape(task[t])

-----------------------------------------------------------------------------
(* Ownership *)

(* The copy d of session s belongs to the user s was created for and        *)
(* carries a refresh token minted for s.                                    *)
OwnCopy(s, d) == d.sid = s /\ d.user = owner[s] /\ minted[d.tok] = s

OwnedStores ==
    \A s \in Sids : /\ cache[s] # NoDoc => OwnCopy(s, cache[s])
                    /\ db[s] # NoDoc => OwnCopy(s, db[s])

OwnedTokens ==
    /\ \A k \in Tokens : rmap[k] \in {NoSid, minted[k]}
    /\ \A k \in Tokens : minted[k] # NoSid => owner[minted[k]] # NoUser
    /\ \A k \in handed : minted[k] # NoSid

(* What the locals r of a coroutine owe to the token or session it was       *)
(* called with.                                                             *)
OwnedLocals(r) ==
    /\ r.ses # NoSession => OwnCopy(r.ses.sid, r.ses)
    /\ r.pc = "recache" => r.ses.sid = r.sid
    /\ r.op = "refresh" =>
         /\ minted[r.tok] # NoSid
         /\ r.user = owner[minted[r.tok]]
         /\ r.sid \in {NoSid, minted[r.tok]}
         /\ r.ses # NoSession => r.ses.sid = r.sid

(* Every stored copy, ledger entry and held copy of a session belongs to the *)
(* session and the user it was created for.                                 *)
Owned == OwnedStores /\ OwnedTokens /\ \A t \in Tasks : OwnedLocals(task[t])

(* refresh_session takes its session from the ledger and never compares it  *)
(* with the claims of the refresh token (validate_session does): whatever   *)
(* other calls, cache losses and failures do meanwhile, the session it      *)
(* rotates is one of the user the presented token names, and the session    *)
(* that token was minted for.                                               *)
RefreshKeepsOwner ==
    \A t \in Tasks : task[t].op = "refresh" /\ task[t].ses # NoSession =>
        /\ task[t].ses.user = task[t].user
        /\ task[t].ses.sid = minted[task[t].tok]

-----------------------------------------------------------------------------
(* Death of a session *)

(* The coroutine t holds a copy of s, read while s was active, that it may   *)
(* yet write to the cache or the database.                                   *)
MayRevive(t, s) ==
    /\ task[t].pc \in {"recache", "rotate", "put_cache", "put_db"}
    /\ task[t].ses.sid = s
    /\ ~task[t].ses.revoked

(* Session s is revoked in the database, no cached copy says otherwise, and  *)
(* no coroutine holds a copy that does.                                      *)
Dead(s) ==
    /\ db[s].status = "revoked"
    /\ cache[s].status # "active"
    /\ \A t \in Tasks : ~MayRevive(t, s)

(* A dead session never lives again: no later call, in any order, stores an  *)
(* active copy of it.  (A revoked session with a copy in flight is not dead, *)
(* and does come back, although db.revoke_session promises that "only the    *)
(* first revoke of an active session wins": the last-active update stores    *)
(* the copy it read before.)                                                 *)
DeadStaysDead == [][\A s \in Sids : Dead(s) => Dead(s)']_vars

-----------------------------------------------------------------------------
(* Revocation *)

Quiescent == \A t \in Tasks : task[t] = Idle

(* When no call is in progress a revoked session has left no trace that a    *)
(* validate or a refresh could accept: no cached copy, whichever of the      *)
(* concurrent revocations, evictions and re-caches of revoke_session itself  *)
(* came last.                                                                *)
RevokedIsGone ==
    Quiescent => \A s \in Sids : db[s].status = "revoked" => cache[s] = NoDoc

-----------------------------------------------------------------------------
(* Concurrency limit *)

(* create_session enforces max_concurrent_sessions: however the creations    *)
(* and evictions of a user interleave, once they are over the user has no    *)
(* more active sessions than the limit.                                      *)
LimitHolds ==
    MaxConcurrent > 0 /\ Quiescent =>
        \A u \in Users : Cardinality(ActiveSessions(u)) <= MaxConcurrent

(* The eviction takes the oldest sessions: however the list it read has aged *)
(* when it revokes, an eviction never ends the newest session of a user.     *)
Evicts(t) == task[t].pc = "limit_revoke" /\ task'[t] # task[t]
NewestSurvives ==
    [][\A s \in Sids :
          db[s].status = "active" /\ db'[s].status = "revoked" /\ (\E t \in Tasks : Evicts(t)) =>
              \E r \in Sids : r > s /\ owner[r] = owner[s] /\ db[r] # NoDoc]_vars

-----------------------------------------------------------------------------
(* Rotation *)

(* The coroutine t may yet store a copy that carries the token k. *)
MayRestore(t, k) ==
    /\ task[t].pc \in {"recache", "put_cache", "put_db", "put_map"}
    /\ task[t].ses.tok = k

(* The token k was replaced or revoked: neither the ledger nor an active     *)
(* copy of a session knows it, and no coroutine is about to store one.       *)
Useless(k) ==
    /\ minted[k] # NoSid /\ rmap[k] = NoSid
    /\ \A s \in Sids : \A d \in {cache[s], db[s]} : d.status = "active" => d.tok # k
    /\ \A t \in Tasks : ~MayRestore(t, k)

(* Such a token never works again.  (While the last-active update of an      *)
(* earlier validate still holds the old copy it is not useless yet, and does *)
(* come back into the ledger.)                                               *)
UselessStaysUseless == [][\A k \in Tokens : Useless(k) => Useless(k)']_vars

(* refresh_session, "Rotation: the old refresh token stops working           *)
(* immediately": a token that a completed rotation has replaced is neither   *)
(* in the ledger nor the token of an active session.                         *)
RetiredIsUseless ==
    \A k \in retired : IF HasCache THEN rmap[k] = NoSid
                       ELSE \A s \in Sids : db[s].status = "active" => db[s].tok # k
=============================================================================
