------------------------------ MODULE Directory ------------------------------
(* The user directory: the users table of the four database adapters and    *)
(* every flow that creates, changes, locks, erases or deletes a user.  The    *)
(* adapter in use is fixed for a behaviour; "key" is what it searches by:      *)
(* the dicts of memory.py, the lower(...) indexes of sql.py, the               *)
(* *_lowercase fields of mongodb.py, the GSI and scan fields of               *)
(* dynamodb_adapter.py.  Each coroutine runs one flow at a time and is         *)
(* suspended between two statements sent to the database.                      *)
EXTENDS Naturals, FiniteSets

CONSTANTS
    Users,       \* ids the database hands out
    Idents,      \* e-mail addresses, user names and phone numbers
    Lower,       \* str.lower() on Idents
    Tomb,        \* the "deleted_..." identifier of an erased user
    Profiles,    \* identities the clients present: [Fields -> Idents or Null]
    Changes,     \* <<field, value>> pairs an administrator writes
    Coros,       \* the coroutines
    Seeds,       \* profiles of the user who may exist at the start
    AutoCreate,  \* config.auto_create_users
    AllowCreate, \* the allow_create of the SAML configuration
    MaxFlows     \* bound on the flows started

Fields   == {"email", "username", "phone"}
Backends == {"memory", "sql", "mongodb", "dynamodb"}
Null     == "null"       \* the field is there and is None
Absent   == "absent"     \* the record has no such field
Nobody   == "nobody"

Given(v) == v \notin {Null, Absent}
Texts    == Idents \cup {Tomb[u] : u \in Users}
Values   == Texts \cup {Null, Absent}
Record   == [Fields -> Values]
NoRecord == [f \in Fields |-> Absent]

ASSUME UsersAssumption == Users # {} /\ Nobody \notin Users /\ MaxFlows \in Nat
(* Ids are hexadecimal, in lower case; "None" is nobody's identifier. *)
ASSUME IdentsAssumption ==
    /\ Tomb \in [Users -> Texts] /\ Lower \in [Texts -> Texts]
    /\ \A u \in Users : Lower[Tomb[u]] = Tomb[u]
    /\ Null \notin Texts /\ Absent \notin Texts
ASSUME ClientsAssumption ==
    /\ Profiles \cup Seeds \subseteq [Fields -> Idents \cup {Null}]
    /\ Changes \subseteq Fields \X (Idents \cup {Null})

VARIABLES
    backend,   \* the adapter
    live,      \* users with a row
    born,      \* ids already handed out
    row,       \* identifiers stored
    key,       \* identifiers the adapter searches by
    active,    \* users with is_active
    sess,      \* active session rows: <<user, coroutine that logged in>>
    co,        \* the coroutines' local state
    flows,     \* flows started so far
    crossed,   \* history: users updated by two flows at once
    raced,     \* history: two flows were between check and write at once
    late,      \* history: users logged in while being deleted or locked out
    erased     \* history: <<user, field, key>> an erasure has removed

vars == <<backend, live, born, row, key, active, sess, co, flows, crossed,
          raced, late, erased>>
store == <<live, born, row, key, active>>
ghosts == <<crossed, raced, late, erased>>

Idle == [op |-> "none", pc |-> "idle", rec |-> NoRecord, upd |-> {}, who |-> Nobody,
         read |-> NoRecord, list |-> {}, verified |-> FALSE, res |-> "none"]

------------------------------------------------------------------------------
(* What the adapters search by. *)

Lowered(f, v) == IF ~Given(v) THEN Absent ELSE IF f = "phone" THEN v ELSE Lower[v]

(* create_user: the keys of a new row. *)
MemoryKeys(rec) == [f \in Fields |-> Lowered(f, rec[f])]

SqlKeys(rec) == [f \in Fields |-> Lowered(f, rec[f])]

(* The phone is indexed as stored: sparse skips a missing one, not a null.  *)
MongoKeys(rec) == [f \in Fields |-> IF f = "phone" THEN rec[f] ELSE Lowered(f, rec[f])]

DynamoKeys(rec) == [f \in Fields |-> Lowered(f, rec[f])]

NewKeys(rec) ==
    CASE backend = "memory"   -> MemoryKeys(rec)
      [] backend = "sql"      -> SqlKeys(rec)
      [] backend = "mongodb"  -> MongoKeys(rec)
      [] backend = "dynamodb" -> DynamoKeys(rec)

Merge(rec, upd) ==
    [f \in Fields |-> IF \E p \in upd : p[1] = f THEN (CHOOSE p \in upd : p[1] = f)[2] ELSE rec[f]]

(* update_user: the keys of u once upd is written; read is the record as it  *)
(* was when the flow checked it.                                               *)
MemoryUpdate(u, read, upd) == MemoryKeys(Merge(row[u], upd))

SqlUpdate(u, read, upd) == SqlKeys(Merge(row[u], upd))

(* $set carries the lowercase fields of the merged record; one whose value   *)
(* is gone was popped from the dict and so is not sent: it stays stored.      *)
MongoUpdate(u, read, upd) ==
    LET merged == Merge(read, upd)
    IN [f \in Fields |-> IF f = "phone" THEN Merge(row[u], upd)[f]
                         ELSE IF Given(merged[f]) THEN Lower[merged[f]] ELSE key[u][f]]

(* Mutant: the row is updated, the GSI key is not. *)
DynamoUpdateRow(u, read, upd) == key[u]

(* The GSI key and username_lowercase follow the updates that carry a value. *)
DynamoUpdate(u, read, upd) ==
    LET new == [f \in Fields |-> IF \E p \in upd : p[1] = f THEN Merge(row[u], upd)[f] ELSE Absent]
    IN [f \in Fields |-> IF f = "phone" THEN Lowered(f, Merge(row[u], upd)[f])
                         ELSE IF Given(new[f]) THEN Lower[new[f]] ELSE key[u][f]]

UpdatedKeys(u, read, upd) ==
    CASE backend = "memory"   -> MemoryUpdate(u, read, upd)
      [] backend = "sql"      -> SqlUpdate(u, read, upd)
      [] backend = "mongodb"  -> MongoUpdate(u, read, upd)
      [] backend = "dynamodb" -> DynamoUpdate(u, read, upd)

Holders(f, v) == {u \in live : key[u][f] = Lowered(f, v)}

------------------------------------------------------------------------------
(* get_user_by_identifier: the first identifier that matches decides. *)

FirstHit(rec) ==
    LET hit(f) == IF Given(rec[f]) THEN Holders(f, rec[f]) ELSE {}
    IN IF hit("email") # {} THEN hit("email")
       ELSE IF hit("username") # {} THEN hit("username") ELSE hit("phone")

MemoryLookup(rec) == IF FirstHit(rec) = {} THEN {Nobody} ELSE FirstHit(rec)

(* scalar_one_or_none raises when two rows match. *)
SqlLookup(rec) ==
    IF FirstHit(rec) = {} \/ Cardinality(FirstHit(rec)) > 1 THEN {Nobody} ELSE FirstHit(rec)

MongoLookup(rec) == IF FirstHit(rec) = {} THEN {Nobody} ELSE FirstHit(rec)

(* items[0]: any of the items the index or the scan returns. *)
DynamoLookup(rec) == IF FirstHit(rec) = {} THEN {Nobody} ELSE FirstHit(rec)

Lookup(rec) ==
    CASE backend = "memory"   -> MemoryLookup(rec)
      [] backend = "sql"      -> SqlLookup(rec)
      [] backend = "mongodb"  -> MongoLookup(rec)
      [] backend = "dynamodb" -> DynamoLookup(rec)

------------------------------------------------------------------------------
(* The uniqueness check before the write, and what the write itself refuses. *)

MemoryTaken(rec, me) == \E f \in Fields : Given(rec[f]) /\ Holders(f, rec[f]) \ {me} # {}

SqlTaken(rec, me) ==
    \E f \in Fields : \E u \in live \ {me} :
        Given(rec[f]) /\ Lowered(f, row[u][f]) = Lowered(f, rec[f])

(* Mutant: exclude_id is not passed on. *)
MongoTakenByAnyone(rec, me) == \E f \in Fields : Given(rec[f]) /\ Holders(f, rec[f]) # {}

MongoTaken(rec, me) == \E f \in Fields : Given(rec[f]) /\ Holders(f, rec[f]) \ {me} # {}

DynamoTaken(rec, me) == \E f \in Fields : Given(rec[f]) /\ Holders(f, rec[f]) \ {me} # {}

Taken(rec, me) ==
    CASE backend = "memory"   -> MemoryTaken(rec, me)
      [] backend = "sql"      -> SqlTaken(rec, me)
      [] backend = "mongodb"  -> MongoTaken(rec, me)
      [] backend = "dynamodb" -> DynamoTaken(rec, me)

(* Mutant: no unique index. *)
SqlUniqueNot(u, keys) == TRUE

(* uq_users_email_lower, uq_users_username_lower, uq_users_phone: NULLs differ. *)
SqlUnique(u, keys) ==
    \A v \in live \ {u}, f \in Fields : Given(keys[f]) => key[v][f] # keys[f]

(* Unique sparse indexes: only a missing field is left out of them. *)
MongoUnique(u, keys) ==
    \A v \in live \ {u}, f \in Fields : keys[f] # Absent => key[v][f] # keys[f]

(* memory.py has just checked; DynamoDB's put is conditional on the id alone. *)
Accepts(u, keys) ==
    CASE backend = "sql"     -> SqlUnique(u, keys)
      [] backend = "mongodb" -> MongoUnique(u, keys)
      [] OTHER               -> TRUE

(* USER_UPDATABLE_FIELDS: mongodb.py raises ValueError for any other field. *)
Updatable(fields) ==
    backend = "mongodb" => fields \subseteq Fields \cup {"is_active"}

------------------------------------------------------------------------------
(* Coroutine steps. *)

At(c, pc) == co[c].pc = pc
Goto(c, pc) == co' = [co EXCEPT ![c].pc = pc]
Return(c, res) == co' = [co EXCEPT ![c] = [Idle EXCEPT !.res = res]]

Begin(c, op, pc, rec, who, upd, verified) ==
    /\ At(c, "idle") /\ flows < MaxFlows
    /\ flows' = flows + 1
    /\ co' = [co EXCEPT ![c] = [Idle EXCEPT !.op = op, !.pc = pc, !.rec = rec, !.who = who,
                                            !.upd = upd, !.verified = verified]]
    /\ UNCHANGED <<backend, store, sess, ghosts>>

(* Create flows: who asks, and the record it would store. *)

Without(rec) == [f \in Fields |-> IF rec[f] = Null THEN Absent ELSE rec[f]]

(* register_user stores every identifier, the missing ones as None. *)
Register(c) == \E p \in Profiles : Begin(c, "register", "check", p, Nobody, {}, FALSE)

(* create_user of the dashboard requires an e-mail address. *)
AdminCreate(c) ==
    \E p \in Profiles :
        /\ Given(p["email"])
        /\ Begin(c, "admin", "check", p, Nobody, {}, FALSE)

SocialLogin(c) ==
    \E p \in Profiles, ok \in BOOLEAN :
        Begin(c, "social", "lookup",
              [p EXCEPT !["username"] = IF Given(p["username"]) THEN @ ELSE p["email"],
                        !["phone"] = Absent], Nobody, {}, ok)

OidcLogin(c) ==
    \E p \in Profiles, ok \in BOOLEAN :
        /\ Given(p["email"])
        /\ Begin(c, "oidc", "lookup", [Without(p) EXCEPT !["phone"] = Absent], Nobody, {}, ok)

SamlLogin(c) == \E p \in Profiles : Begin(c, "saml", "lookup", Without(p), Nobody, {}, TRUE)

MagicLink(c) ==
    \E p \in Profiles :
        /\ Given(p["email"])
        /\ Begin(c, "magic", "lookup", [NoRecord EXCEPT !["email"] = p["email"]], Nobody, {}, TRUE)

Import(c) ==
    \E p \in Profiles :
        Begin(c, "import", "lookup", [Without(p) EXCEPT !["phone"] = Absent], Nobody, {}, FALSE)

(* What each flow does with the account it found, or did not find. *)

Links(c) == co[c].op \in {"saml", "magic", "import"} \/ co[c].verified
Provisions(c) ==
    \/ co[c].op = "import"
    \/ co[c].op = "social" /\ (co[c].verified \/ AutoCreate)
    \/ co[c].op = "oidc" /\ co[c].verified
    \/ co[c].op = "saml" /\ AllowCreate
    \/ co[c].op = "magic" /\ AutoCreate

FindAccount(c) ==
    /\ At(c, "lookup")
    /\ \E u \in Lookup([NoRecord EXCEPT !["email"] = co[c].rec["email"]]) :
         IF u # Nobody
         THEN Return(c, IF Links(c) THEN "done" ELSE "refused")
         ELSE IF Provisions(c) THEN Goto(c, "check") ELSE Return(c, "refused")
    /\ UNCHANGED <<backend, store, sess, flows, ghosts>>

------------------------------------------------------------------------------
(* create_user and update_user: read and check, then write.  memory.py does  *)
(* both without a suspension point.                                            *)

Updates(c) == co[c].who # Nobody

Insert(c) ==
    \E u \in Users \ born :
        LET keys == NewKeys(co[c].rec)
        IN IF Accepts(u, keys)
           THEN /\ live' = live \cup {u} /\ born' = born \cup {u} /\ active' = active \cup {u}
                /\ row' = [row EXCEPT ![u] = co[c].rec]
                /\ key' = [key EXCEPT ![u] = keys]
                /\ Return(c, "done")
           ELSE Return(c, "conflict") /\ UNCHANGED store

Change(c) ==
    LET u    == co[c].who
        rec  == Merge(row[u], co[c].upd)
        keys == UpdatedKeys(u, co[c].read, co[c].upd)
    IN IF u \notin live THEN Return(c, "refused") /\ UNCHANGED <<store, erased>>
       ELSE IF ~Accepts(u, keys) THEN Return(c, "conflict") /\ UNCHANGED <<store, erased>>
       ELSE /\ row' = [row EXCEPT ![u] = rec]
            /\ key' = [key EXCEPT ![u] = keys]
            /\ active' = IF co[c].op = "erase" THEN active \ {u} ELSE active
            /\ Return(c, "done")
            /\ erased' = IF co[c].op = "erase"
                         THEN erased \cup
                                 {<<u, f, key[u][f]>> : f \in {g \in Fields : /\ Given(key[u][g])
                                                                            /\ key[u][g] # Tomb[u]}}
                         ELSE {e \in erased : e[1] # u}
            /\ UNCHANGED <<live, born>>

Writing(c) == {d \in Coros \ {c} : At(d, "write")}

Check(c) ==
    LET me == co[c].who
        rec == IF Updates(c) THEN Merge(row[me], co[c].upd) ELSE co[c].rec
    IN /\ At(c, "check")
       /\ IF Updates(c) /\ me \notin live
          THEN Return(c, "refused") /\ UNCHANGED <<store, erased>>
          ELSE IF Taken(rec, me)
          THEN Return(c, "conflict") /\ UNCHANGED <<store, erased>>
          ELSE IF backend # "memory"
          THEN /\ co' = [co EXCEPT ![c] =
                            [co[c] EXCEPT !.pc = "write",
                                          !.read = IF Updates(c) THEN row[me] ELSE NoRecord]]
               /\ UNCHANGED <<store, erased>>
          ELSE IF Updates(c) THEN Change(c) ELSE Insert(c) /\ UNCHANGED erased
       /\ raced' = (raced \/ Writing(c) # {})
       /\ crossed' = crossed \cup {u \in {me} \ {Nobody} : \E d \in Writing(c) : co[d].who = u}
       /\ UNCHANGED <<backend, sess, flows, late>>

Write(c) ==
    /\ At(c, "write")
    /\ IF Updates(c) THEN Change(c) ELSE Insert(c) /\ UNCHANGED erased
    /\ UNCHANGED <<backend, sess, flows, crossed, raced, late>>

------------------------------------------------------------------------------
(* The administrator's updates, and the lock-out, erasure and deletion flows. *)

AdminUpdate(c) ==
    \E u \in born, ch \in Changes : Begin(c, "update", "check", NoRecord, u, {ch}, FALSE)

(* Delete: the user exists, then the sessions, then the row. *)
AdminDelete(c) ==
    \E u \in born : u \in live /\ Begin(c, "delete", "revoke", NoRecord, u, {}, FALSE)

(* The bulk endpoints delete, lock and unlock without reading the user first. *)
BulkOperation(c) ==
    \E u \in born, op \in {"delete", "lock", "unlock"} :
        Begin(c, op, IF op = "delete" THEN "revoke" ELSE "flag", NoRecord, u, {}, FALSE)

(* The v2 endpoint: delete, disable, enable and force_password_reset. *)
BulkAction(c) ==
    \E u \in born, op \in {"delete", "lock", "unlock", "must_reset_password"} :
        Begin(c, op, IF op = "delete" THEN "revoke" ELSE "flag", NoRecord, u, {}, FALSE)

(* What delete_user_data writes over the identifiers of a user. *)
Erasure(u) == {<<"email", Tomb[u]>>, <<"username", Tomb[u]>>, <<"phone", Null>>}

(* delete_user_data: revoke the sessions, then delete or anonymise. *)
EraseUser(c) ==
    \E u \in born, hard \in BOOLEAN :
        /\ u \in live
        /\ Begin(c, IF hard THEN "delete" ELSE "erase", "revoke", NoRecord, u,
                 IF hard THEN {} ELSE Erasure(u), FALSE)

After(c) ==
    CASE co[c].op = "delete" -> "remove"
      [] co[c].op = "erase" /\ Updatable({"is_deleted"}) -> "check"
      [] OTHER               -> "idle"

Finish(c) == IF After(c) = "idle" THEN Return(c, "done") ELSE Goto(c, After(c))

SessionsOf(u) == {s \in sess : s[1] = u}

(* revoke_all_user_sessions: one statement in memory.py, sql.py, mongodb.py. *)
MemoryRevokeAll(u) == sess' = sess \ SessionsOf(u)

SqlRevokeAll(u) == sess' = {s \in sess : s[1] # u}

(* Mutant: update_one, of a session that is not active. *)
MongoRevokeNone(u) == UNCHANGED sess

MongoRevokeAll(u) == sess' = {s \in sess : s[1] # u}

RevokeAll(c) ==
    /\ At(c, "revoke") /\ backend # "dynamodb"
    /\ CASE backend = "memory"  -> MemoryRevokeAll(co[c].who)
         [] backend = "sql"     -> SqlRevokeAll(co[c].who)
         [] backend = "mongodb" -> MongoRevokeAll(co[c].who)
    /\ Finish(c)
    /\ UNCHANGED <<backend, store, flows, ghosts>>

(* DynamoDB lists the active sessions, then flips one item at a time. *)
DynamoListSessions(c) ==
    /\ At(c, "revoke") /\ backend = "dynamodb"
    /\ co' = [co EXCEPT ![c] = [co[c] EXCEPT !.pc = "flip", !.list = SessionsOf(co[c].who)]]
    /\ UNCHANGED <<backend, store, sess, flows, ghosts>>

DynamoFlipSession(c) ==
    /\ At(c, "flip")
    /\ IF co[c].list = {} THEN Finish(c) /\ UNCHANGED sess
       ELSE \E s \in co[c].list :
              /\ sess' = sess \ {s}
              /\ co' = [co EXCEPT ![c].list = @ \ {s}]
    /\ UNCHANGED <<backend, store, flows, ghosts>>

(* delete_user *)
Remove(c) ==
    /\ At(c, "remove")
    /\ live' = live \ {co[c].who}
    /\ active' = active \ {co[c].who}
    /\ Return(c, IF co[c].who \in live THEN "done" ELSE "refused")
    /\ UNCHANGED <<backend, born, row, key, sess, flows, ghosts>>

(* Mutant: the update upserts. *)
FlagBlindly(c) ==
    LET u == co[c].who IN
    /\ At(c, "flag")
    /\ active' = IF co[c].op = "unlock" THEN active \cup {u} ELSE active \ {u}
    /\ IF co[c].op = "lock" THEN Goto(c, "revoke") ELSE Return(c, "done")
    /\ UNCHANGED <<backend, live, born, row, key, sess, flows, ghosts>>

(* update_user(is_active) or (must_reset_password); a lock then revokes. *)
Flag(c) ==
    LET u == co[c].who IN
    /\ At(c, "flag")
    /\ IF u \notin live THEN Return(c, "refused") /\ UNCHANGED active
       ELSE IF co[c].op = "must_reset_password"
       THEN Return(c, IF Updatable({"must_reset_password"}) THEN "done" ELSE "refused")
            /\ UNCHANGED active
       ELSE IF co[c].op = "unlock"
       THEN active' = active \cup {u} /\ Return(c, "done")
       ELSE active' = active \ {u} /\ Goto(c, "revoke")
    /\ UNCHANGED <<backend, live, born, row, key, sess, flows, ghosts>>

------------------------------------------------------------------------------
(* A password login of an administrator: find the account, then save a row. *)

AdminLogin(c) ==
    \E p \in Profiles :
        /\ Given(p["email"])
        /\ Begin(c, "login", "signin",
                 [NoRecord EXCEPT !["email"] = p["email"], !["username"] = p["email"]],
                 Nobody, {}, FALSE)

SignIn(c) ==
    /\ At(c, "signin")
    /\ \E u \in Lookup(co[c].rec) :
         IF u \in active THEN co' = [co EXCEPT ![c] = [co[c] EXCEPT !.pc = "save", !.who = u]]
         ELSE Return(c, "refused")
    /\ UNCHANGED <<backend, store, sess, flows, ghosts>>

Closing(u) == \E d \in Coros : /\ co[d].who = u /\ co[d].op \in {"delete", "lock", "erase"}
                               /\ co[d].pc \in {"revoke", "flip", "check", "write", "remove"}

SaveSession(c) ==
    LET u == co[c].who IN
    /\ At(c, "save")
    /\ sess' = sess \cup {<<u, c>>}
    /\ late' = IF Closing(u) \/ u \notin active THEN late \cup {u} ELSE late
    /\ Return(c, "done")
    /\ UNCHANGED <<backend, store, flows, crossed, raced, erased>>

------------------------------------------------------------------------------
Init ==
    /\ backend \in Backends
    /\ \E p \in Seeds : LET u0 == CHOOSE u \in Users : TRUE IN
         /\ live = {u0} /\ born = {u0} /\ active = {u0}
         /\ row = [u \in Users |-> IF u = u0 THEN p ELSE NoRecord]
         /\ key = [u \in Users |-> IF u = u0 THEN NewKeys(p) ELSE NoRecord]
    /\ sess = {} /\ flows = 0
    /\ co = [c \in Coros |-> Idle]
    /\ crossed = {} /\ raced = FALSE /\ late = {} /\ erased = {}

Next == \E c \in Coros :
    \/ Register(c) \/ AdminCreate(c) \/ SocialLogin(c) \/ OidcLogin(c) \/ SamlLogin(c)
    \/ MagicLink(c) \/ Import(c) \/ FindAccount(c) \/ Check(c) \/ Write(c)
    \/ AdminUpdate(c) \/ AdminDelete(c) \/ BulkOperation(c) \/ BulkAction(c) \/ EraseUser(c)
    \/ RevokeAll(c) \/ DynamoListSessions(c) \/ DynamoFlipSession(c) \/ Remove(c) \/ Flag(c)
    \/ AdminLogin(c) \/ SignIn(c) \/ SaveSession(c)

Spec == Init /\ [][Next]_vars

------------------------------------------------------------------------------
(* Every variable holds what the code may put there. *)
TypeOK ==
    /\ backend \in Backends
    /\ live \subseteq born /\ born \subseteq Users /\ active \subseteq live
    /\ row \in [Users -> Record] /\ key \in [Users -> Record]
    /\ sess \subseteq Users \X Coros
    /\ flows \in 0..MaxFlows
    /\ \A c \in Coros : /\ co[c].rec \in Record /\ co[c].read \in Record
                        /\ co[c].who \in Users \cup {Nobody}
                        /\ co[c].list \subseteq sess \cup SessionsOf(co[c].who) \cup (Users \X Coros)

(* No two users share an e-mail address, a user name (up to case) or a phone *)
(* number, as create_user of the four adapters promises; on DynamoDB, whose   *)
(* write checks nothing but the id, only while no two writes have raced; on    *)
(* MongoDB but for users of whom two updates have crossed (see Searchable).    *)
Unique ==
    \A u, v \in live, f \in Fields :
        /\ u # v /\ Given(row[u][f])
        /\ backend = "dynamodb" => ~raced
        /\ backend = "mongodb" => {u, v} \cap crossed = {}
        => Lowered(f, row[u][f]) # Lowered(f, row[v][f])

(* What the adapter searches by is what the row says: a user is found by the  *)
(* identifiers stored and by no other.  The code keeps a cleared identifier   *)
(* searchable on MongoDB and DynamoDB, and MongoDB may write back the          *)
(* lowercase fields it read before another update of the same user.            *)
Searchable ==
    \A u \in live, f \in Fields :
        \/ key[u][f] = Lowered(f, row[u][f])
        \/ backend \in {"mongodb", "dynamodb"} /\ ~Given(row[u][f])
        \/ backend = "mongodb" /\ u \in crossed

(* An erased person is forgotten: none of the identifiers delete_user_data    *)
(* took away resolves to the user, until an update stores new ones.            *)
ErasureForgets ==
    \A e \in erased : e[1] \in live => key[e[1]][e[2]] # e[3]

(* A user who is deleted or locked out has no active session, unless a login  *)
(* overtook the deletion or the lock-out.                                      *)
NoOrphanSession ==
    \A s \in sess : s[1] \notin active /\ ~Closing(s[1]) => s[1] \in late

(* The directory keeps one account per identifier, finds it by what it says, *)
(* and closes it for good: well typed, unique, searchable, without sessions   *)
(* of a closed account or identifiers of an erased one.                        *)
DirectorySound == TypeOK /\ Unique /\ Searchable /\ ErasureForgets /\ NoOrphanSession

(* A registration is refused as a duplicate only when another user holds one  *)
(* of its identifiers; on MongoDB also when another user has phone None.       *)
RefusedOnlyIfTaken ==
    [][\A c \in Coros : co[c].res # "conflict" /\ co'[c].res = "conflict" =>
         LET rec == IF Updates(c) THEN Merge(row[co[c].who], co[c].upd) ELSE co[c].rec
         IN \E u \in live \ {co[c].who}, f \in Fields :
              \/ Given(rec[f]) /\ key[u][f] = Lowered(f, rec[f])
              \/ backend = "mongodb" /\ f = "phone" /\ rec[f] = Null /\ row[u][f] = Null
              \/ backend = "mongodb" /\ co[c].who \in crossed]_vars
=============================================================================
