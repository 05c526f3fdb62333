------------------------------ MODULE Enterprise ------------------------------
(* The /admin/v2 routes: who may call them (an admin's token or an API key),   *)
(* the API keys themselves, and what they keep in the settings table: values,   *)
(* reports and the index of reports.  DynamoDB answers a query of a secondary   *)
(* index, and a get without ConsistentRead, from data that may be one write     *)
(* behind.                                                                      *)
EXTENDS Coroutines, Sequences

CONSTANTS
    KeyIds, Reports,
    MaxIndex,        \* entries the index of reports keeps
    Keyrings         \* keys there may be at the start: [KeyIds -> Key]

VARIABLES
    keys,      \* api_keys rows
    keyIndex,  \* the rows as the hash index has them
    expired,   \* keys whose expires_at, if they have one, has passed
    admin,     \* row of the user whose token the JWT principal shows
    granted,   \* whether RBAC grants that user admin:*
    stored,    \* admin:report:{job_id} settings
    index,     \* admin:report:index
    oldIndex,  \* what a replica may still answer for it
    used,      \* job ids handed out
    done       \* history: reports whose request succeeded

keyVars == <<keys, keyIndex, expired, admin, granted>>
reportVars == <<stored, index, oldIndex, used, done>>
enterpriseVars == <<keyVars, reportVars>>

Key == [state : {"none", "live", "revoked"}, scope : {"admin:*", "read:only"}, dated : BOOLEAN]
Principals == KeyIds \cup {"jwt"}

------------------------------------------------------------------------------
(* Who calls: get_v2_principal and require_v2_scope. *)

(* Mutant: the revoked flag is not looked at. *)
NoFlag(key, k) == key.state # "none" /\ ~(key.dated /\ k \in expired)
Valid(key, k) == key.state = "live" /\ ~(key.dated /\ k \in expired)

(* An admin's token: the user is active, and an admin by role or by a grant.   *)
IsAdmin == admin = "admin" \/ (admin = "user" /\ granted)

(* Principals that are to be refused, whatever index a query reads. *)
Refused ==
    {k \in KeyIds : keys[k].state = "revoked" \/ (keys[k].dated /\ k \in expired)}
    \cup (IF IsAdmin THEN {} ELSE {"jwt"})

Accepted(p) ==
    IF p = "jwt" THEN IsAdmin
    ELSE Valid(IF backend = "dynamodb" THEN keyIndex[p] ELSE keys[p], p)

AdminRoutes == {"createkey", "revoke", "set"}
InScope(p, op) == p = "jwt" \/ keys[p].scope = "admin:*" \/ op \notin AdminRoutes

FirstStep(op) == CASE op = "createkey" -> "save"
                   [] op = "revoke"    -> "revoke"
                   [] op = "report"    -> "artifact"

Request(c) ==
    \E p \in {"jwt"} \cup {k \in KeyIds : keys[k].state # "none"},
       op \in {"createkey", "revoke", "report"} :
        /\ Begin(c, [op |-> op, pc |-> "auth", principal |-> p, late |-> p \in Refused,
                     report |-> None, list |-> <<>>])
        /\ UNCHANGED <<area, backend, raced, enterpriseVars>>

Authenticate(c) ==
    LET f == co[c] IN
    /\ At(c, "auth")
    /\ IF Accepted(f.principal) /\ InScope(f.principal, f.op)
       THEN Goto(c, FirstStep(f.op)) ELSE Return(c)
    /\ raced' = IF f.principal \in KeyIds /\ keyIndex[f.principal] # keys[f.principal]
                THEN raced \cup {<<"lag", f.principal>>} ELSE raced
    /\ Continue /\ UNCHANGED enterpriseVars

(* The user is disabled or loses the role, elsewhere. *)
AdminChanges ==
    /\ admin = "admin"
    /\ admin' \in {"user", "disabled"}
    /\ UNCHANGED <<base, keys, keyIndex, expired, granted, reportVars>>

KeyExpires ==
    \E k \in KeyIds \ expired :
        /\ keys[k].state = "live" /\ keys[k].dated
        /\ expired' = expired \cup {k}
        /\ UNCHANGED <<base, keys, keyIndex, admin, granted, reportVars>>

KeyIndexCatchesUp ==
    \E k \in KeyIds :
        /\ keyIndex[k] # keys[k]
        /\ keyIndex' = [keyIndex EXCEPT ![k] = keys[k]]
        /\ UNCHANGED <<base, keys, expired, admin, granted, reportVars>>

------------------------------------------------------------------------------
(* API keys. *)

PutKey(k, key) ==
    /\ keys' = [keys EXCEPT ![k] = key]
    /\ keyIndex' = IF backend = "dynamodb" THEN keyIndex ELSE keys'

NewKey(scope, dated) ==
    \E k \in KeyIds :
        /\ keys[k].state = "none"
        /\ PutKey(k, [state |-> "live", scope |-> scope, dated |-> dated])

SaveKey(c, dates) ==
    /\ At(c, "save")
    /\ \E scope \in {"admin:*", "read:only"}, dated \in dates : NewKey(scope, dated)
    /\ Return(c)
    /\ Continue /\ UNCHANGED <<raced, expired, admin, granted, reportVars>>

MemorySaveKey(c) == backend = "memory" /\ SaveKey(c, BOOLEAN)
MongoSaveKey(c) == backend = "mongodb" /\ SaveKey(c, BOOLEAN)
DynamoSaveKey(c) == backend = "dynamodb" /\ SaveKey(c, BOOLEAN)

(* expires_at is no column: the JSON column does not take a datetime, and a    *)
(* key that is to expire is refused with a TypeError.                           *)
SqlSaveKey(c) ==
    /\ backend = "sql"
    /\ \/ SaveKey(c, {FALSE})
       \/ /\ At(c, "save") /\ Return(c)
          /\ Continue /\ UNCHANGED <<raced, enterpriseVars>>

RevokeKey(c) ==
    /\ At(c, "revoke")
    /\ \E k \in KeyIds :
           /\ keys[k].state # "none"
           /\ PutKey(k, [keys[k] EXCEPT !.state = "revoked"])
    /\ Return(c)
    /\ Continue /\ UNCHANGED <<raced, expired, admin, granted, reportVars>>

MemoryRevokeKey(c) == backend = "memory" /\ RevokeKey(c)
SqlRevokeKey(c) == backend = "sql" /\ RevokeKey(c)
MongoRevokeKey(c) == backend = "mongodb" /\ RevokeKey(c)
DynamoRevokeKey(c) == backend = "dynamodb" /\ RevokeKey(c)

------------------------------------------------------------------------------
(* generate_report: the artifact, then the index is read and written back. *)

StoreReport(c) ==
    /\ At(c, "artifact")
    /\ \E r \in Reports \ used :
           /\ used' = used \cup {r}
           /\ stored' = stored \cup {r}
           /\ co' = [co EXCEPT ![c].pc = "index", ![c].report = r]
    /\ Continue /\ UNCHANGED <<raced, keyVars, index, oldIndex, done>>

Indexing(c) == {d \in Busy(c) : At(d, "write")}

ReadIndex(c) ==
    /\ At(c, "index")
    /\ \E seen \in {index} \cup (IF backend = "dynamodb" THEN {oldIndex} ELSE {}) :
           /\ co' = [co EXCEPT ![c].pc = "write", ![c].list = seen]
           /\ Overlap("index", "reports", IF seen = index THEN Indexing(c) ELSE {c})
    /\ Continue /\ UNCHANGED enterpriseVars

(* Mutant: the oldest entries are kept. *)
KeepOldest(list) == SubSeq(list, 1, IF Len(list) > MaxIndex THEN MaxIndex ELSE Len(list))
Trim(list) == SubSeq(list, IF Len(list) > MaxIndex THEN Len(list) - MaxIndex + 1 ELSE 1, Len(list))

(* set_setting *)
WriteIndex(c) ==
    /\ At(c, "write")
    /\ index' = Trim(Append(co[c].list, co[c].report))
    /\ oldIndex' = IF backend = "dynamodb" THEN index ELSE index'
    /\ done' = Append(done, co[c].report)
    /\ Return(c)
    /\ Continue /\ UNCHANGED <<raced, keyVars, stored, used>>

MemorySetIndex(c) == backend = "memory" /\ WriteIndex(c)
SqlSetIndex(c) == backend = "sql" /\ WriteIndex(c)
MongoSetIndex(c) == backend = "mongodb" /\ WriteIndex(c)
DynamoSetIndex(c) == backend = "dynamodb" /\ WriteIndex(c)

ReplicaCatchesUp ==
    /\ oldIndex # index
    /\ oldIndex' = index
    /\ UNCHANGED <<base, keyVars, stored, index, used, done>>

EnterpriseRequestDies(c) ==
    /\ backend # "memory" /\ ~At(c, "idle")
    /\ Return(c)
    /\ Continue /\ UNCHANGED <<raced, enterpriseVars>>

EnterpriseAtRest ==
    /\ keys \in Keyrings /\ keyIndex = keys /\ expired = {}
    /\ admin = "admin" /\ granted \in BOOLEAN
    /\ stored = {} /\ used = {} /\ index = <<>> /\ oldIndex = <<>> /\ done = <<>>

EnterpriseNext ==
    \/ AdminChanges \/ KeyExpires \/ KeyIndexCatchesUp \/ ReplicaCatchesUp
    \/ \E c \in Coros :
         /\ Alone(c)
         /\ \/ Request(c) \/ Authenticate(c)
            \/ MemorySaveKey(c) \/ SqlSaveKey(c) \/ MongoSaveKey(c) \/ DynamoSaveKey(c)
            \/ MemoryRevokeKey(c) \/ SqlRevokeKey(c) \/ MongoRevokeKey(c) \/ DynamoRevokeKey(c)
            \/ StoreReport(c) \/ ReadIndex(c)
            \/ MemorySetIndex(c) \/ SqlSetIndex(c) \/ MongoSetIndex(c) \/ DynamoSetIndex(c)
    \/ \E c \in Coros : EnterpriseRequestDies(c)

------------------------------------------------------------------------------
(* Properties. *)

EnterpriseTypes ==
    /\ keys \in [KeyIds -> Key] /\ keyIndex \in [KeyIds -> Key] /\ expired \subseteq KeyIds
    /\ admin \in {"admin", "user", "disabled"}
    /\ stored \subseteq used /\ used \subseteq Reports
    /\ Len(index) <= MaxIndex

(* A request that arrives after its key was revoked or had expired, or after    *)
(* its admin was demoted or disabled, gets past the guard only where DynamoDB's *)
(* index had not caught up with the revocation.                                 *)
RefusedStayOut ==
    \A c \in Coros : ~At(c, "idle") /\ ~At(c, "auth") /\ co[c].late =>
        backend = "dynamodb" /\ Raced("lag", co[c].principal)

(* The newest reports whose requests succeeded are in the index, unless two     *)
(* requests read it before either wrote it, or one read an old copy; and what   *)
(* the index lists can be downloaded.                                           *)
NewestListed ==
    /\ \A i \in DOMAIN done : i + MaxIndex > Len(done) =>
           Raced("index", "reports") \/ \E j \in DOMAIN index : index[j] = done[i]
    /\ \A j \in DOMAIN index : index[j] \in stored

EnterpriseSound == area = "enterprise" =>
    /\ EnterpriseTypes /\ RefusedStayOut /\ NewestListed
    /\ backend = "memory" => raced = {}
==============================================================================
