--------------------------------- MODULE Roles ---------------------------------
(* Role-based access control: roles, assignments, the role cache every process *)
(* loads once and refreshes after its own writes, and permission checks.  The   *)
(* permissions of a role are abstracted to whether it carries the one asked     *)
(* about.                                                                       *)
EXTENDS Coroutines

CONSTANTS
    RoleIds, Names,
    SystemNames,     \* names whose roles are protected
    Scopes,          \* has "global"
    GrantIds,        \* ids of assignments
    Seeds            \* tables there may be at the start: [roles, grants]

VARIABLES
    roles,     \* rows: [RoleIds -> Row or None]
    born,      \* role ids handed out
    gone,      \* history: roles that were deleted
    grants,    \* assignment rows of the user asked about
    cache,     \* _roles_by_id of each process
    loaded,    \* processes whose cache has been loaded
    behind     \* history: <<process, role>> written by another process since

roleVars == <<roles, born, gone, grants, cache, loaded, behind>>
roleRows == <<roles, born, gone, behind>>
caches   == <<cache, loaded>>

Row == [name : Names, parent : RoleIds \cup {None}, allows : BOOLEAN]
Exists(r) == roles[r] # None
Known(p) == {r \in RoleIds : cache[p][r] # None}

(* Other coroutines that write a role, at one of these places. *)
On(c, r, pcs) == {d \in Busy(c) : co[d].op # "load" /\ co[d].role = r /\ co[d].pc \in pcs}
InProc(c, p, ds) == {d \in ds : co[d].proc = p}

------------------------------------------------------------------------------
(* Inheritance and evaluation. *)

(* A role and its ancestors in a cache.  The walk stops at what is missing;    *)
(* what was visited is not visited again.                                       *)
Chain(view, r) ==
    LET up[n \in 0..Cardinality(RoleIds)] ==
            IF n = 0 THEN r
            ELSE IF up[n - 1] = None \/ view[up[n - 1]] = None THEN None
            ELSE view[up[n - 1]].parent
    IN {up[n] : n \in 0..Cardinality(RoleIds)} \ {None}

(* Mutant: only the role itself is refused as its parent. *)
IsItself(view, r, parent) == r = parent
Cyclic(view, r, parent) == r \in Chain(view, parent)

IsSystem(row) == row.name \in SystemNames

Matches(grant, scope) == grant.scope = "global" \/ grant.scope = scope
Active(grant) == ~grant.past     \* without expires_at it never is

(* The roles of the assignments that count in a scope; has_permission asks     *)
(* whether one of them, or an ancestor, carries the permission.                 *)
Held(scope) == {g.role : g \in {g \in grants : Active(g) /\ Matches(g, scope)}}
Allows(view, held) ==
    \E r \in held : \E q \in Chain(view, r) : view[q] # None /\ view[q].allows

------------------------------------------------------------------------------
(* The role cache. *)

LoadCache(c) ==
    \E p \in Reachable \ loaded :
        /\ InProc(c, p, Busy(c)) = {}
        /\ Begin(c, [op |-> "load", pc |-> "fill", proc |-> p, view |-> roles])
        /\ behind' = {b \in behind : b[1] # p}
        /\ UNCHANGED <<area, backend, raced, roles, born, gone, grants, caches>>

FillCache(c) ==
    /\ At(c, "fill")
    /\ cache' = [cache EXCEPT ![co[c].proc] = co[c].view]
    /\ loaded' = loaded \cup {co[c].proc}
    /\ Return(c)
    /\ Continue /\ UNCHANGED <<raced, roleRows, grants>>

(* After its own write the process stores, or drops, what it wrote. *)
Refresh(c, row) ==
    LET f == co[c] IN
    /\ cache' = [cache EXCEPT ![f.proc][f.role] = row]
    /\ Overlap("order", <<f.proc, f.role>>, InProc(c, f.proc, On(c, f.role, {"refresh", "forget"})))
    /\ Return(c)
    /\ Continue /\ UNCHANGED <<roleRows, grants, loaded>>

RefreshCache(c) == At(c, "refresh") /\ Refresh(c, co[c].row)

(* Mutant: a deleted role stays in the cache. *)
KeepInCache(c) == At(c, "forget") /\ Refresh(c, cache[co[c].proc][co[c].role])
DropFromCache(c) == At(c, "forget") /\ Refresh(c, None)

------------------------------------------------------------------------------
(* create_role, update_role and delete_role check the cache before they write. *)

Pending == {"scan", "put", "save", "count", "drop", "refresh", "forget"}

(* What the check may have missed: a write of this role that is under way, or a *)
(* cache that is no longer what the database has.                               *)
Missed(c, p, r) ==
    (IF On(c, r, Pending) # {} THEN {<<"update", r>>} ELSE {})
    \cup (IF cache[p] # roles THEN {<<"stale", r>>} ELSE {})

CreateRole(c) ==
    \E p \in loaded, r \in RoleIds \ born, n \in Names, allows \in BOOLEAN :
        \E parent \in Known(p) \cup {None} :
            /\ Begin(c, [op |-> "create", pc |-> "save", proc |-> p, role |-> r,
                         row |-> [name |-> n, parent |-> parent, allows |-> allows]])
            /\ born' = born \cup {r}
            /\ UNCHANGED <<area, backend, raced, roles, gone, behind, grants, caches>>

(* The fields of the request are merged into the cached copy. *)
Edits(view, r) ==
    {[view[r] EXCEPT !.name = n] : n \in Names}
    \cup {[view[r] EXCEPT !.allows = ~@]}
    \cup {[view[r] EXCEPT !.parent = q] :
              q \in {q \in RoleIds : view[q] # None /\ ~Cyclic(view, r, q)}}

Reparents(f) == f.op = "update" /\ f.row.parent # None

UpdateRole(c) ==
    /\ MayBegin(c)
    /\ \E p \in loaded : \E r \in Known(p) :
           /\ ~IsSystem(cache[p][r])
           /\ \E row \in Edits(cache[p], r) \ {cache[p][r]} :
                  /\ Begin(c, [op |-> "update", pc |-> "save", proc |-> p, role |-> r, row |-> row])
                  /\ raced' = raced \cup Missed(c, p, r) \cup
                         IF \E d \in Busy(c) : Reparents(co[d]) THEN {<<"cycle", r>>} ELSE {}
    /\ UNCHANGED <<area, backend, roleVars>>

DeleteRole(c) ==
    \E p \in loaded : \E r \in Known(p) :
        /\ ~IsSystem(cache[p][r])
        /\ Begin(c, [op |-> "delete", pc |-> "count", proc |-> p, role |-> r])
        /\ raced' = raced \cup Missed(c, p, r)
        /\ UNCHANGED <<area, backend, roleVars>>

------------------------------------------------------------------------------
(* save_role: the name is unique, and a row that is missing is created. *)

Taken(f) == \E r \in RoleIds \ {f.role} : Exists(r) /\ roles[r].name = f.row.name

Write(f, row) ==
    /\ roles' = [roles EXCEPT ![f.role] = row]
    /\ behind' = behind \cup ((Procs \ {f.proc}) \X {f.role})

SaveRole(c) ==
    LET f == co[c] IN
    /\ At(c, "save")
    /\ IF Taken(f) THEN Return(c) /\ UNCHANGED <<roles, behind>>
       ELSE Write(f, f.row) /\ Goto(c, "refresh")
    /\ Continue /\ UNCHANGED <<raced, born, gone, grants, caches>>

(* The loop over the rows, the unique column and the unique index decide when  *)
(* the row is written.                                                          *)
MemorySaveRole(c) == backend = "memory" /\ SaveRole(c)
SqlSaveRole(c) == backend = "sql" /\ SaveRole(c)
MongoSaveRole(c) == backend = "mongodb" /\ SaveRole(c)

(* A scan for the name, then an unconditional put. *)
DynamoScanRoles(c) ==
    /\ backend = "dynamodb" /\ At(c, "save")
    /\ IF Taken(co[c]) THEN Return(c) ELSE Goto(c, "put")
    /\ Overlap("name", co[c].row.name, {d \in Busy(c) : At(d, "put")})
    /\ Continue /\ UNCHANGED roleVars

DynamoPutRole(c) ==
    /\ At(c, "put")
    /\ Write(co[c], co[c].row) /\ Goto(c, "refresh")
    /\ Continue /\ UNCHANGED <<raced, born, gone, grants, caches>>

------------------------------------------------------------------------------
(* delete_role: refused while an assignment names the role. *)

Assigned(r) == \E g \in grants : g.role = r

RemoveRow(c) ==
    LET f == co[c] IN
    IF Exists(f.role)
    THEN Write(f, None) /\ gone' = gone \cup {f.role} /\ Goto(c, "forget")
    ELSE UNCHANGED <<roles, behind, gone>> /\ Return(c)

MemoryDeleteRole(c) ==
    /\ backend = "memory" /\ At(c, "count")
    /\ IF Assigned(co[c].role) THEN UNCHANGED <<roles, behind, gone>> /\ Return(c)
       ELSE RemoveRow(c)
    /\ Continue /\ UNCHANGED <<raced, born, grants, caches>>

(* A count of the assignments, then the deletion, in one transaction or none:  *)
(* an assignment committed in between is not seen.                              *)
CountGrants(c) ==
    /\ At(c, "count")
    /\ IF Assigned(co[c].role) THEN Return(c) ELSE Goto(c, "drop")
    /\ Overlap("orphan", co[c].role, On(c, co[c].role, {"insert"}))
    /\ Continue /\ UNCHANGED roleVars

SqlDeleteRole(c) == backend = "sql" /\ CountGrants(c)
MongoDeleteRole(c) == backend = "mongodb" /\ CountGrants(c)
DynamoDeleteRole(c) == backend = "dynamodb" /\ CountGrants(c)

DropRole(c) ==
    /\ At(c, "drop")
    /\ RemoveRow(c)
    /\ Continue /\ UNCHANGED <<raced, born, grants, caches>>

------------------------------------------------------------------------------
(* assign_role, revoke_assignment and the expiry of an assignment. *)

AssignRole(c) ==
    \E p \in loaded, s \in Scopes : \E r \in Known(p) :
        /\ Begin(c, [op |-> "assign", pc |-> "exists", proc |-> p, role |-> r, scope |-> s])
        /\ UNCHANGED <<area, backend, raced, roleVars>>

Insert(c) ==
    /\ \E i \in GrantIds \ {g.id : g \in grants} :
           grants' = grants \cup {[id |-> i, role |-> co[c].role, scope |-> co[c].scope,
                                   past |-> FALSE]}
    /\ Return(c)

MemoryAssign(c) ==
    /\ backend = "memory" /\ At(c, "exists")
    /\ IF Exists(co[c].role) THEN Insert(c) ELSE Return(c) /\ UNCHANGED grants
    /\ Continue /\ UNCHANGED <<raced, roleRows, caches>>

(* Mutant: the role is not looked up in the database. *)
TrustCache(c) ==
    /\ At(c, "exists")
    /\ Goto(c, "insert")
    /\ Overlap("orphan", co[c].role, On(c, co[c].role, {"drop"}))
    /\ Continue /\ UNCHANGED roleVars

FindRole(c) ==
    /\ At(c, "exists")
    /\ IF Exists(co[c].role) THEN Goto(c, "insert") ELSE Return(c)
    /\ Overlap("orphan", co[c].role, On(c, co[c].role, {"drop"}))
    /\ Continue /\ UNCHANGED roleVars

SqlAssign(c) == backend = "sql" /\ FindRole(c)
MongoAssign(c) == backend = "mongodb" /\ FindRole(c)
DynamoAssign(c) == backend = "dynamodb" /\ FindRole(c)

InsertGrant(c) ==
    /\ At(c, "insert")
    /\ Insert(c)
    /\ Continue /\ UNCHANGED <<raced, roleRows, caches>>

RevokeAssignment(c) ==
    \E g \in grants :
        /\ At(c, "idle") /\ flows < MaxFlows /\ flows' = flows + 1
        /\ grants' = grants \ {g}
        /\ UNCHANGED <<area, backend, co, raced, roleRows, caches>>

GrantExpires ==
    \E g \in grants :
        /\ Active(g)
        /\ grants' = (grants \ {g}) \cup {[g EXCEPT !.past = TRUE]}
        /\ UNCHANGED <<area, backend, co, flows, raced, roleRows, caches>>

------------------------------------------------------------------------------
(* A request is cancelled, or its process ends, while it waits for a database  *)
(* outside the process.                                                         *)
RoleRequestDies(c) ==
    /\ backend # "memory" /\ ~At(c, "idle")
    /\ raced' = raced \cup
           IF co[c].pc \in {"refresh", "forget"} THEN {<<"died", <<co[c].proc, co[c].role>>>>} ELSE {}
    /\ Return(c)
    /\ Continue /\ UNCHANGED roleVars

RolesAtRest ==
    /\ \E s \in Seeds : roles = s.roles /\ grants = s.grants
    /\ born = {r \in RoleIds : roles[r] # None}
    /\ gone = {} /\ behind = {}
    /\ \E p \in Reachable : loaded \in {{p}, Reachable}
    /\ cache = [p \in Procs |-> IF p \in loaded THEN roles ELSE [r \in RoleIds |-> None]]

RolesNext ==
    \/ GrantExpires
    \/ \E c \in Coros :
         /\ Alone(c)
         /\ \/ LoadCache(c) \/ FillCache(c) \/ RefreshCache(c) \/ DropFromCache(c)
            \/ CreateRole(c) \/ UpdateRole(c) \/ DeleteRole(c)
            \/ MemorySaveRole(c) \/ SqlSaveRole(c) \/ MongoSaveRole(c)
            \/ DynamoScanRoles(c) \/ DynamoPutRole(c)
            \/ MemoryDeleteRole(c) \/ SqlDeleteRole(c) \/ MongoDeleteRole(c)
            \/ DynamoDeleteRole(c) \/ DropRole(c)
            \/ AssignRole(c) \/ MemoryAssign(c) \/ SqlAssign(c) \/ MongoAssign(c)
            \/ DynamoAssign(c) \/ InsertGrant(c) \/ RevokeAssignment(c)
    \/ \E c \in Coros : RoleRequestDies(c)

------------------------------------------------------------------------------
(* Properties. *)

RoleTypes ==
    /\ \A r \in RoleIds : Exists(r) => roles[r] \in Row /\ r \in born
    /\ grants \subseteq [id : GrantIds, role : RoleIds, scope : Scopes,
                         past : BOOLEAN]
    /\ \A p \in Procs, r \in RoleIds : cache[p][r] \in Row \cup {None}
    /\ loaded \subseteq Reachable /\ behind \subseteq Procs \X RoleIds

(* Role names are unique, except in DynamoDB between a scan and a put. *)
NamesDiffer ==
    \A r, q \in RoleIds : Exists(r) /\ Exists(q) /\ roles[r].name = roles[q].name =>
        r = q \/ (backend = "dynamodb" /\ Raced("name", roles[r].name))

(* No role inherits from itself, unless a new parent was checked against a      *)
(* cache that missed another change: "strict cycle guard".                      *)
Acyclic ==
    \A r \in RoleIds : Exists(r) /\ r \in Chain(roles, roles[r].parent) =>
        \E q \in Chain(roles, r) : Raced("cycle", q) \/ Raced("stale", q)

(* A deleted role is written again only by an update that had checked a copy of *)
(* it; no assignment names a missing role unless it was added while the role    *)
(* was being deleted.                                                            *)
DeletedRolesGone ==
    /\ \A r \in gone : Exists(r) => Raced("update", r) \/ Raced("stale", r)
    /\ \A g \in grants : Exists(g.role) \/ Raced("orphan", g.role)

(* A process sees the rows as they are, except where another process wrote,     *)
(* where a write of its own is still returning, where two returned in the       *)
(* other order, or where the request died before it stored the result.          *)
CacheFresh ==
    \A p \in loaded, r \in RoleIds :
        \/ cache[p][r] = roles[r]
        \/ <<p, r>> \in behind
        \/ \E d \in Coros : co[d].pc \in {"refresh", "forget"} /\ co[d].proc = p /\ co[d].role = r
        \/ Raced("order", <<p, r>>) \/ Raced("died", <<p, r>>)

(* The walk that visits no role twice decides as the closure of inheritance    *)
(* does, whatever roles a query returned, even where roles inherit in a circle. *)
WalkIsClosure ==
    \A p \in loaded, held \in {Held(s) : s \in Scopes} \cup {RoleIds} :
        LET view == cache[p]
            above[n \in 0..Cardinality(RoleIds)] ==
                IF n = 0 THEN held
                ELSE above[n - 1] \cup {q \in RoleIds : \E r \in above[n - 1] :
                                           view[r] # None /\ view[r].parent = q}
        IN Allows(view, held) <=>
               \E q \in above[Cardinality(RoleIds)] : view[q] # None /\ view[q].allows

(* A protected role is never changed or deleted, unless the check was made on a *)
(* copy from before it became protected.                                        *)
SystemRolesStay ==
    \A r \in RoleIds : Exists(r) /\ IsSystem(roles[r]) /\ roles'[r] # roles[r] =>
        Raced("update", r) \/ Raced("stale", r)

(* Roles, their assignments and the caches together, with the overlaps that     *)
(* break each promise named; with one process over the in-memory adapter none   *)
(* of them occurs.                                                               *)
RolesHold ==
    /\ RoleTypes /\ NamesDiffer /\ Acyclic /\ DeletedRolesGone /\ CacheFresh /\ WalkIsClosure
    /\ backend = "memory" => raced = {}

(* No step of a request leads out of that, or touches a system role. *)
RolesSound == [][area = "roles" => RolesHold' /\ SystemRolesStay]_<<base, roleVars>>
==============================================================================
