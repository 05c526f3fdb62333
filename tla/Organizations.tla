---------------------------- MODULE Organizations ----------------------------
(* Organizations, their members and their invitations: the manager's check-   *)
(* then-act flows over the four adapters and the cache that counts sends.      *)
(* A coroutine is suspended between two calls, except over the in-memory       *)
(* adapter, whose methods never yield: there only the cache calls suspend.     *)
EXTENDS Naturals, FiniteSets

CONSTANTS
    Orgs, Invs,       \* ids the database hands out
    Users, Coros,
    Slugs,            \* slugs the callers ask for
    Suffix,           \* the slug with the random suffix of each organization
    Emails, Email,    \* the user's address: [Users -> Emails]
    Roles,            \* has "owner"
    MaxMembers,       \* member cap of the plan
    MaxInvites,       \* max_invitations_per_window
    Seeds,            \* members of the organization that exists at the start
    FirstOrg,         \* that organization
    MaxFlows          \* bound on the flows started

Backends  == {"memory", "sql", "mongodb", "dynamodb"}
NoOne     == "nobody"
Nothing   == "nothing"

ASSUME NamesAssumption == Nothing \notin Slugs \cup {Suffix[o] : o \in Orgs}
ASSUME RolesAssumption == {"owner", "member"} \subseteq Roles
ASSUME BoundsAssumption == MaxMembers \in Nat \ {0} /\ IsFiniteSet(Coros) /\ Coros # {}
ASSUME StartAssumption ==
    /\ FirstOrg \in Orgs /\ Slugs # {} /\ Invs # {}
    /\ \A s \in Seeds : /\ IsFiniteSet(DOMAIN s) /\ DOMAIN s \subseteq Users
                        /\ s \in [DOMAIN s -> Roles] /\ \E u \in DOMAIN s : s[u] = "owner"
                        /\ Cardinality(DOMAIN s) <= MaxMembers

VARIABLES
    backend,   \* the adapter
    orgs,      \* organizations with a row
    born,      \* organization ids handed out
    slug,      \* slug of each organization
    members,   \* org_members rows: [Orgs -> subset of Users]
    role,      \* role in each row
    invites,   \* invitation rows: [id, org, email, role]
    count,     \* the send counter of each organization
    ttl,       \* organizations whose counter has an expiry
    co,        \* the coroutines' local state
    flows,     \* flows started so far
    raced,     \* history: <<kind, id>> of the steps that overlapped
    admitted,  \* history: <<invitation, user>> who joined with it
    owned      \* history: organizations that have had an owner

vars == <<backend, orgs, born, slug, members, role, invites, count, ttl,
          co, flows, raced, admitted, owned>>
orgRows    == <<orgs, slug>>
memberRows == <<members, role, admitted, owned>>
cacheKeys  == <<count, ttl>>
invitation == <<invites>>

Idle == [op |-> "none", pc |-> "idle", org |-> Nothing, user |-> NoOne, role |-> "member",
         text |-> Nothing, inv |-> Nothing, list |-> {}]

------------------------------------------------------------------------------
(* Coroutine steps. *)

At(c, pc) == co[c].pc = pc
Goto(c, pc) == co' = [co EXCEPT ![c].pc = pc]
Return(c, outcome) == co' = [co EXCEPT ![c] = Idle]   \* outcome: for the reader

(* Awaiting an in-memory method hands the loop to nobody else. *)
Turn(c) ==
    backend = "memory" => \A d \in Coros \ {c} : co[d].pc \in {"idle", "incr", "expire"}

(* Organizations a client can name. *)
Known == {o \in born : slug[o] # Nothing}

Start(c, frame) ==
    /\ At(c, "idle") /\ flows < MaxFlows
    /\ flows' = flows + 1
    /\ co' = [co EXCEPT ![c] = frame]
    /\ UNCHANGED <<backend, born, orgRows, memberRows, invitation, cacheKeys, raced>>

Others(c, pcs) == {d \in Coros \ {c} : co[d].org = co[c].org /\ co[d].pc \in pcs}
Deleting(c) == Others(c, {"delmembers", "dropmembers", "delinvites", "dropinvites", "delorg", "commit"})
Overlap(kind, id, ds) == raced' = IF ds = {} THEN raced ELSE raced \cup {<<kind, id>>}

------------------------------------------------------------------------------
(* create_organization and update_organization: the slug. *)

Named(s) == {o \in orgs : slug[o] = s}

CreateOrganization(c) ==
    \E o \in Orgs \ born, u \in Users, s \in Slugs :
        /\ At(c, "idle") /\ flows < MaxFlows
        /\ flows' = flows + 1
        /\ born' = born \cup {o}
        /\ co' = [co EXCEPT ![c] = [Idle EXCEPT !.op = "create", !.pc = "slug", !.org = o,
                                                !.user = u, !.role = "owner", !.text = s]]
        /\ UNCHANGED <<backend, orgRows, memberRows, invitation, cacheKeys, raced>>

PickSlug(c) ==
    /\ At(c, "slug")
    /\ co' = [co EXCEPT ![c].pc = "name",
                        ![c].text = IF Named(@) = {} THEN @ ELSE Suffix[co[c].org]]
    /\ UNCHANGED <<backend, born, orgRows, memberRows, invitation, cacheKeys, flows, raced>>

(* A rename of an organization; no route offers one, the manager does. *)
UpdateOrganization(c) ==
    \E o \in Known, s \in Slugs :
        Start(c, [Idle EXCEPT !.op = "rename", !.pc = "name", !.org = o, !.text = s])

SlugTaken(c) == Named(co[c].text) \ {co[c].org} # {}

PutName(c) ==
    LET o == co[c].org IN
    /\ slug' = [slug EXCEPT ![o] = co[c].text]
    /\ IF co[c].op = "create"
       THEN orgs' = orgs \cup {o} /\ Goto(c, "add")
       ELSE orgs' = orgs /\ Return(c, "done")

Gone(c) == co[c].op = "rename" /\ co[c].org \notin orgs

NameOnce(c) ==
    /\ At(c, "name")
    /\ IF Gone(c) THEN Return(c, "missing") /\ UNCHANGED orgRows
       ELSE IF SlugTaken(c) THEN Return(c, "conflict") /\ UNCHANGED orgRows
       ELSE PutName(c)
    /\ UNCHANGED <<backend, born, memberRows, invitation, cacheKeys, flows, raced>>

(* The dict of slugs, the unique column and the unique index decide at the    *)
(* write, whatever an earlier query said.                                      *)
MemoryName(c) == backend = "memory" /\ NameOnce(c)
SqlName(c) == backend = "sql" /\ NameOnce(c)
MongoName(c) == backend = "mongodb" /\ NameOnce(c)

(* DynamoDB queries the slug, then puts under a condition on the id alone. *)
DynamoName(c) ==
    /\ backend = "dynamodb" /\ At(c, "name")
    /\ IF SlugTaken(c) THEN Return(c, "conflict") ELSE Goto(c, "put")
    /\ Overlap("slug", co[c].text, {d \in Coros \ {c} : At(d, "put")})
    /\ UNCHANGED <<backend, born, orgRows, memberRows, invitation, cacheKeys, flows>>

DynamoPut(c) ==
    /\ At(c, "put")
    /\ IF Gone(c) THEN Return(c, "missing") /\ UNCHANGED orgRows ELSE PutName(c)
    /\ UNCHANGED <<backend, born, memberRows, invitation, cacheKeys, flows, raced>>

------------------------------------------------------------------------------
(* add_member, and the tail of accept_invitation: read the organization,      *)
(* count its members, add one.                                                 *)

AddMember(c) ==
    \E o \in Known, u \in Users, r \in Roles :
        Start(c, [Idle EXCEPT !.op = "add", !.pc = "org", !.org = o, !.user = u, !.role = r])

ReadOrg(c) ==
    /\ At(c, "org")
    /\ IF co[c].org \notin orgs THEN Return(c, "missing")
       ELSE Goto(c, IF co[c].op = "invite" THEN "pending" ELSE "count")
    /\ UNCHANGED <<backend, born, orgRows, memberRows, invitation, cacheKeys, flows, raced>>

CountMembers(c) ==
    /\ At(c, "count")
    /\ IF Cardinality(members[co[c].org]) >= MaxMembers THEN Return(c, "full") ELSE Goto(c, "add")
    /\ Overlap("cap", co[c].org, Others(c, {"slug", "name", "put", "add", "insert"}))
    /\ UNCHANGED <<backend, born, orgRows, memberRows, invitation, cacheKeys, flows>>

InsertMember(c) ==
    LET o == co[c].org
        u == co[c].user
    IN IF u \in members[o] THEN Return(c, "conflict") /\ UNCHANGED memberRows
       ELSE /\ members' = [members EXCEPT ![o] = @ \cup {u}]
            /\ role' = [role EXCEPT ![o][u] = co[c].role]
            /\ admitted' = admitted \cup
                   IF co[c].op = "accept" THEN {<<co[c].inv, u>>} ELSE {}
            /\ owned' = IF co[c].role = "owner" THEN owned \cup {o} ELSE owned
            /\ Return(c, "done")

(* add_org_member *)
MemoryAddMember(c) ==
    /\ backend = "memory" /\ At(c, "add")
    /\ IF co[c].org \in orgs THEN InsertMember(c)
       ELSE Return(c, "missing") /\ UNCHANGED memberRows
    /\ UNCHANGED <<backend, born, orgRows, invitation, cacheKeys, flows, raced>>

(* The organization is read first; the primary key refuses a second row. *)
CheckOrg(c, next) ==
    /\ IF co[c].org \in orgs THEN Goto(c, next) ELSE Return(c, "missing")
    /\ Overlap("cascade", co[c].org, Deleting(c))
    /\ UNCHANGED <<backend, born, orgRows, memberRows, invitation, cacheKeys, flows>>

SqlAddMember(c) == backend = "sql" /\ At(c, "add") /\ CheckOrg(c, "insert")
MongoAddMember(c) == backend = "mongodb" /\ At(c, "add") /\ CheckOrg(c, "insert")
DynamoAddMember(c) == backend = "dynamodb" /\ At(c, "add") /\ CheckOrg(c, "insert")

PutMember(c) ==
    /\ At(c, "insert")
    /\ InsertMember(c)
    /\ UNCHANGED <<backend, born, orgRows, invitation, cacheKeys, flows, raced>>

------------------------------------------------------------------------------
(* remove_member and update_member_role: read the members, then write. *)

Owners(o) == {u \in members[o] : role[o][u] = "owner"}

(* Mutant: the comparison is off by one. *)
LastOwnerGone(o, u) == u \in Owners(o) /\ Owners(o) = {}
LastOwner(o, u) == Owners(o) = {u}

RemoveMember(c) ==
    \E o \in Known, u \in Users :
        Start(c, [Idle EXCEPT !.op = "remove", !.pc = "members", !.org = o, !.user = u])

UpdateMemberRole(c) ==
    \E o \in Known, u \in Users, r \in Roles :
        Start(c, [Idle EXCEPT !.op = "role", !.pc = "members", !.org = o, !.user = u, !.role = r])

StepsDown(c) == co[c].op = "remove" \/ co[c].role # "owner"

ReadMembers(c) ==
    LET o == co[c].org IN
    /\ At(c, "members")
    /\ IF co[c].user \notin members[o] THEN Return(c, "missing")
       ELSE IF StepsDown(c) /\ LastOwner(o, co[c].user) THEN Return(c, "refused")
       ELSE Goto(c, "apply")
    /\ Overlap("owner", o, Others(c, {"apply"}))
    /\ UNCHANGED <<backend, born, orgRows, memberRows, invitation, cacheKeys, flows>>

(* remove_org_member and update_org_member touch a row that is still there. *)
RemoveRow(c) ==
    /\ co[c].op = "remove"
    /\ members' = [members EXCEPT ![co[c].org] = @ \ {co[c].user}]
    /\ role' = [role EXCEPT ![co[c].org][co[c].user] = "member"]
    /\ UNCHANGED owned

ChangeRole(c) ==
    LET o == co[c].org IN
    /\ co[c].op = "role"
    /\ role' = IF co[c].user \in members[o] THEN [role EXCEPT ![o][co[c].user] = co[c].role] ELSE role
    /\ owned' = IF co[c].user \in members[o] /\ co[c].role = "owner" THEN owned \cup {o} ELSE owned
    /\ UNCHANGED members

ApplyToMember(c) ==
    /\ At(c, "apply")
    /\ RemoveRow(c) \/ ChangeRole(c)
    /\ Return(c, IF co[c].user \in members[co[c].org] THEN "done" ELSE "missing")
    /\ UNCHANGED <<backend, born, orgRows, admitted, invitation, cacheKeys, flows, raced>>

------------------------------------------------------------------------------
(* Invitations. *)

PendingOf(o) == {i \in invites : i.org = o}
HeldBy(c, i) == {d \in Coros \ {c} : co[d].inv = i /\ co[d].pc \in {"user", "consume"}}

SendInvitation(c) ==
    \E o \in Known, e \in Emails, r \in Roles :
        Start(c, [Idle EXCEPT !.op = "invite", !.pc = "org", !.org = o, !.text = e, !.role = r])

(* A row that has expired but was not purged still counts as pending. *)
CheckPending(c) ==
    /\ At(c, "pending")
    /\ IF \E i \in PendingOf(co[c].org) : i.email = co[c].text
       THEN Return(c, "conflict") ELSE Goto(c, "incr")
    /\ Overlap("invite", co[c].org, Others(c, {"incr", "expire", "create", "insertinv"}))
    /\ UNCHANGED <<backend, born, orgRows, memberRows, invitation, cacheKeys, flows>>

(* _enforce_invitation_rate_limit: incr, then expire if it was the first. *)
CountSend(c) ==
    LET o == co[c].org IN
    /\ At(c, "incr")
    /\ count' = [count EXCEPT ![o] = @ + 1]
    /\ IF count[o] = 0 THEN Goto(c, "expire")
       ELSE IF count[o] + 1 > MaxInvites THEN Return(c, "limited")
       ELSE Goto(c, "create")
    /\ UNCHANGED <<backend, born, orgRows, memberRows, invitation, ttl, flows, raced>>

(* Mutant: the expiry is left out. *)
NeverExpires(c) ==
    /\ At(c, "expire")
    /\ Goto(c, "create")
    /\ UNCHANGED <<backend, born, orgRows, memberRows, invitation, count, ttl, flows, raced>>

(* EXPIRE does nothing to a key that is gone. *)
ExpireCounter(c) ==
    LET o == co[c].org IN
    /\ At(c, "expire")
    /\ ttl' = IF count[o] > 0 THEN ttl \cup {o} ELSE ttl
    /\ Goto(c, "create")
    /\ UNCHANGED <<backend, born, orgRows, memberRows, invitation, count, flows, raced>>

WindowEnds ==
    \E o \in ttl :
        /\ ttl' = ttl \ {o}
        /\ count' = [count EXCEPT ![o] = 0]
        /\ UNCHANGED <<backend, born, orgRows, memberRows, invitation, co, flows, raced>>

NewInvitation(c) ==
    \E i \in Invs \ ({x.id : x \in invites} \cup {a[1] : a \in admitted}
                     \cup {co[d].inv : d \in Coros}) :
        /\ invites' = invites \cup {[id |-> i, org |-> co[c].org, email |-> co[c].text,
                                     role |-> co[c].role]}
        /\ Return(c, "done")

(* create_invitation *)
MemoryInvite(c) ==
    /\ backend = "memory" /\ At(c, "create")
    /\ IF co[c].org \in orgs THEN NewInvitation(c)
       ELSE Return(c, "missing") /\ UNCHANGED invites
    /\ UNCHANGED <<backend, born, orgRows, memberRows, cacheKeys, flows, raced>>

(* expires_at is no column: a datetime in the JSON column raises TypeError. *)
SqlInvite(c) ==
    /\ backend = "sql" /\ At(c, "create")
    /\ Return(c, IF co[c].org \in orgs THEN "error" ELSE "missing")
    /\ UNCHANGED <<backend, born, orgRows, memberRows, invitation, cacheKeys, flows, raced>>

MongoInvite(c) == backend = "mongodb" /\ At(c, "create") /\ CheckOrg(c, "insertinv")
DynamoInvite(c) == backend = "dynamodb" /\ At(c, "create") /\ CheckOrg(c, "insertinv")

PutInvitation(c) ==
    /\ At(c, "insertinv")
    /\ NewInvitation(c)
    /\ UNCHANGED <<backend, born, orgRows, memberRows, cacheKeys, flows, raced>>

(* accept_invitation and decline_invitation start from the token. *)
AcceptInvitation(c) ==
    \E i \in invites, u \in Users :
        Start(c, [Idle EXCEPT !.op = "accept", !.pc = "token", !.inv = i.id, !.user = u])

DeclineInvitation(c) ==
    \E i \in invites : Start(c, [Idle EXCEPT !.op = "decline", !.pc = "token", !.inv = i.id])

(* expires_at of a stored row: DynamoDB gives back the ISO string, which has  *)
(* no tzinfo, so _ensure_aware raises.                                         *)
Unreadable == backend = "dynamodb"

(* Whether expires_at has passed is settled when the row is read; an expired   *)
(* row is deleted and the request refused.                                      *)
ReadToken(c) ==
    LET found == {i \in invites : i.id = co[c].inv} IN
    /\ At(c, "token")
    /\ IF found = {} THEN Return(c, "missing")
       ELSE IF co[c].op = "accept" /\ Unreadable THEN Return(c, "error")
       ELSE \E i \in found, late \in BOOLEAN :
              LET joins == co[c].op = "accept" /\ ~late
              IN co' = [co EXCEPT ![c].pc = IF joins THEN "user" ELSE "consume",
                                  ![c].op = IF joins THEN @ ELSE "decline",
                                  ![c].org = i.org, ![c].text = i.email, ![c].role = i.role]
    /\ Overlap("token", co[c].inv, HeldBy(c, co[c].inv))
    /\ UNCHANGED <<backend, born, orgRows, memberRows, invitation, cacheKeys, flows>>

Invited(c) == Email[co[c].user] = co[c].text

CheckUser(c) ==
    /\ At(c, "user")
    /\ IF Invited(c) THEN Goto(c, "consume") ELSE Return(c, "missing")
    /\ UNCHANGED <<backend, born, orgRows, memberRows, invitation, cacheKeys, flows, raced>>

(* delete_invitation: accept ignores whether a row was there. *)
Consume(c) ==
    /\ At(c, "consume")
    /\ invites' = {i \in invites : i.id # co[c].inv}
    /\ IF co[c].op = "accept" THEN Goto(c, "org")
       ELSE Return(c, IF \E i \in invites : i.id = co[c].inv THEN "done" ELSE "missing")
    /\ UNCHANGED <<backend, born, orgRows, memberRows, cacheKeys, flows, raced>>

(* get_pending_invitations of the manager deletes what has expired. *)
ListInvitations(c) ==
    \E o \in Known :
        /\ At(c, "idle")
        /\ Start(c, [Idle EXCEPT !.op = "list", !.pc = "purge", !.org = o, !.list = {"all"}])

ReadPending(c) ==
    /\ At(c, "purge") /\ co[c].list = {"all"}
    /\ IF Unreadable /\ PendingOf(co[c].org) # {} THEN Return(c, "error")
       ELSE co' = [co EXCEPT ![c].list = {i.id : i \in PendingOf(co[c].org)}]
    /\ UNCHANGED <<backend, born, orgRows, memberRows, invitation, cacheKeys, flows, raced>>

PurgeNext(c) ==
    /\ At(c, "purge") /\ co[c].list # {"all"}
    /\ IF co[c].list = {} THEN Return(c, "done") /\ UNCHANGED invites
       ELSE \E i \in co[c].list, late \in BOOLEAN :
              /\ invites' = IF late THEN {x \in invites : x.id # i} ELSE invites
              /\ co' = [co EXCEPT ![c].list = @ \ {i}]
    /\ UNCHANGED <<backend, born, orgRows, memberRows, cacheKeys, flows, raced>>

------------------------------------------------------------------------------
(* delete_organization: the members, the invitations, then the row. *)

DeleteOrganization(c) ==
    \E o \in Known : Start(c, [Idle EXCEPT !.op = "delete", !.pc = "delmembers", !.org = o])

Writers(c) == Others(c, {"insert", "insertinv"})
Stamp(c) == Overlap("cascade", co[c].org, Writers(c))

MemoryDelete(c) ==
    LET o == co[c].org IN
    /\ backend = "memory" /\ At(c, "delmembers")
    /\ IF o \notin orgs THEN Return(c, "missing") /\ UNCHANGED <<orgs, members, invites>>
       ELSE /\ orgs' = orgs \ {o}
            /\ members' = [members EXCEPT ![o] = {}]
            /\ invites' = invites \ PendingOf(o)
            /\ Return(c, "done")
    /\ UNCHANGED <<backend, born, slug, role, admitted, owned, cacheKeys, flows, raced>>

(* One transaction: its statements see what was committed before them, and     *)
(* nothing changes for the others before the commit.                           *)
SqlDelete(c) ==
    LET o == co[c].org IN
    /\ backend = "sql"
    /\ \/ /\ At(c, "delmembers")
          /\ co' = [co EXCEPT ![c].pc = "commit", ![c].list = members[o]]
          /\ Stamp(c)
          /\ UNCHANGED <<orgs, members>>
       \/ /\ At(c, "commit")
          /\ members' = [members EXCEPT ![o] = @ \ co[c].list]
          /\ orgs' = orgs \ {o}
          /\ Return(c, IF o \in orgs THEN "done" ELSE "missing")
          /\ Stamp(c)
    /\ UNCHANGED <<backend, born, slug, role, admitted, owned, invitation, cacheKeys, flows>>

(* Three statements, each of its own. *)
MongoDelete(c) ==
    LET o == co[c].org IN
    /\ backend = "mongodb"
    /\ \/ At(c, "delmembers") /\ members' = [members EXCEPT ![o] = {}]
          /\ Goto(c, "delinvites") /\ UNCHANGED <<orgs, invites>>
       \/ At(c, "delinvites") /\ invites' = invites \ PendingOf(o)
          /\ Goto(c, "delorg") /\ UNCHANGED <<orgs, members>>
       \/ At(c, "delorg") /\ orgs' = orgs \ {o}
          /\ Return(c, IF o \in orgs THEN "done" ELSE "missing") /\ UNCHANGED <<members, invites>>
    /\ Stamp(c)
    /\ UNCHANGED <<backend, born, slug, role, admitted, owned, cacheKeys, flows>>

(* A query and a delete per item, a scan and a delete per item, the profile. *)
DynamoDelete(c) ==
    LET o    == co[c].org
        rest == co[c].list
        list(pc, rows) == co' = [co EXCEPT ![c].pc = pc, ![c].list = rows]
    IN
    /\ backend = "dynamodb"
    /\ \/ At(c, "delmembers") /\ list("dropmembers", members[o]) /\ UNCHANGED <<orgs, members, invites>>
       \/ /\ At(c, "dropmembers") /\ rest # {}
          /\ \E u \in rest : list("dropmembers", rest \ {u})
                             /\ members' = [members EXCEPT ![o] = @ \ {u}]
          /\ UNCHANGED <<orgs, invites>>
       \/ /\ At(c, "dropmembers") /\ rest = {}
          /\ list("dropinvites", {i.id : i \in PendingOf(o)})
          /\ UNCHANGED <<orgs, members, invites>>
       \/ /\ At(c, "dropinvites") /\ rest # {}
          /\ \E i \in rest : list("dropinvites", rest \ {i})
                             /\ invites' = {x \in invites : x.id # i}
          /\ UNCHANGED <<orgs, members>>
       \/ /\ At(c, "dropinvites") /\ rest = {}
          /\ orgs' = orgs \ {o}
          /\ Return(c, IF o \in orgs THEN "done" ELSE "missing")
          /\ UNCHANGED <<members, invites>>
    /\ Stamp(c)
    /\ UNCHANGED <<backend, born, slug, role, admitted, owned, cacheKeys, flows>>

------------------------------------------------------------------------------
(* A coroutine is cancelled, or its process dies, while it waits.  A flow over *)
(* the in-memory adapter can only be waiting for the cache.                     *)
Dies(c) ==
    /\ co[c].pc \in {"incr", "expire"} \/ (backend # "memory" /\ ~At(c, "idle"))
    /\ raced' = raced \cup CASE At(c, "expire")             -> {<<"counter", co[c].org>>}
                             [] co[c].op = "delete"         -> {<<"partial", co[c].org>>}
                             [] OTHER                       -> {}
    /\ Return(c, "died")
    /\ UNCHANGED <<backend, born, orgRows, memberRows, invitation, cacheKeys, flows>>

Init ==
    /\ backend \in Backends
    /\ orgs = {FirstOrg} /\ born = {FirstOrg}
    /\ slug = [o \in Orgs |-> IF o = FirstOrg THEN CHOOSE s \in Slugs : TRUE ELSE Nothing]
    /\ \E s \in Seeds : /\ members = [o \in Orgs |-> IF o = FirstOrg THEN DOMAIN s ELSE {}]
                        /\ role = [o \in Orgs |-> [u \in Users |->
                                     IF o = FirstOrg /\ u \in DOMAIN s THEN s[u] ELSE "member"]]
    /\ invites \in {{}} \cup
         IF backend = "sql" THEN {}
         ELSE {{[id |-> i, org |-> FirstOrg, email |-> e, role |-> "member"]} :
                    i \in {CHOOSE i \in Invs : TRUE}, e \in Emails}
    /\ count = [o \in Orgs |-> 0] /\ ttl = {}
    /\ co = [c \in Coros |-> Idle] /\ flows = 0
    /\ raced = {} /\ admitted = {} /\ owned = {FirstOrg}

Requests(c) ==
    \/ CreateOrganization(c)
    \/ /\ \/ UpdateOrganization(c) \/ AddMember(c) \/ RemoveMember(c) \/ UpdateMemberRole(c)
          \/ SendInvitation(c) \/ AcceptInvitation(c) \/ DeclineInvitation(c)
          \/ ListInvitations(c) \/ DeleteOrganization(c)

Step(c) ==
    \/ PickSlug(c) \/ MemoryName(c) \/ SqlName(c) \/ MongoName(c) \/ DynamoName(c) \/ DynamoPut(c)
    \/ ReadOrg(c) \/ CountMembers(c) \/ PutMember(c)
    \/ MemoryAddMember(c) \/ SqlAddMember(c) \/ MongoAddMember(c) \/ DynamoAddMember(c)
    \/ ReadMembers(c) \/ ApplyToMember(c)
    \/ CheckPending(c) \/ CountSend(c) \/ ExpireCounter(c) \/ PutInvitation(c)
    \/ MemoryInvite(c) \/ SqlInvite(c) \/ MongoInvite(c) \/ DynamoInvite(c)
    \/ ReadToken(c) \/ CheckUser(c) \/ Consume(c) \/ ReadPending(c) \/ PurgeNext(c)
    \/ MemoryDelete(c) \/ SqlDelete(c) \/ MongoDelete(c) \/ DynamoDelete(c)

Next ==
    \/ WindowEnds
    \/ \E c \in Coros : Turn(c) /\ (Requests(c) \/ Step(c))
    \/ \E c \in Coros : Dies(c)

Spec == Init /\ [][Next]_vars

------------------------------------------------------------------------------
(* Properties. *)

Frames == [op : {"none", "create", "rename", "add", "remove", "role", "invite", "accept",
                 "decline", "list", "delete"},
           pc : {"idle", "slug", "name", "put", "org", "count", "add", "insert", "members", "apply",
                 "pending", "incr", "expire", "create", "insertinv", "token", "user", "consume",
                 "purge", "delmembers", "dropmembers", "delinvites", "dropinvites", "delorg", "commit"},
           org : Orgs \cup {Nothing}, user : Users \cup {NoOne}, role : Roles,
           text : Slugs \cup Emails \cup {Suffix[o] : o \in Orgs} \cup {Nothing},
           inv : Invs \cup {Nothing}, list : SUBSET (Users \cup Invs \cup {"all"})]

TypeOK ==
    /\ backend \in Backends /\ orgs \subseteq born /\ born \subseteq Orgs
    /\ members \in [Orgs -> SUBSET Users] /\ role \in [Orgs -> [Users -> Roles]]
    /\ invites \subseteq [id : Invs, org : Orgs, email : Emails, role : Roles]
    /\ ttl \subseteq Orgs
    /\ \A o \in Orgs : count[o] \in Nat /\ (o \in ttl => count[o] > 0)
    /\ \A c \in Coros : co[c] \in Frames

Raced(kind, id) == <<kind, id>> \in raced
BeingDeleted(o) == \E c \in Coros : co[c].op = "delete" /\ co[c].org = o /\ ~At(c, "delmembers")

(* Two organizations never share a slug, except in DynamoDB when the second   *)
(* was being named between the query and the put of the first.                 *)
SlugsDiffer ==
    \A o, p \in orgs : slug[o] = slug[p] => o = p \/ (backend = "dynamodb" /\ Raced("slug", slug[o]))

(* An organization that has had an owner keeps one until it is deleted, unless *)
(* a removal or demotion was decided while another one was pending.            *)
OwnerKept ==
    \A o \in orgs \cap owned :
        Owners(o) # {} \/ Raced("owner", o) \/ Raced("partial", o) \/ BeingDeleted(o)

(* The member cap holds unless members were counted while another was being    *)
(* added; even then each overlapping coroutine adds at most one.               *)
CapRespected ==
    \A o \in Orgs :
        /\ Cardinality(members[o]) > MaxMembers => Raced("cap", o)
        /\ Cardinality(members[o]) < MaxMembers + Cardinality(Coros)

(* What is deleted leaves no member and no invitation behind, unless a row was *)
(* written during the deletion.                                                 *)
CascadeComplete ==
    \A o \in born \ orgs :
        Raced("cascade", o) \/ (members[o] = {} /\ PendingOf(o) = {})

(* Membership, names and deletion together: what remove_member, add_member,   *)
(* create_organization and delete_organization promise, with the overlaps that *)
(* break each promise named.  Over the in-memory adapter none of them occurs.  *)
MembershipSound ==
    /\ TypeOK /\ SlugsDiffer /\ OwnerKept /\ CapRespected /\ CascadeComplete
    /\ backend = "memory" => \A r \in raced : r[1] \in {"counter", "invite"}

(* Accepting, declining and sending invitations: one invitation admits one     *)
(* user unless two requests held its token at once; a row that has admitted    *)
(* somebody is gone; two pending rows for an address come only from overlapping *)
(* sends; a send counter without expiry belongs to a send still between its    *)
(* two cache calls, or to one that died there.                                  *)
InvitationsSound ==
    /\ \A i \in Invs : Cardinality({a \in admitted : a[1] = i}) > 1 => Raced("token", i)
    /\ \A i \in invites, a \in admitted : a[1] # i.id
    /\ \A i, j \in invites : i.org = j.org /\ i.email = j.email =>
           i = j \/ Raced("invite", i.org)
    /\ \A o \in Orgs : count[o] > 0 /\ o \notin ttl =>
           Raced("counter", o) \/ \E c \in Coros : At(c, "expire") /\ co[c].org = o
==============================================================================
