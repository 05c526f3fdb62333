-------------------------------- MODULE Guards ---------------------------------
(* The guards of an application's routes: the rate limit, the bearer token, and   *)
(* the role or the membership, as the FastAPI, Flask and Django adapters check     *)
(* them one after the other, while the account they are about is changing.         *)
EXTENDS Coroutines

CONSTANT MaxRequests    \* requests of an address to a path in a window

VARIABLES
    threaded,     \* whether the adapter is Flask's or Django's, and not FastAPI's
    orgs,         \* whether an organizations manager is configured
    holder,       \* the row of the user the token names, or None
    membership,   \* his role in the organization of X-Organization-ID, or "none"
    hits,         \* tessera:ratelimit:http:{address}:{path}
    timed,        \* whether it has a time to live
    life,         \* history: the windows before this one
    passed,       \* history: the requests of each window that the limit let pass
    orphaned      \* history: a request that died after the last one counted left no end

account == <<holder, membership>>
limit == <<hits, timed>>
limitHistory == <<life, passed, orphaned>>
guardVars == <<threaded, orgs, account, limit, limitHistory>>

User(active, role) == [active |-> active, role |-> role]
Deciding == <<raced, threaded, orgs, account>>

------------------------------------------------------------------------------
(* A request: what it presents, and what its route asks for.  An unfit token is   *)
(* one that has expired, is a refresh token, or was not signed here.              *)

(* Mutant: whoever has a row may enter. *)
HasRow(user) == user # None
IsActive(user) == user # None /\ user.active

(* What a route grants, from the state it should be judged by. *)
Entitled(need, org, card) ==
    /\ card = "access" /\ holder # None /\ holder.active
    /\ need = "role" => IF org /\ orgs THEN membership = "admin" ELSE holder.role = "admin"
    /\ need = "member" => org /\ orgs /\ membership # "none"

HttpRequest(need, org, card) ==
    [op |-> "http", pc |-> "token", need |-> need, org |-> org, card |-> card,
     user |-> None, late |-> ~Entitled(need, org, card)]

Arrive(c) ==
    /\ flows < MaxFlows     \* the longer behaviours are those of the limit
    /\ \E need \in {"auth", "optional", "role", "member"}, org \in BOOLEAN,
          card \in {"none", "access", "unfit"} :
           /\ need = "member" => ~threaded    \* only FastAPI's adapter has it
           /\ org => need \in {"role", "member"}
           /\ Begin(c, HttpRequest(need, org, card))
    /\ UNCHANGED <<area, backend, raced, guardVars>>

(* A route that asks for no user, and is limited. *)
ArriveLimited(c) ==
    /\ Begin(c, [op |-> "http", pc |-> "incr", count |-> 0, life |-> 0, late |-> FALSE])
    /\ UNCHANGED <<area, backend, raced, guardVars>>

------------------------------------------------------------------------------
(* rate_limit *)

Incr(c) ==
    /\ At(c, "incr")
    /\ hits' = hits + 1
    /\ orphaned' = FALSE
    /\ co' = [co EXCEPT ![c].pc = IF hits = 0 THEN "expire" ELSE "ttl",
                        ![c].count = hits + 1, ![c].life = life]
    /\ Continue /\ UNCHANGED <<Deciding, timed, life, passed>>

(* Mutant: a counter without an end is left as it is. *)
NeverUntimed == FALSE
Untimed == hits > 0 /\ ~timed

Decide(c) ==
    LET f == co[c] IN
    IF f.count > MaxRequests THEN Return(c) /\ UNCHANGED passed
    ELSE /\ Goto(c, "view")
         /\ passed' = [passed EXCEPT ![f.life] = @ + 1]

ReadTtl(c) ==
    /\ At(c, "ttl")
    /\ IF Untimed THEN Goto(c, "expire") /\ UNCHANGED passed ELSE Decide(c)
    /\ Continue /\ UNCHANGED <<Deciding, limit, life, orphaned>>

Expire(c) ==
    /\ At(c, "expire")
    /\ timed' = (hits > 0)
    /\ Decide(c)
    /\ Continue /\ UNCHANGED <<Deciding, hits, life, orphaned>>

WindowCloses ==
    /\ timed
    /\ hits' = 0 /\ timed' = FALSE
    /\ life' = life + 1
    /\ UNCHANGED <<base, threaded, orgs, account, passed, orphaned>>

------------------------------------------------------------------------------
(* require_auth and optional_auth: the token is validated, and its user read.    *)

(* With optional_auth a request that is not let in goes on without a user. *)
Refuse401(c) == IF co[c].need = "optional" THEN Goto(c, "view") ELSE Return(c)

ValidateToken(c) ==
    /\ At(c, "token")
    /\ IF co[c].card = "access" THEN Goto(c, "user") ELSE Refuse401(c)
    /\ Continue /\ UNCHANGED <<raced, guardVars>>

AfterUser(f) ==
    CASE f.need = "role" /\ ~(f.org /\ orgs) -> IF holder.role = "admin" THEN "view" ELSE "idle"
      [] f.need = "role" /\ f.org /\ orgs    -> "membership"
      [] f.need = "member"                   -> IF f.org /\ orgs THEN "organization" ELSE "idle"
      [] OTHER                               -> "view"

LoadUser(c) ==
    /\ At(c, "user")
    /\ IF ~IsActive(holder) THEN Refuse401(c)
       ELSE IF AfterUser(co[c]) = "idle" THEN Return(c)
       ELSE co' = [co EXCEPT ![c].pc = AfterUser(co[c]), ![c].user = holder]
    /\ Continue /\ UNCHANGED <<raced, guardVars>>

(* require_org_membership reads the organization before the members. *)
GetOrganization(c) ==
    /\ At(c, "organization")
    /\ Goto(c, "membership")
    /\ Continue /\ UNCHANGED <<raced, guardVars>>

Belongs(need) == IF need = "role" THEN membership = "admin" ELSE membership # "none"

GetMemberRole(c) ==
    /\ At(c, "membership")
    /\ IF Belongs(co[c].need) THEN Goto(c, "view") ELSE Return(c)
    /\ Continue /\ UNCHANGED <<raced, guardVars>>

(* The view answers. *)
View(c) ==
    /\ At(c, "view")
    /\ Return(c)
    /\ Continue /\ UNCHANGED <<raced, guardVars>>

(* The client goes, the process ends, or a call to the cache or database fails. *)
HttpDies(c) ==
    /\ ~At(c, "idle")
    /\ orphaned' = (orphaned \/ (hits > 0 /\ ~timed /\ co[c].pc \in {"ttl", "expire"}))
    /\ Return(c)
    /\ Continue /\ UNCHANGED <<raced, threaded, orgs, account, limit, life, passed>>

------------------------------------------------------------------------------
(* The account is disabled, deleted or demoted, or leaves the organization, while *)
(* a request is being checked; what happened before is in the initial states.     *)

AccountChanges ==
    /\ \E c \in Coros : co[c].pc \in {"token", "user", "organization", "membership"}
    /\ \/ holder # None /\ holder' \in {None, User(FALSE, holder.role), User(holder.active, "user")}
          /\ holder' # holder /\ UNCHANGED membership
       \/ membership' \in {"member", "none"} /\ membership # "none" /\ membership' # membership
          /\ UNCHANGED holder
    /\ UNCHANGED <<base, threaded, orgs, limit, limitHistory>>

GuardsAtRest ==
    /\ backend \in {"memory", "sql"}     \* an adapter that suspends, or not
    /\ threaded \in BOOLEAN /\ orgs \in BOOLEAN
    /\ holder \in {None, User(FALSE, "admin"), User(TRUE, "user"), User(TRUE, "admin")}
    /\ membership \in {"none", "member", "admin"}
    /\ hits = 0 /\ timed = FALSE
    /\ life = 0 /\ passed = [n \in 0..(MaxFlows + 1) |-> 0] /\ orphaned = FALSE

(* Threads of a Flask or Django server alternate between two calls of an adapter *)
(* that never suspends; two tasks do not.                                          *)
GuardsNext ==
    \/ WindowCloses \/ AccountChanges
    \/ \E c \in Coros :
         /\ threaded \/ Alone(c)
         /\ \/ Arrive(c) \/ ArriveLimited(c) \/ Incr(c) \/ ReadTtl(c) \/ Expire(c)
            \/ ValidateToken(c) \/ LoadUser(c) \/ GetOrganization(c) \/ GetMemberRole(c)
            \/ View(c) \/ HttpDies(c)

------------------------------------------------------------------------------
(* Properties. *)

(* The view runs for nobody whose token was unfit, or whose account was *)
(* disabled, deleted, demoted or out of the organization when the request arrived. *)
LateStayOut ==
    \A c \in Coros : co[c].op = "http" /\ At(c, "view") /\ co[c].late => co[c].user = None

(* No more requests pass the limit than a window allows, and the counter of a     *)
(* window ends unless the last request it counted died before it saw to that.      *)
LimitEnds ==
    /\ \A n \in DOMAIN passed : passed[n] <= MaxRequests
    /\ hits > 0 /\ ~timed => orphaned \/ \E c \in Coros : co[c].pc \in {"ttl", "expire"}

GuardsSound == area = "guards" => LateStayOut /\ LimitEnds
==============================================================================
