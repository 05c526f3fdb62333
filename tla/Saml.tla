-------------------------------- MODULE Saml --------------------------------
(* SAML single sign-on: outstanding AuthnRequests, the ledger of the response  *)
(* and assertion ids that were used, and a login from the posted Response to    *)
(* the session.  XML and signatures are abstracted to what a signed assertion    *)
(* says; a ledger entry is kept for ever, or dated by a caller of               *)
(* save_saml_response_id.                                                       *)
EXTENDS Coroutines, Sequences

CONSTANTS
    Requests,    \* ids of AuthnRequests
    Ids,         \* ids of assertions and of Responses
    Subjects,    \* people the IdP names
    Nameless,    \* subjects whose assertions carry no e-mail attribute
    Posts        \* the Responses browsers post

ASSUME PostsAssumption ==
    /\ Nameless \subseteq Subjects
    /\ Posts \subseteq [response : Ids, assertion : Ids, request : Requests,
                        confirms : Requests \cup {None}, subject : Subjects, success : BOOLEAN]
    /\ \A p, q \in Posts : p.response # q.assertion     \* XML ids are unique

VARIABLES
    requests,   \* saml_requests: a row, found expired, or consumed
    ledger,     \* saml_response_ids
    accounts,   \* users rows of each subject
    jit,        \* config.allow_create
    logins,     \* history: the posts that ended in a session
    turned      \* history: subjects with an account whose login was refused

samlVars == <<requests, ledger, accounts, jit, logins, turned>>
tables == <<requests, ledger, accounts>>
history == <<logins, turned>>

------------------------------------------------------------------------------
(* create_auth_request and save_saml_request. *)
SendRequest(c) ==
    \E q \in Requests :
        /\ At(c, "idle") /\ flows < MaxFlows /\ requests[q] = "none"
        /\ requests' = [requests EXCEPT ![q] = "live"]
        /\ flows' = flows + 1
        /\ UNCHANGED <<area, backend, co, raced, ledger, accounts, jit, history>>

------------------------------------------------------------------------------
(* The ledger of used ids. *)

(* The embedding application records a Response it used itself. *)
SaveResponseId(c) ==
    \E p \in Posts :
        /\ At(c, "idle") /\ flows < MaxFlows /\ flows' = flows + 1
        /\ ledger' = [ledger EXCEPT ![p.response] = "dated"]
        /\ raced' = raced \cup {<<"dated", p.response>>}
        /\ UNCHANGED <<area, backend, co, requests, accounts, jit, history>>

PostResponse(c) ==
    \E p \in Posts, proc \in Reachable :
        /\ Begin(c, [op |-> "login", pc |-> "assertion", post |-> p, proc |-> proc, seen |-> "nothing"])
        /\ UNCHANGED <<area, backend, raced, samlVars>>

Checking(c) == At(c, "assertion") \/ At(c, "response")
IdOf(f) == IF f.pc = "assertion" THEN f.post.assertion ELSE f.post.response

(* The answers a look at an id may give: a dated entry may have expired. *)
Found(i) == CASE ledger[i] = "none"  -> {"absent"}
              [] ledger[i] = "dated" -> {"used", "old"}
              [] ledger[i] = "kept"  -> {"used"}

(* The id is new: the assertion's comes first, then the Response's, and only   *)
(* then its status and destination.                                             *)
Record(c) ==
    /\ ledger' = [ledger EXCEPT ![IdOf(co[c])] = "kept"]
    /\ Become(c,
           IF co[c].pc = "assertion" THEN [co[c] EXCEPT !.pc = "response", !.seen = "nothing"]
           ELSE IF co[c].post.success THEN [co[c] EXCEPT !.pc = "consume", !.seen = "nothing"]
           ELSE Idle)

RecordOr(c, used) == IF used THEN Return(c) /\ UNCHANGED ledger ELSE Record(c)

CheckId(c) ==
    /\ Checking(c)
    /\ \E answer \in Found(IdOf(co[c])) : RecordOr(c, answer = "used")
    /\ Continue /\ UNCHANGED <<raced, requests, accounts, jit, history>>

MemoryCheckId(c) == backend = "memory" /\ CheckId(c)

(* A put on the condition that there is no entry, or that it has expired. *)
DynamoCheckId(c) == backend = "dynamodb" /\ CheckId(c)

(* A select and an insert under the process's lock. *)
Locked(c) == \E d \in Busy(c) : co[d].proc = co[c].proc /\ co[d].seen # "nothing"

SqlSelectId(c) ==
    /\ backend = "sql" /\ Checking(c) /\ co[c].seen = "nothing" /\ ~Locked(c)
    /\ \E answer \in Found(IdOf(co[c])) :
           IF answer = "used" THEN Return(c) ELSE Become(c, [co[c] EXCEPT !.seen = answer])
    /\ Continue /\ UNCHANGED <<raced, samlVars>>

(* Mutant: an entry that is there by now is overwritten. *)
Upsert(c) ==
    /\ Checking(c) /\ co[c].seen # "nothing"
    /\ Record(c)
    /\ Continue /\ UNCHANGED <<raced, requests, accounts, jit, history>>

(* The key refuses an entry that was added in between. *)
InsertId(c) ==
    /\ Checking(c) /\ co[c].seen # "nothing"
    /\ RecordOr(c, co[c].seen = "absent" /\ ledger[IdOf(co[c])] # "none")
    /\ Continue /\ UNCHANGED <<raced, requests, accounts, jit, history>>

(* An expired row is deleted first, with whatever has replaced it by then. *)
SqlInsertId(c) == backend = "sql" /\ InsertId(c)

MongoDropExpired(c) ==
    /\ backend = "mongodb" /\ Checking(c) /\ co[c].seen = "nothing"
    /\ \E answer \in Found(IdOf(co[c])) :
           ledger' = IF answer = "old" THEN [ledger EXCEPT ![IdOf(co[c])] = "none"] ELSE ledger
    /\ Become(c, [co[c] EXCEPT !.seen = "absent"])
    /\ Continue /\ UNCHANGED <<raced, requests, accounts, jit, history>>

MongoInsertId(c) == backend = "mongodb" /\ InsertId(c)

------------------------------------------------------------------------------
(* consume_saml_request, and what is left to check of the assertion. *)

(* _validate_subject, after the audience. *)
Confirms(p) == p.confirms \in {None, p.request}

(* The request may have expired, and so may the assertion (_validate_conditions). *)
ConsumeRequest(c) ==
    LET p == co[c].post IN
    /\ At(c, "consume")
    /\ \E request \in IF requests[p.request] = "live" THEN {"used", "past"} ELSE {requests[p.request]},
          timely \in BOOLEAN :
           /\ requests' = [requests EXCEPT ![p.request] = request]
           /\ IF requests[p.request] = "live" /\ request = "used" /\ timely /\ Confirms(p)
              THEN Goto(c, IF p.subject \in Nameless THEN "create" ELSE "lookup")
              ELSE Return(c)
    /\ Continue /\ UNCHANGED <<raced, ledger, accounts, jit, history>>

(* pop under the lock; DELETE ... RETURNING; find_one_and_delete; a delete on  *)
(* condition: one statement each.                                               *)
MemoryConsume(c) == backend = "memory" /\ ConsumeRequest(c)
SqlConsume(c) == backend = "sql" /\ At(c, "consume") /\ ~Locked(c) /\ ConsumeRequest(c)
MongoConsume(c) == backend = "mongodb" /\ ConsumeRequest(c)
DynamoConsume(c) == backend = "dynamodb" /\ ConsumeRequest(c)

------------------------------------------------------------------------------
(* _provision_user and _create_saml_session. *)

(* A subject without an e-mail address is not looked up: it is created. *)
FindUser(c) ==
    /\ At(c, "lookup")
    /\ IF accounts[co[c].post.subject] > 0 THEN Goto(c, "session")
       ELSE IF jit THEN Goto(c, "create")
       ELSE Return(c)
    /\ Overlap("first", co[c].post.subject,
               {d \in Busy(c) : /\ co[d].pc \in {"create", "put"}
                                /\ co[d].post.subject = co[c].post.subject})
    /\ Continue /\ UNCHANGED samlVars

Refuse(c) ==
    /\ turned' = IF accounts[co[c].post.subject] > 0
                 THEN turned \cup {co[c].post.subject} ELSE turned
    /\ Return(c)

AddUser(c) == accounts' = [accounts EXCEPT ![co[c].post.subject] = @ + 1]

Creatable(c) == jit /\ accounts[co[c].post.subject] = 0

(* create_user: DynamoDB looks for the identifiers before it puts the item. *)
CreateUser(c) ==
    /\ backend # "dynamodb" /\ At(c, "create")
    /\ IF Creatable(c) THEN AddUser(c) /\ Goto(c, "session") /\ UNCHANGED turned
       ELSE Refuse(c) /\ UNCHANGED accounts
    /\ Continue /\ UNCHANGED <<raced, requests, ledger, jit, logins>>

DynamoFindUser(c) ==
    /\ backend = "dynamodb" /\ At(c, "create")
    /\ IF Creatable(c) THEN Goto(c, "put") /\ UNCHANGED turned ELSE Refuse(c)
    /\ Overlap("first", co[c].post.subject,
               {d \in Busy(c) : At(d, "put") /\ co[d].post.subject = co[c].post.subject})
    /\ Continue /\ UNCHANGED <<tables, jit, logins>>

DynamoPutUser(c) ==
    /\ At(c, "put")
    /\ AddUser(c) /\ Goto(c, "session")
    /\ Continue /\ UNCHANGED <<raced, requests, ledger, jit, history>>

CreateSession(c) ==
    /\ At(c, "session")
    /\ logins' = Append(logins, co[c].post)
    /\ Return(c)
    /\ Continue /\ UNCHANGED <<raced, tables, jit, turned>>

(* A request is cancelled, or its process ends, while it waits. *)
LoginDies(c) ==
    /\ backend # "memory" /\ ~At(c, "idle")
    /\ Return(c)
    /\ Continue /\ UNCHANGED <<raced, samlVars>>

SamlAtRest ==
    /\ \E q \in Requests : requests = [r \in Requests |-> IF r = q THEN "none" ELSE "live"]
    /\ ledger = [i \in Ids |-> "none"]
    /\ \E n \in {0, 1} : accounts = [s \in Subjects |-> n] /\ jit \in {TRUE, n = 1}
    /\ logins = <<>> /\ turned = {}

SamlNext ==
    \/ \E c \in Coros :
         /\ Alone(c)
         /\ \/ SendRequest(c) \/ SaveResponseId(c) \/ PostResponse(c)
            \/ MemoryCheckId(c) \/ DynamoCheckId(c) \/ SqlSelectId(c) \/ SqlInsertId(c)
            \/ MongoDropExpired(c) \/ MongoInsertId(c)
            \/ MemoryConsume(c) \/ SqlConsume(c) \/ MongoConsume(c) \/ DynamoConsume(c)
            \/ FindUser(c) \/ CreateUser(c) \/ DynamoFindUser(c) \/ DynamoPutUser(c)
            \/ CreateSession(c)
    \/ \E c \in Coros : LoginDies(c)

------------------------------------------------------------------------------
(* Properties. *)

SamlTypes ==
    /\ requests \in [Requests -> {"none", "live", "past", "used"}]
    /\ ledger \in [Ids -> {"none", "dated", "kept"}]
    /\ accounts \in [Subjects -> Nat]

(* An assertion, a Response and an AuthnRequest each open one session, however  *)
(* the posts overlap and whatever a process that died had recorded; only a      *)
(* Response that the application records anew, with an expiry, loses its guard. *)
OneSessionEach ==
    \A i, j \in DOMAIN logins : i < j =>
        LET p == logins[i]
            q == logins[j]
        IN /\ p.assertion # q.assertion /\ p.request # q.request
           /\ p.response # q.response \/ Raced("dated", p.response)

(* A session was opened for a request that was sent and had not been answered,  *)
(* and its ids stay in the ledger.                                              *)
LoginsRecorded ==
    \A i \in DOMAIN logins :
        /\ requests[logins[i].request] = "used" /\ ledger[logins[i].assertion] = "kept"
        /\ ledger[logins[i].response] = "kept" \/ Raced("dated", logins[i].response)
        /\ logins[i].confirms \in {None, logins[i].request} /\ logins[i].success

(* A subject has one account, except where two first logins crossed in          *)
(* DynamoDB; somebody who has an account is refused only if two first logins    *)
(* crossed, or if the assertion names no e-mail address.                        *)
OneAccountEach ==
    /\ \A s \in Subjects : accounts[s] > 1 => backend = "dynamodb" /\ Raced("first", s)
    /\ \A s \in turned : Raced("first", s) \/ s \in Nameless

SamlSound == area = "saml" =>
    /\ SamlTypes /\ OneSessionEach /\ LoginsRecorded /\ OneAccountEach
    /\ backend = "memory" => \A r \in raced : r[1] = "dated"
==============================================================================
