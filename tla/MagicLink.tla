------------------------------ MODULE MagicLink ------------------------------
(***************************************************************************)
(* passwordless/magic_link.py: send_magic_link with its send budget, and   *)
(* verify_magic_link with the creation of the account.  One action is one  *)
(* await; audit events are left out.                                       *)
(*                                                                         *)
(* A token is its number in the order they are drawn; a key with a TTL is  *)
(* its remaining ticks, and a link may expire at any time.                 *)
(***************************************************************************)
EXTENDS Naturals, FiniteSets

CONSTANTS
    Emails,         \* normalized e-mail addresses
    NoEmail,        \* not one of them
    AutoCreate,     \* config.auto_create_users
    Requests,       \* slots for calls in flight
    MaxSends,       \* DEFAULT_MAX_SENDS_PER_WINDOW
    Window,         \* DEFAULT_SEND_WINDOW_SECONDS, in ticks
    MaxToken,       \* bound: tokens ever drawn
    MaxAborted      \* bound: calls aborted by an exception, a cancel or a crash

ASSUME EmailsAssumption == NoEmail \notin Emails
ASSUME ConfigAssumption == AutoCreate \in BOOLEAN /\ {MaxSends, Window} \subseteq Nat \ {0}
ASSUME RequestsAssumption == {MaxToken, MaxAborted} \subseteq Nat /\ IsFiniteSet(Requests)

Tokens == 1..MaxToken
NoToken == 0

VARIABLES
    email,      \* token -> the address in its record, NoEmail before it is drawn
    live,       \* tessera:magiclink:{token}
    sends,      \* tessera:ratelimit:magiclink:{email}; 0 is no key
    ttl,        \* its remaining ticks; 0 is no key, or a key that never expires
    account,    \* addresses with an account
    sent,       \* tokens whose link was mailed
    mails,      \* history: links mailed to an address since its counter expired,
                \* counted until time passes while a send is in flight
    grants,     \* history: how often a token was exchanged for its user
    late,       \* history: whether time passed while a send was in flight
    aborted,    \* aborted calls so far
    request     \* the calls in flight

linkVars == <<email, live, sends, ttl, account, sent, mails, grants, late, aborted, request>>

Sending == {"get_sends", "get_ttl", "rearm", "put_link", "incr", "check_ttl", "expire", "mail"}
Verifying == {"get_link", "delete", "user", "create"}
RequestStates == [pc : {"idle"} \cup Sending \cup Verifying,
               e : Emails \cup {NoEmail}, k : Tokens \cup {NoToken}]
NoRequest == [pc |-> "idle", e |-> NoEmail, k |-> NoToken]

MoveTo(t, step, e, k) == request' = [request EXCEPT ![t] = [pc |-> step, e |-> e, k |-> k]]
Goto(t, step) == MoveTo(t, step, request[t].e, request[t].k)
EndRequest(t) == request' = [request EXCEPT ![t] = NoRequest]

FreshLink == {k \in Tokens : email[k] = NoEmail /\ \A j \in Tokens : email[j] = NoEmail => k <= j}

LinkInit ==
    /\ email = [k \in Tokens |-> NoEmail] /\ live = {}
    /\ sends = [e \in Emails |-> 0] /\ ttl = [e \in Emails |-> 0]
    /\ account = {}
    /\ sent = {} /\ mails = [e \in Emails |-> 0] /\ grants = [k \in Tokens |-> 0]
    /\ late = FALSE /\ aborted = 0
    /\ request = [t \in Requests |-> NoRequest]

-----------------------------------------------------------------------------
(* send_magic_link *)

Send(t, e) ==
    /\ request[t] = NoRequest
    /\ MoveTo(t, "get_sends", e, NoToken)
    /\ UNCHANGED <<email, live, sends, ttl, account, sent, mails, grants, late, aborted>>

(* Mutant: the budget is not looked at. *)
GetSendsAlways(t) ==
    /\ request[t].pc = "get_sends"
    /\ Goto(t, "put_link")
    /\ UNCHANGED <<email, live, sends, ttl, account, sent, mails, grants, late, aborted>>

GetSends(t) ==
    /\ request[t].pc = "get_sends"
    /\ Goto(t, IF sends[request[t].e] >= MaxSends THEN "get_ttl" ELSE "put_link")
    /\ UNCHANGED <<email, live, sends, ttl, account, sent, mails, grants, late, aborted>>

GetTtl(t) ==
    /\ request[t].pc = "get_ttl"
    /\ IF ttl[request[t].e] = 0 THEN Goto(t, "rearm") ELSE EndRequest(t)
    /\ UNCHANGED <<email, live, sends, ttl, account, sent, mails, grants, late, aborted>>

(* Mutant: a TTL is noted for a key that is not there. *)
RearmedBlindly(e) == Window

(* cache.expire: nothing happens to a key that is not there. *)
Rearmed(e) == IF sends[e] > 0 THEN Window ELSE 0

(* Mutant: a counter that never expires is left as it is. *)
RearmNot(t) ==
    /\ request[t].pc = "rearm"
    /\ EndRequest(t)
    /\ UNCHANGED <<email, live, sends, ttl, account, sent, mails, grants, late, aborted>>

Rearm(t) ==
    /\ request[t].pc = "rearm"
    /\ ttl' = [ttl EXCEPT ![request[t].e] = Rearmed(request[t].e)]
    /\ EndRequest(t)
    /\ UNCHANGED <<email, live, sends, account, sent, mails, grants, late, aborted>>

PutLink(t) ==
    /\ request[t].pc = "put_link"
    /\ \E k \in FreshLink :
          /\ email' = [email EXCEPT ![k] = request[t].e]
          /\ live' = live \cup {k}
          /\ MoveTo(t, "incr", request[t].e, k)
    /\ UNCHANGED <<sends, ttl, account, sent, mails, grants, late, aborted>>

Incr(t) ==
    /\ request[t].pc = "incr"
    /\ sends' = [sends EXCEPT ![request[t].e] = @ + 1]
    /\ Goto(t, IF sends[request[t].e] = 0 THEN "expire" ELSE "check_ttl")
    /\ UNCHANGED <<email, live, ttl, account, sent, mails, grants, late, aborted>>

CheckTtl(t) ==
    LET e == request[t].e IN
    /\ request[t].pc = "check_ttl"
    /\ Goto(t, IF sends[e] > 0 /\ ttl[e] = 0 THEN "expire" ELSE "mail")
    /\ UNCHANGED <<email, live, sends, ttl, account, sent, mails, grants, late, aborted>>

Expire(t) ==
    /\ request[t].pc = "expire"
    /\ ttl' = [ttl EXCEPT ![request[t].e] = Rearmed(request[t].e)]
    /\ Goto(t, "mail")
    /\ UNCHANGED <<email, live, sends, account, sent, mails, grants, late, aborted>>

(* The link goes out with the mail, and back to the caller of the API. *)
Mail(t) ==
    /\ request[t].pc = "mail"
    /\ sent' = sent \cup {request[t].k}
    /\ mails' = [mails EXCEPT ![request[t].e] = IF late THEN 0 ELSE @ + 1]
    /\ EndRequest(t)
    /\ UNCHANGED <<email, live, sends, ttl, account, grants, late, aborted>>

-----------------------------------------------------------------------------
(* verify_magic_link *)

Verify(t, k) ==
    /\ request[t] = NoRequest /\ k \in sent
    /\ MoveTo(t, "get_link", NoEmail, k)
    /\ UNCHANGED <<email, live, sends, ttl, account, sent, mails, grants, late, aborted>>

(* Mutant: a missing record is not rejected. *)
GetLinkUnchecked(t) ==
    /\ request[t].pc = "get_link"
    /\ MoveTo(t, "delete", email[request[t].k], request[t].k)
    /\ UNCHANGED <<email, live, sends, ttl, account, sent, mails, grants, late, aborted>>

GetLink(t) ==
    LET k == request[t].k IN
    /\ request[t].pc = "get_link"
    /\ IF k \in live THEN MoveTo(t, "delete", email[k], k) ELSE EndRequest(t)
    /\ UNCHANGED <<email, live, sends, ttl, account, sent, mails, grants, late, aborted>>

(* The result of the delete is not looked at. *)
Delete(t) ==
    /\ request[t].pc = "delete"
    /\ live' = live \ {request[t].k}
    /\ Goto(t, "user")
    /\ UNCHANGED <<email, sends, ttl, account, sent, mails, grants, late, aborted>>

Grant(t) == grants' = [grants EXCEPT ![request[t].k] = @ + 1] /\ EndRequest(t)

FindUser(t) ==
    /\ request[t].pc = "user"
    /\ IF request[t].e \in account
       THEN Grant(t)
       ELSE /\ IF AutoCreate THEN Goto(t, "create") ELSE EndRequest(t)
            /\ UNCHANGED grants
    /\ UNCHANGED <<email, live, sends, ttl, account, sent, mails, late, aborted>>

(* create_user raises IntegrityError on an address that has an account. *)
CreateUser(t) ==
    /\ request[t].pc = "create"
    /\ IF request[t].e \in account
       THEN EndRequest(t) /\ UNCHANGED <<account, grants>>
       ELSE account' = account \cup {request[t].e} /\ Grant(t)
    /\ UNCHANGED <<email, live, sends, ttl, sent, mails, late, aborted>>

-----------------------------------------------------------------------------
(* Environment *)

Less(n) == IF n = 0 THEN 0 ELSE n - 1

Tick ==
    /\ \E e \in Emails : ttl[e] > 0
    /\ late' = (late \/ \E t \in Requests : request[t].pc \in Sending)
    /\ ttl' = [e \in Emails |-> Less(ttl[e])]
    /\ sends' = [e \in Emails |-> IF ttl[e] = 1 THEN 0 ELSE sends[e]]
    /\ mails' = [e \in Emails |-> IF late' \/ ttl[e] = 1 THEN 0 ELSE mails[e]]
    /\ UNCHANGED <<email, live, account, sent, grants, aborted, request>>

LoseLink(k) ==
    /\ k \in live
    /\ live' = live \ {k}
    /\ UNCHANGED <<email, sends, ttl, account, sent, mails, grants, late, aborted, request>>

(* register_user, a social login or an administrator creates the account. *)
Register(e) ==
    /\ account' = account \cup {e}
    /\ UNCHANGED <<email, live, sends, ttl, sent, mails, grants, late, aborted, request>>

Abort(t) ==
    /\ aborted < MaxAborted /\ request[t] # NoRequest
    /\ EndRequest(t) /\ aborted' = aborted + 1
    /\ UNCHANGED <<email, live, sends, ttl, account, sent, mails, grants, late>>

LinkCall(t) == (\E e \in Emails : Send(t, e)) \/ (\E k \in Tokens : Verify(t, k))

RequestStep(t) ==
    \/ GetSends(t) \/ GetTtl(t) \/ Rearm(t) \/ PutLink(t)
    \/ Incr(t) \/ CheckTtl(t) \/ Expire(t) \/ Mail(t)
    \/ GetLink(t) \/ Delete(t) \/ FindUser(t) \/ CreateUser(t)

LinkEnvironment == \/ Tick
                   \/ \E k \in Tokens : LoseLink(k)
                   \/ \E e \in Emails : Register(e)
                   \/ \E t \in Requests : Abort(t)

LinkNext == (\E t \in Requests : LinkCall(t) \/ RequestStep(t)) \/ LinkEnvironment

LinkSpec == LinkInit /\ [][LinkNext]_linkVars

(* Calls in flight go on, time passes, and links go on being asked for: the  *)
(* server takes a request even while it is busy with others, so a request    *)
(* that finds a slot free again and again is taken (strong fairness).        *)
FairLinkSpec == /\ LinkSpec
                /\ \A t \in Requests : WF_linkVars(RequestStep(t))
                /\ WF_linkVars(Tick)
                /\ \A e \in Emails : SF_linkVars(\E t \in Requests : Send(t, e))

-----------------------------------------------------------------------------
(* Keys, accounts and locals are well typed; a counter that is not there has *)
(* no TTL, and what is live, mailed or granted was drawn.                    *)
LinkTypeOK ==
    /\ email \in [Tokens -> Emails \cup {NoEmail}]
    /\ sends \in [Emails -> Nat] /\ ttl \in [Emails -> 0..Window]
    /\ account \subseteq Emails /\ mails \in [Emails -> Nat]
    /\ grants \in [Tokens -> Nat] /\ late \in BOOLEAN /\ aborted \in Nat
    /\ request \in [Requests -> RequestStates]
    /\ \A e \in Emails : sends[e] = 0 => ttl[e] = 0
    /\ \A k \in live \cup sent : k \in Tokens /\ email[k] # NoEmail

(* send_magic_link, "RateLimitError: When the send budget for the window is  *)
(* spent": the check and the count are separate awaits, so sends that run at *)
(* once overshoot the budget, by at most the other calls in flight, as long  *)
(* as every send ends before the counter expires.                            *)
SendBudget == ~late => \A e \in Emails : mails[e] <= MaxSends - 1 + Cardinality(Requests)

(* Nothing is under way that read the record of k before it was deleted. *)
Holding(t, k) == request[t].k = k /\ request[t].pc \in {"delete", "user", "create"}
Spent(k) == email[k] # NoEmail /\ k \notin live /\ \A t \in Requests : ~Holding(t, k)

(* verify_magic_link, "missing record == consumed/expired": a link that was  *)
(* consumed or has expired, with no verification of it still under way,      *)
(* never logs anybody in again.                                              *)
SpentStaysSpent ==
    [][\A k \in Tokens : Spent(k) => Spent(k)' /\ grants'[k] = grants[k]]_linkVars

(* _check_send_rate_limit: an address whose budget is spent can be mailed    *)
(* again some time, also after a call was aborted before it set the TTL.     *)
BudgetReturns == \A e \in Emails : sends[e] >= MaxSends ~> sends[e] < MaxSends
=============================================================================
