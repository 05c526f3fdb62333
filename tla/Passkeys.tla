------------------------------ MODULE Passkeys ------------------------------
(* PasskeyManager for one user: challenges in a cache server, one settings row   *)
(* per credential and one with the list of the user's credentials.  What         *)
(* WebAuthn verifies is kept to the challenge, the credential's key and the      *)
(* signature counter.                                                            *)
EXTENDS Coroutines, Sequences

CONSTANT Authenticators       \* the user's authenticators: a credential each

VARIABLES
    regChallenge,   \* the registration challenge; a later one replaces it
    challenges,     \* authentication challenges that are live
    handedOut,      \* challenges handed out so far
    rows,           \* each credential's row: its stored counter, or NoRow
    listed,         \* the list of the user's credentials
    counter,        \* each authenticator's signature counter (external)
    registered,     \* history: credentials whose registration was answered
    deleted,        \* history: credentials whose deletion was answered
    accepted        \* history: <<challenge, key, counter>> of the assertions accepted

challengeVars == <<regChallenge, challenges, handedOut>>
store == <<rows, listed>>
keyHistory == <<registered, deleted, accepted>>
passkeyVars == <<challengeVars, store, counter, keyHistory>>

NoRow == 0          \* no row, and no challenge; counters start at 1
Used(k) == rows[k] # NoRow \/ k \in registered \cup deleted

PasskeyFrame(kind, step, n, k, count) ==
    [op |-> kind, pc |-> step, challenge |-> n, key |-> k, count |-> count,
     copy |-> NoRow, list |-> {}]

PasskeyCall(c, frame) == Begin(c, frame) /\ UNCHANGED <<area, backend, raced>>

(* Requests, other than c's, on the key that are at one of the steps. *)
With(c, k, steps) == {d \in Busy(c) : co[d].key = k /\ co[d].pc \in steps}
Relisting(c) == {d \in Busy(c) : At(d, "relist")}

------------------------------------------------------------------------------
(* Challenges.  They last 300 s, and go when they are presented. *)

(* register_start *)
RegisterStart(c) ==
    /\ At(c, "idle") /\ flows < FlowBound
    /\ handedOut' = handedOut + 1 /\ regChallenge' = handedOut'
    /\ flows' = flows + 1
    /\ UNCHANGED <<area, backend, co, raced, challenges, store, counter, keyHistory>>

(* authenticate_start *)
AuthenticateStart(c) ==
    /\ At(c, "idle") /\ flows < FlowBound
    /\ handedOut' = handedOut + 1 /\ challenges' = challenges \cup {handedOut'}
    /\ flows' = flows + 1
    /\ UNCHANGED <<area, backend, co, raced, regChallenge, store, counter, keyHistory>>

(* A new credential answers a challenge. *)
RegisterComplete(c) ==
    \E k \in {x \in Authenticators : ~Used(x)}, n \in 1..handedOut :
        /\ PasskeyCall(c, PasskeyFrame("register", "challenge", n, k, counter[k]))
        /\ UNCHANGED passkeyVars

(* An authenticator signs a challenge, or a signed answer is sent again. *)
AuthenticateComplete(c) ==
    \E k \in registered, n \in 1..handedOut :
        /\ \/ counter' = [counter EXCEPT ![k] = @ + 1]
           \/ UNCHANGED counter
        /\ PasskeyCall(c, PasskeyFrame("assert", "challenge", n, k, counter'[k]))
        /\ UNCHANGED <<challengeVars, store, keyHistory>>

Live(f) ==
    IF f.op = "register" THEN regChallenge # NoRow ELSE f.challenge \in challenges

(* Two answers to one challenge that are between its read and its deletion. *)
Consuming(c) ==
    {d \in Busy(c) : At(d, "consume") /\ co[d].op = co[c].op
                     /\ (co[c].op = "assert" => co[d].challenge = co[c].challenge)}

(* The challenge is read and then deleted; a registration takes the one that is *)
(* there, which its answer must be for.                                         *)
ReadChallenge(c) ==
    /\ At(c, "challenge")
    /\ \/ /\ Live(co[c])
          /\ Become(c, [co[c] EXCEPT !.pc = "consume",
                                     !.copy = IF co[c].op = "register" THEN regChallenge ELSE NoRow])
       \/ Return(c)                             \* none, or it has expired
    /\ Overlap("challenge", co[c].challenge, Consuming(c))
    /\ Continue /\ UNCHANGED passkeyVars

(* Mutant: the challenge of an assertion is kept. *)
KeepChallenge(n) == challenges
WithoutChallenge(n) == challenges \ {n}

ConsumeChallenge(c) ==
    LET f == co[c] IN
    /\ At(c, "consume")
    /\ IF f.op = "register"
       THEN /\ regChallenge' = NoRow /\ UNCHANGED challenges
            /\ IF f.copy = f.challenge THEN Goto(c, "save") ELSE Return(c)
       ELSE /\ challenges' = WithoutChallenge(f.challenge) /\ UNCHANGED regChallenge
            /\ Goto(c, "fetch")
    /\ Continue /\ UNCHANGED <<raced, handedOut, store, counter, keyHistory>>

------------------------------------------------------------------------------
(* The credential. *)

(* authenticate_complete: the stored copy verifies the answer. *)
FetchCredential(c) ==
    LET f == co[c] IN
    /\ At(c, "fetch")
    /\ IF rows[f.key] # NoRow /\ f.count > rows[f.key] THEN Goto(c, "save") ELSE Return(c)
    /\ Continue /\ UNCHANGED <<raced, passkeyVars>>

(* Another request verified against the row that is replaced, or it is that of  *)
(* the same registration sent twice.                                            *)
Stale(c, k) ==
    \/ \E d \in With(c, k, {"save"}) : co[d].op = "assert"
    \/ co[c].op = "register" /\ rows[k] # NoRow

(* _save_credential: the row is written whole, with the answer's counter. *)
SaveCredential(c) ==
    LET k == co[c].key IN
    /\ At(c, "save")
    /\ rows' = [rows EXCEPT ![k] = co[c].count]
    /\ raced' = raced
           \cup (IF Stale(c, k) THEN {<<"counter", k>>} ELSE {})
           \cup (IF rows[k] = NoRow /\ k \in registered THEN {<<"revived", k>>} ELSE {})
    /\ IF co[c].op = "register" THEN Goto(c, "list") /\ UNCHANGED accepted
       ELSE /\ accepted' = Append(accepted, <<co[c].challenge, k, co[c].count>>)
            /\ Return(c)
    /\ Continue /\ UNCHANGED <<challengeVars, listed, counter, registered, deleted>>

(* delete_passkey: the row must be there, and becomes null. *)
DeletePasskey(c) ==
    \E k \in registered :
        /\ PasskeyCall(c, PasskeyFrame("delete", IF rows[k] = NoRow THEN "gone" ELSE "remove",
                                       NoRow, k, NoRow))
        /\ UNCHANGED passkeyVars

NotThere(c) == At(c, "gone") /\ Return(c) /\ Continue /\ UNCHANGED <<raced, passkeyVars>>

RemoveCredential(c) ==
    LET k == co[c].key IN
    /\ At(c, "remove")
    /\ rows' = [rows EXCEPT ![k] = NoRow]
    /\ Overlap("revived", k, With(c, k, {"save"}))
    /\ Goto(c, "list")
    /\ Continue /\ UNCHANGED <<challengeVars, listed, counter, keyHistory>>

(* The list is read, and written back with the credential or without it. *)
ReadList(c) ==
    /\ At(c, "list")
    /\ Become(c, [co[c] EXCEPT !.pc = "relist", !.list = listed])
    /\ Overlap("list", "user", Relisting(c))
    /\ Continue /\ UNCHANGED passkeyVars

WriteList(c) ==
    LET k == co[c].key IN
    /\ At(c, "relist")
    /\ IF co[c].op = "register"
       THEN listed' = co[c].list \cup {k} /\ registered' = registered \cup {k} /\ UNCHANGED deleted
       ELSE listed' = co[c].list \ {k} /\ deleted' = deleted \cup {k} /\ UNCHANGED registered
    /\ Return(c)
    /\ Continue /\ UNCHANGED <<raced, challengeVars, rows, counter, accepted>>

(* A request is cancelled, or its process ends. *)
Unlisted == {"list", "relist"}

PasskeyDies(c) ==
    /\ ~At(c, "idle")
    /\ backend = "memory" => co[c].pc \notin Unlisted
    /\ raced' = IF co[c].pc \in Unlisted THEN raced \cup {<<"died", co[c].key>>} ELSE raced
    /\ Return(c)
    /\ Continue /\ UNCHANGED passkeyVars

(* One credential is registered, and the challenges of both kinds are out. *)
PasskeysAtRest ==
    /\ backend \in {"memory", "sql"}     \* the settings calls of the others are alike
    /\ handedOut = 2 /\ regChallenge = 1 /\ challenges = {2}
    /\ \E k \in Authenticators :
           /\ registered = {k} /\ listed = {k}
           /\ rows = [x \in Authenticators |-> IF x = k THEN 1 ELSE NoRow]
    /\ counter = [x \in Authenticators |-> 1]
    /\ deleted = {} /\ accepted = <<>>

(* The in-memory adapter hands the loop to nobody between two of its calls. *)
MayStep(c) == backend = "memory" =>
    \A d \in Busy(c) :
        /\ co[d].pc \notin Unlisted \cup {"remove"}
        /\ ~(At(d, "save") /\ co[d].op = "assert")

PasskeysNext ==
    \E c \in Coros :
        /\ MayStep(c)
        /\ \/ RegisterStart(c) \/ AuthenticateStart(c) \/ RegisterComplete(c)
           \/ AuthenticateComplete(c) \/ ReadChallenge(c) \/ ConsumeChallenge(c)
           \/ FetchCredential(c) \/ SaveCredential(c) \/ DeletePasskey(c) \/ NotThere(c)
           \/ RemoveCredential(c) \/ ReadList(c) \/ WriteList(c) \/ PasskeyDies(c)

------------------------------------------------------------------------------
(* Properties. *)

(* A challenge is answered once and the counter of a credential grows with      *)
(* every assertion accepted, unless two requests read the challenge before      *)
(* either deleted it, verified against the same copy of the row, or brought     *)
(* back a row that another one had deleted.                                     *)
AssertionsFresh ==
    \A i, j \in DOMAIN accepted :
        LET p == accepted[i]
            q == accepted[j]
        IN i < j =>
           /\ p[1] = q[1] => Raced("challenge", p[1])
           /\ p[2] = q[2] /\ p[3] >= q[3] => Raced("counter", p[2]) \/ Raced("revived", p[2])

(* A credential whose deletion was answered stays deleted, unless an assertion  *)
(* that had read the row writes its copy back.                                  *)
DeletedStaysDeleted ==
    \A k \in deleted : rows[k] # NoRow => Raced("revived", k)

(* Unless two requests rewrote it from the same copy, the list has every         *)
(* credential that was registered and not deleted, and every one that is stored  *)
(* and that no request is about to list or has left unlisted by dying, or back   *)
(* after its deletion.                                                           *)
Listing(k) == \E c \in Coros : co[c].pc \in Unlisted /\ co[c].key = k

ListComplete == Raced("list", "user") \/
    /\ registered \ deleted \subseteq listed
    /\ \A k \in Authenticators : rows[k] # NoRow =>
           k \in listed \/ Listing(k) \/ Raced("died", k) \/ Raced("revived", k)

PasskeysSound == area = "passkeys" =>
    /\ rows \in [Authenticators -> Nat] /\ listed \subseteq Authenticators
    /\ challenges \subseteq 1..handedOut
    /\ AssertionsFresh /\ DeletedStaysDeleted /\ ListComplete
    /\ backend = "memory" => \A x \in raced : x[1] \notin {"list", "died"}
==============================================================================
