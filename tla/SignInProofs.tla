----------------------------- MODULE SignInProofs -----------------------------
(* What a user signs in with: a federated login, an authenticator app, a         *)
(* passkey.  Of each part, for every number of people, requests, providers,      *)
(* keys and coroutines: an inductive invariant, that it holds at the start, that *)
(* a step of the part keeps it, that a step of another part does, and that it    *)
(* implies what the part promises.                                                *)
EXTENDS SigningKeys, OidcLogin, SocialLogin, Saml, Providers, Mfa, Passkeys, TLAPS

------------------------------------------------------------------------------
(* The signing keys of a provider.                                            *)

(* A search in flight: the key is known, and what was fetched is not older. *)
KeyCalls == [op : {"token"}, pc : {"look", "fetch", "store", "search"},
             kid : Nat, doc : {None} \cup Nat, again : BOOLEAN]
KeyFrames == {Idle} \cup KeyCalls

Fetched(q) ==
    /\ q.kid \in 1..published
    /\ q.pc = "look" => ~q.again
    /\ q.pc \in {"store", "search"} => q.doc \in q.kid..published
    /\ q.pc = "search" => document = q.doc \/ Raced("fetch", client)

KeysInv ==
    /\ client \in {"oidc", "apple"} /\ published \in 1..MaxKey
    /\ document \in {None} \cup 1..published /\ recent \in BOOLEAN
    /\ co \in [Coros -> KeyFrames]
    /\ \A c \in Coros : co[c] # Idle => Fetched(co[c])
    /\ \A e \in denied : e[1] \in Nat
    /\ PublishedKeysFound

LEMMA KeyFrameFacts ==
    ASSUME NEW q \in KeyFrames
    PROVE  /\ q # Idle <=> q.pc # "idle"
           /\ q # Idle => /\ q \in KeyCalls
                          /\ q.pc \in {"look", "fetch", "store", "search"} /\ q.op = "token"
                          /\ q.kid \in Nat /\ q.doc \in {None} \cup Nat /\ q.again \in BOOLEAN
                          /\ [q EXCEPT !.pc = "fetch"] \in KeyFrames
                          /\ [q EXCEPT !.pc = "search"] \in KeyFrames
                          /\ [q EXCEPT !.pc = "fetch", !.again = TRUE] \in KeyFrames
                          /\ \A n \in Nat : [q EXCEPT !.pc = "store", !.doc = n] \in KeyFrames
<1>1. CASE q = Idle
    BY <1>1 DEF Idle
<1>2. CASE q # Idle
    <2>1. q \in KeyCalls
        BY <1>2 DEF KeyFrames
    <2> QED BY <1>2, <2>1 DEF KeyFrames, KeyCalls
<1> QED BY <1>1, <1>2

(* A coroutine moves on, and what the cache and the provider know of keys only grows. *)
LEMMA KeyMove ==
    ASSUME KeysInv, NEW c \in Coros, NEW q \in KeyFrames, Become(c, q), q # Idle => Fetched(q)',
           client' = client, published' = published, document' = document, recent' = recent,
           raced \subseteq raced',
           denied' = denied
    PROVE  KeysInv'
<1>1. co' \in [Coros -> KeyFrames] /\ \A d \in Coros : co'[d] = IF d = c THEN q ELSE co[d]
    BY DEF KeysInv, Become
<1>2. ASSUME NEW d \in Coros, co'[d] # Idle PROVE Fetched(co[d])'
    <2>1. CASE d = c
        BY <1>1, <1>2, <2>1
    <2>2. CASE d # c
        BY <1>1, <1>2, <2>2 DEF KeysInv, Fetched, Raced
    <2> QED BY <2>1, <2>2
<1>3. PublishedKeysFound'
    BY DEF KeysInv, PublishedKeysFound, Raced
<1> QED BY <1>1, <1>2, <1>3 DEF KeysInv

(* A refusal is justified: a published key is in every document that is not older. *)
LEMMA SearchKeeps ==
    ASSUME KeysInv, NEW c \in Coros, co[c] # Idle, co[c].pc \in {"look", "search"},
           co[c].pc = "look" => document # None,
           Search(c), UNCHANGED <<client, published, document, recent, raced>>
    PROVE  KeysInv'
<1> SUFFICES ASSUME NEW q, q = co[c] PROVE KeysInv'
    OBVIOUS
<1>1. q \in KeyFrames /\ q # Idle /\ Fetched(q) /\ q.kid \in Nat /\ q.pc \in {"look", "search"}
    BY KeyFrameFacts DEF KeysInv
<1>2. CASE Lists(document, q.kid)
    BY <1>2, KeyMove DEF Search, Return, KeyFrames
<1>3. CASE ~Lists(document, q.kid) /\ MayAskAgain(c)
    <2>1. Fetched([q EXCEPT !.pc = "fetch", !.again = TRUE])'
        BY <1>1 DEF Fetched, KeyCalls, Idle
    <2> QED BY <1>1, <1>3, <2>1, KeyMove, KeyFrameFacts DEF Search
<1>4. CASE ~Lists(document, q.kid) /\ ~MayAskAgain(c)
    <2>1. Deny(c)
        BY <1>4 DEF Search
    <2>2. co' \in [Coros -> KeyFrames] /\ \A d \in Coros : co'[d] = IF d = c THEN Idle ELSE co[d]
        BY <2>1 DEF Deny, Return, Become, KeysInv, KeyFrames
    <2>3. \A d \in Coros : co'[d] # Idle => Fetched(co[d])'
        BY <2>2 DEF KeysInv, Fetched, Raced
    <2>4. CASE Lists(published, q.kid)
        <3>1. denied' = denied \cup {<<q.kid, document>>}
            BY <2>1, <2>4 DEF Deny
        <3>2. Raced("fetch", client) \/ (client = "apple" /\ document < q.kid)
            BY <1>1, <1>4, <2>4, NoneAssumption, MaxKeyAssumption DEF Lists, MayAskAgain, Fetched, KeysInv
        <3>3. PublishedKeysFound'
            BY <3>1, <3>2 DEF PublishedKeysFound, Raced, KeysInv
        <3> QED BY <1>1, <2>2, <2>3, <3>1, <3>3 DEF KeysInv
    <2>5. CASE ~Lists(published, q.kid)
        BY <2>1, <2>2, <2>3, <2>5 DEF Deny, KeysInv, PublishedKeysFound, Raced
    <2> QED BY <2>4, <2>5
<1> QED BY <1>2, <1>3, <1>4

LEMMA KeysStart ==
    ASSUME KeysAtRest, co = [c \in Coros |-> Idle]
    PROVE  KeysInv
BY MaxKeyAssumption, NoneAssumption DEF KeysAtRest, KeysInv, KeyFrames, PublishedKeysFound

LEMMA KeysStep ==
    ASSUME KeysInv, KeysNext
    PROVE  KeysInv' /\ area' = area
<1>1. CASE Rotate
    BY <1>1, MaxKeyAssumption DEF Rotate, base, KeysInv, Fetched, PublishedKeysFound, Raced
<1>2. CASE HourPasses
    BY <1>2 DEF HourPasses, base, KeysInv, Fetched, PublishedKeysFound, Raced
<1>3. ASSUME NEW c \in Coros, TokenArrives(c) PROVE KeysInv' /\ area' = area
    <2>1. PICK kid \in 1..published :
              /\ Begin(c, [op |-> "token", pc |-> "look", kid |-> kid, doc |-> None, again |-> FALSE])
              /\ UNCHANGED <<area, backend, raced, keyRingVars>>
        BY <1>3 DEF TokenArrives
    <2> SUFFICES ASSUME NEW q, q = [op |-> "token", pc |-> "look", kid |-> kid, doc |-> None, again |-> FALSE]
                 PROVE  KeysInv' /\ area' = area
        OBVIOUS
    <2>2. q \in KeyFrames /\ Fetched(q)'
        BY <2>1, MaxKeyAssumption DEF KeyFrames, KeyCalls, Fetched, KeysInv, keyRingVars
    <2> QED BY <2>1, <2>2, KeyMove DEF Begin, keyRingVars
<1>4. ASSUME NEW c \in Coros, LookInCache(c) PROVE KeysInv' /\ area' = area
    <2>0. co[c] \in KeyFrames /\ co[c] # Idle /\ Fetched(co[c]) /\ co[c].pc = "look"
        BY <1>4, KeyFrameFacts DEF LookInCache, At, KeysInv, Idle
    <2>1. CASE recent /\ document # None
        BY <1>4, <2>0, <2>1, SearchKeeps DEF LookInCache, Continue
    <2>2. CASE ~(recent /\ document # None)
        <3> SUFFICES ASSUME NEW q, q = [co[c] EXCEPT !.pc = "fetch"] PROVE KeysInv' /\ area' = area
            OBVIOUS
        <3>1. q \in KeyFrames /\ Fetched(q)'
            BY <1>4, <2>0, KeyFrameFacts DEF LookInCache, Fetched, KeyCalls, Idle
        <3> QED BY <1>4, <2>0, <2>2, <3>1, KeyMove DEF LookInCache, Goto, Continue
    <2> QED BY <2>1, <2>2
<1>5. ASSUME NEW c \in Coros, Fetch(c) PROVE KeysInv' /\ area' = area
    <2>0. co[c] \in KeyFrames /\ co[c] # Idle /\ Fetched(co[c]) /\ co[c].pc = "fetch"
        BY <1>5, KeyFrameFacts DEF Fetch, At, KeysInv, Idle
    <2>1. CASE Become(c, [co[c] EXCEPT !.pc = "store", !.doc = published])
        <3> SUFFICES ASSUME NEW q, q = [co[c] EXCEPT !.pc = "store", !.doc = published] PROVE KeysInv' /\ area' = area
            OBVIOUS
        <3>1. published \in Nat /\ published' = published
            BY <1>5, MaxKeyAssumption DEF Fetch, keyRingVars, KeysInv
        <3>2. q \in KeyFrames /\ q.kid = co[c].kid /\ q.pc = "store" /\ q.doc = published
            BY <2>0, <3>1, KeyFrameFacts DEF KeyCalls
        <3>3. co[c].kid \in 1..published
            BY <2>0 DEF Fetched
        <3>4. q.kid \in 1..published' /\ q.doc \in q.kid..published'
            BY <3>1, <3>2, <3>3
        <3>5. Fetched(q)'
            BY <3>2, <3>4 DEF Fetched
        <3> QED BY <1>5, <2>0, <2>1, <3>2, <3>5, KeyMove DEF Fetch, Continue, keyRingVars
    <2>2. CASE Return(c)
        BY <1>5, <2>2, KeyMove DEF Fetch, Return, KeyFrames, Continue, keyRingVars
    <2> QED BY <1>5, <2>1, <2>2 DEF Fetch
<1>6. ASSUME NEW c \in Coros, Store(c) PROVE KeysInv' /\ area' = area
    <2>0. co[c] \in KeyFrames /\ co[c] # Idle /\ Fetched(co[c]) /\ co[c].pc = "store"
        BY <1>6, KeyFrameFacts DEF Store, At, KeysInv, Idle
    <2> SUFFICES ASSUME NEW q, q = [co[c] EXCEPT !.pc = "search"] PROVE KeysInv' /\ area' = area
        OBVIOUS
    <2>1. q \in KeyFrames /\ q.doc = co[c].doc /\ q.pc = "search" /\ q.kid = co[c].kid
        BY <2>0, KeyFrameFacts DEF KeyCalls
    <2>2. /\ document' = q.doc /\ recent' = TRUE
          /\ UNCHANGED <<area, client, published, denied>>
          /\ co' = [co EXCEPT ![c] = q]
        BY <1>6, <2>1 DEF Store, Goto, Become, Continue
    <2>3. co' \in [Coros -> KeyFrames] /\ \A d \in Coros : co'[d] = IF d = c THEN q ELSE co[d]
        BY <2>1, <2>2 DEF KeysInv
    <2>4. raced \subseteq raced'
        BY <1>6 DEF Store, Overlap
    <2>5. ASSUME NEW d \in Coros, d # c, co[d].pc = "search" PROVE Raced("fetch", client)'
        <3>1. d \in Busy(c)
            BY <2>5 DEF Busy, At
        <3> QED BY <1>6, <2>5, <3>1 DEF Store, Overlap, Raced
    <2>6. Fetched(q)'
        BY <2>0, <2>1, <2>2, MaxKeyAssumption DEF Fetched, KeysInv
    <2>7. \A d \in Coros : co'[d] # Idle => Fetched(co[d])'
        BY <2>2, <2>3, <2>4, <2>5, <2>6 DEF Fetched, KeysInv, Raced
    <2>8. PublishedKeysFound'
        BY <2>2, <2>4 DEF PublishedKeysFound, KeysInv, Raced
    <2>9. document' \in {None} \cup 1..published
        BY <2>0, <2>1, <2>2, MaxKeyAssumption DEF Fetched, KeysInv
    <2> QED BY <2>2, <2>3, <2>7, <2>8, <2>9 DEF KeysInv
<1>7. ASSUME NEW c \in Coros, SearchStored(c) PROVE KeysInv' /\ area' = area
    <2>0. co[c] \in KeyFrames /\ co[c] # Idle /\ co[c].pc = "search"
        BY <1>7, KeyFrameFacts DEF SearchStored, At, KeysInv, Idle
    <2> QED BY <1>7, <2>0, SearchKeeps DEF SearchStored, Continue
<1> QED BY <1>1, <1>2, <1>3, <1>4, <1>5, <1>6, <1>7 DEF KeysNext

LEMMA KeysSafe == KeysInv => KeysSound
BY DEF KeysInv, KeysSound

LEMMA KeysStill ==
    ASSUME KeysInv, UNCHANGED <<base, keyRingVars>>
    PROVE  KeysInv'
BY DEF base, keyRingVars, KeysInv, Fetched, PublishedKeysFound, Raced

------------------------------------------------------------------------------
(* A login through an OIDC provider.                                          *)

OidcCalls == [op : {"callback"}, pc : {"read", "delete", "redeem", "verify", "userinfo"},
              state : Attempts, code : Attempts, token : BOOLEAN]
OidcFrames == {Idle} \cup OidcCalls

(* A callback that has read its state, and one whose code is exchanged. *)
Holds(q) == q.pc \in {"delete", "redeem", "verify", "userinfo"}
Exchanged(q) == q.pc \in {"verify", "userinfo"}

OidcTyped ==
    /\ viaCache \in BOOLEAN /\ pkce \in BOOLEAN
    /\ pending \in [Attempts -> {"none", "live", "gone"}] /\ redeemed \subseteq Attempts
    /\ signedIn \in Seq(Attempts \X Attempts \X BOOLEAN)
    /\ co \in [Coros -> OidcFrames]

(* What a callback in flight may rely on: its state is gone once it is past the  *)
(* delete, its code is its own, and neither has signed in before.                 *)
HoldsRight(q) ==
    /\ Holds(q) /\ q.pc # "delete" => pending[q.state] = "gone"
    /\ Holds(q) => \A i \in DOMAIN signedIn : signedIn[i][1] = q.state => Raced("state", q.state)
    /\ Exchanged(q) => /\ q.code \in redeemed
                       /\ pkce => q.state = q.code
                       /\ \A i \in DOMAIN signedIn : signedIn[i][2] # q.code
    /\ q.pc = "verify" => q.token
    /\ q.pc = "userinfo" /\ q.token => q.state = q.code

(* Two callbacks share neither a state nor a code. *)
Disjoint(q, r) ==
    /\ Holds(q) /\ Holds(r) /\ q.state = r.state => Raced("state", q.state)
    /\ Exchanged(q) /\ Exchanged(r) => q.code # r.code

OidcInv ==
    /\ OidcTyped
    /\ \A c \in Coros : HoldsRight(co[c])
    /\ \A c, d \in Coros : c # d => Disjoint(co[c], co[d])
    /\ \A i \in DOMAIN signedIn : pending[signedIn[i][1]] = "gone" /\ signedIn[i][2] \in redeemed
    /\ AttemptsBound
    /\ InMemory => raced = {}

LEMMA OidcFrameFacts ==
    ASSUME NEW q \in OidcFrames
    PROVE  /\ q.pc # "idle" => q \in OidcCalls
           /\ q \in OidcCalls => q.pc \in {"read", "delete", "redeem", "verify", "userinfo"}
           /\ q = Idle => q.pc = "idle"
BY DEF OidcFrames, OidcCalls, Idle

(* A callback moves on, or fails; states and codes are only used up. *)
LEMMA OidcMove ==
    ASSUME OidcInv, NEW c \in Coros, NEW q \in OidcFrames, Become(c, q),
           UNCHANGED <<backend, oidcConfig, signedIn>>,
           pending' \in [Attempts -> {"none", "live", "gone"}],
           \A a \in Attempts : pending[a] = "gone" => pending'[a] = "gone",
           redeemed \subseteq redeemed', redeemed' \subseteq Attempts,
           raced \subseteq raced', InMemory => raced' = raced,
           HoldsRight(q)',
           \A d \in Coros : \A r : d # c /\ r = co[d] => Disjoint(q, r)'
    PROVE  OidcInv'
<1>1. co' \in [Coros -> OidcFrames] /\ \A d \in Coros : co'[d] = IF d = c THEN q ELSE co[d]
    BY DEF OidcInv, OidcTyped, Become
<1>2. OidcTyped'
    BY <1>1 DEF OidcInv, OidcTyped, oidcConfig
<1>3. ASSUME NEW d \in Coros PROVE HoldsRight(co[d])'
    <2>1. CASE d = c
        BY <1>1, <2>1 DEF HoldsRight, Holds, Exchanged
    <2>2. CASE d # c
        <3> SUFFICES ASSUME NEW r, r = co[d] PROVE HoldsRight(r)'
            BY <1>1, <2>2 DEF HoldsRight, Holds, Exchanged
        <3>1. HoldsRight(r) /\ r \in OidcFrames
            BY DEF OidcInv, OidcTyped
        <3>2. Holds(r) => r.state \in Attempts
            BY <3>1, OidcFrameFacts DEF OidcCalls, Holds
        <3> QED BY <3>1, <3>2 DEF HoldsRight, Raced, oidcConfig
    <2> QED BY <2>1, <2>2
<1>4. ASSUME NEW d \in Coros, NEW e \in Coros, d # e PROVE Disjoint(co[d], co[e])'
    <2>1. CASE d # c /\ e # c
        BY <1>1, <1>4, <2>1 DEF OidcInv, Disjoint, Holds, Exchanged, Raced
    <2>2. CASE d = c
        BY <1>1, <1>4, <2>2 DEF OidcInv, Disjoint, Holds, Exchanged, Raced
    <2>3. CASE e = c
        BY <1>1, <1>4, <2>3 DEF OidcInv, Disjoint, Holds, Exchanged, Raced
    <2> QED BY <2>1, <2>2, <2>3
<1>5. \A i \in DOMAIN signedIn' : pending'[signedIn'[i][1]] = "gone" /\ signedIn'[i][2] \in redeemed'
    BY DEF OidcInv, OidcTyped
<1>6. AttemptsBound'
    BY DEF OidcInv, AttemptsBound, Raced, oidcConfig
<1>7. (InMemory => raced = {})'
    BY DEF OidcInv, InMemory, oidcConfig
<1> QED BY <1>2, <1>3, <1>4, <1>5, <1>6, <1>7 DEF OidcInv

LEMMA OidcStart ==
    ASSUME OidcAtRest, co = [c \in Coros |-> Idle], raced = {}
    PROVE  OidcInv
<1>1. \A c \in Coros : co[c] = Idle /\ co[c].pc = "idle"
    BY DEF Idle
<1>2. OidcTyped
    BY DEF OidcAtRest, OidcTyped, OidcFrames
<1>3. DOMAIN signedIn = {}
    BY DEF OidcAtRest
<1> QED BY <1>1, <1>2, <1>3 DEF OidcAtRest, OidcInv, HoldsRight, Disjoint, Holds, Exchanged, AttemptsBound

(* What the callback of an action is. *)
LEMMA OidcCall ==
    ASSUME OidcInv, NEW c \in Coros, co[c].pc # "idle"
    PROVE  co[c] \in OidcCalls /\ HoldsRight(co[c])
BY OidcFrameFacts DEF OidcInv, OidcTyped

LEMMA FailKeeps ==
    ASSUME OidcInv, NEW c \in Coros, Return(c), UNCHANGED <<backend, oidcConfig, signedIn, redeemed>>,
           pending' \in [Attempts -> {"none", "live", "gone"}],
           \A a \in Attempts : pending[a] = "gone" => pending'[a] = "gone",
           raced \subseteq raced', InMemory => raced' = raced
    PROVE  OidcInv'
<1>1. Become(c, Idle) /\ Idle \in OidcFrames /\ Idle.pc = "idle"
    BY DEF Return, OidcFrames, Idle
<1>2. redeemed' \subseteq Attempts
    BY DEF OidcInv, OidcTyped
<1> SUFFICES ASSUME NEW q, q = Idle PROVE OidcInv'
    OBVIOUS
<1>3. HoldsRight(q)' /\ \A d \in Coros : \A r : d # c /\ r = co[d] => Disjoint(q, r)'
    BY <1>1 DEF HoldsRight, Disjoint, Holds, Exchanged
<1> QED BY <1>1, <1>2, <1>3, OidcMove

LEMMA AuthorizeKeeps == ASSUME OidcInv, NEW c \in Coros, Authorize(c) PROVE OidcInv' /\ area' = area
<1>1. PICK a \in Attempts : /\ pending[a] = "none" /\ pending' = [pending EXCEPT ![a] = "live"]
                            /\ UNCHANGED <<area, backend, co, raced, oidcConfig, redeemed, signedIn>>
    BY DEF Authorize
<1>2. pending' \in [Attempts -> {"none", "live", "gone"}] /\ \A b \in Attempts : pending[b] = "gone" => pending'[b] = "gone"
    BY <1>1 DEF OidcInv, OidcTyped
<1>3. OidcTyped'
    BY <1>1, <1>2 DEF OidcInv, OidcTyped, oidcConfig
<1>4. ASSUME NEW d \in Coros PROVE HoldsRight(co[d])'
    <2>1. Holds(co[d]) => co[d].state \in Attempts
        BY OidcFrameFacts DEF OidcInv, OidcTyped, OidcCalls, Holds
    <2> QED BY <1>1, <1>2, <2>1 DEF OidcInv, HoldsRight, Raced, oidcConfig, Holds, Exchanged
<1>5. \A d, e \in Coros : d # e => Disjoint(co[d], co[e])'
    BY <1>1 DEF OidcInv, Disjoint, Raced, Holds, Exchanged
<1>6. \A i \in DOMAIN signedIn' : pending'[signedIn'[i][1]] = "gone" /\ signedIn'[i][2] \in redeemed'
    BY <1>1, <1>2 DEF OidcInv, OidcTyped
<1>7. AttemptsBound' /\ (InMemory => raced = {})'
    BY <1>1 DEF OidcInv, AttemptsBound, Raced, oidcConfig, InMemory
<1> QED BY <1>1, <1>3, <1>4, <1>5, <1>6, <1>7 DEF OidcInv

LEMMA CallbackKeeps == ASSUME OidcInv, NEW c \in Coros, Callback(c) PROVE OidcInv' /\ area' = area
<1>1. PICK s, k \in Attempts :
          /\ Begin(c, [op |-> "callback", pc |-> "read", state |-> s, code |-> k, token |-> FALSE])
          /\ UNCHANGED <<area, backend, raced, oidcVars>>
    BY DEF Callback
<1> SUFFICES ASSUME NEW q, q = [op |-> "callback", pc |-> "read", state |-> s, code |-> k, token |-> FALSE]
             PROVE  OidcInv' /\ area' = area
    OBVIOUS
<1>2. q \in OidcFrames /\ q.pc = "read" /\ Become(c, q)
    BY <1>1 DEF OidcFrames, OidcCalls, Begin
<1>3. HoldsRight(q)' /\ \A d \in Coros : \A r : d # c /\ r = co[d] => Disjoint(q, r)'
    BY <1>2 DEF HoldsRight, Disjoint, Holds, Exchanged
<1>4. /\ UNCHANGED <<area, backend, oidcConfig, signedIn, raced>>
      /\ pending' = pending /\ redeemed' = redeemed
      /\ pending' \in [Attempts -> {"none", "live", "gone"}] /\ redeemed' \subseteq Attempts
    BY <1>1 DEF oidcVars, oidcConfig, OidcInv, OidcTyped
<1> QED BY <1>2, <1>3, <1>4, OidcMove

LEMMA FindStateKeeps ==
    ASSUME OidcInv, NEW c \in Coros, MayRun(c), FindState(c) PROVE OidcInv' /\ area' = area
<1>1. co[c] \in OidcCalls /\ co[c].pc = "read"
    BY OidcCall DEF FindState, At
<1> SUFFICES ASSUME NEW f, f = co[c] PROVE OidcInv' /\ area' = area
    OBVIOUS
<1>2. /\ UNCHANGED <<area, backend, oidcConfig, redeemed, signedIn>>
      /\ raced \subseteq raced'
      /\ Deleting(c, f.state) # {} => Raced("state", f.state)'
      /\ InMemory => raced' = raced
    BY DEF FindState, Continue, Overlap, Raced, MayRun, Deleting
<1>3. f.state \in Attempts
    BY <1>1 DEF OidcCalls
<1>4. CASE pending[f.state] = "live" /\ Goto(c, "delete") /\ pending' = pending
    <2> SUFFICES ASSUME NEW q, q = [f EXCEPT !.pc = "delete"] PROVE OidcInv' /\ area' = area
        OBVIOUS
    <2>1. q \in OidcFrames /\ q.pc = "delete" /\ q.state = f.state /\ Become(c, q)
        BY <1>1, <1>4 DEF OidcFrames, OidcCalls, Goto
    <2>2. \A i \in DOMAIN signedIn : signedIn[i][1] # q.state
        BY <1>4, <2>1 DEF OidcInv
    <2>3. HoldsRight(q)'
        BY <1>2, <2>1, <2>2 DEF HoldsRight, Holds, Exchanged
    <2>4. ASSUME NEW d \in Coros, d # c, NEW r, r = co[d] PROVE Disjoint(q, r)'
        <3>1. HoldsRight(r)
            BY <2>4 DEF OidcInv
        <3>2. CASE r.pc = "delete" /\ r.state = f.state
            <4>1. d \in Deleting(c, f.state)
                BY <2>4, <3>2 DEF Deleting, Busy, At
            <4> QED BY <1>2, <2>1, <4>1 DEF Disjoint, Exchanged
        <3>3. CASE ~(r.pc = "delete" /\ r.state = f.state)
            BY <1>4, <2>1, <3>1, <3>3 DEF HoldsRight, Disjoint, Holds, Exchanged
        <3> QED BY <3>2, <3>3
    <2>5. pending' \in [Attempts -> {"none", "live", "gone"}] /\ redeemed' \subseteq Attempts
        BY <1>2, <1>4 DEF OidcInv, OidcTyped
    <2> QED BY <1>2, <1>4, <2>1, <2>3, <2>4, <2>5, OidcMove
<1>5. CASE pending' = [pending EXCEPT ![f.state] = "gone"] /\ Return(c)
    <2>1. /\ pending' \in [Attempts -> {"none", "live", "gone"}]
          /\ \A a \in Attempts : pending[a] = "gone" => pending'[a] = "gone"
        BY <1>3, <1>5 DEF OidcInv, OidcTyped
    <2> QED BY <1>2, <1>5, <2>1, FailKeeps
<1>6. CASE Return(c) /\ pending' = pending
    BY <1>2, <1>6, FailKeeps DEF OidcInv, OidcTyped
<1> QED BY <1>4, <1>5, <1>6 DEF FindState

LEMMA DeleteStateKeeps ==
    ASSUME OidcInv, NEW c \in Coros, DeleteState(c) PROVE OidcInv' /\ area' = area
<1>1. co[c] \in OidcCalls /\ co[c].pc = "delete" /\ HoldsRight(co[c])
    BY OidcCall DEF DeleteState, At
<1> SUFFICES ASSUME NEW f, f = co[c], NEW q, q = [f EXCEPT !.pc = "redeem"] PROVE OidcInv' /\ area' = area
    OBVIOUS
<1>2. q \in OidcFrames /\ q.pc = "redeem" /\ q.state = f.state /\ f.state \in Attempts
    BY <1>1 DEF OidcFrames, OidcCalls
<1>3. /\ UNCHANGED <<area, backend, oidcConfig, redeemed, signedIn, raced>> /\ Become(c, q)
      /\ pending' = [pending EXCEPT ![f.state] = "gone"]
    BY DEF DeleteState, Continue, Goto
<1>4. /\ pending' \in [Attempts -> {"none", "live", "gone"}] /\ pending'[f.state] = "gone"
      /\ \A a \in Attempts : pending[a] = "gone" => pending'[a] = "gone"
    BY <1>2, <1>3 DEF OidcInv, OidcTyped
<1>5. HoldsRight(q)'
    BY <1>1, <1>2, <1>3, <1>4 DEF HoldsRight, Holds, Exchanged, Raced
<1>6. \A d \in Coros : \A r : d # c /\ r = co[d] => Disjoint(q, r)'
    BY <1>1, <1>2, <1>3 DEF OidcInv, Disjoint, Holds, Exchanged, Raced
<1>7. redeemed' \subseteq Attempts
    BY <1>3 DEF OidcInv, OidcTyped
<1> QED BY <1>2, <1>3, <1>4, <1>5, <1>6, <1>7, OidcMove

LEMMA RedeemKeeps ==
    ASSUME OidcInv, NEW c \in Coros, Redeem(c) PROVE OidcInv' /\ area' = area
<1>1. co[c] \in OidcCalls /\ co[c].pc = "redeem" /\ HoldsRight(co[c])
    BY OidcCall DEF Redeem, At
<1>2. UNCHANGED <<area, backend, oidcConfig, pending, signedIn, raced>>
    BY DEF Redeem, Continue
<1>3. CASE Return(c) /\ UNCHANGED redeemed
    BY <1>2, <1>3, FailKeeps DEF OidcInv, OidcTyped
<1>4. CASE ~(Return(c) /\ UNCHANGED redeemed)
    <2> SUFFICES ASSUME NEW f, f = co[c] PROVE OidcInv'
        BY <1>2
    <2>1. f.code \notin redeemed /\ (pkce => f.state = f.code) /\ redeemed' = redeemed \cup {f.code}
        BY <1>4 DEF Redeem
    <2>2. PICK token \in BOOLEAN :
              Become(c, [f EXCEPT !.pc = IF token THEN "verify" ELSE "userinfo", !.token = token])
        BY <1>4 DEF Redeem
    <2> SUFFICES ASSUME NEW q, q = [f EXCEPT !.pc = IF token THEN "verify" ELSE "userinfo", !.token = token]
                 PROVE  OidcInv'
        OBVIOUS
    <2>3. /\ q \in OidcFrames /\ q.pc = (IF token THEN "verify" ELSE "userinfo") /\ q.token = token
          /\ q.state = f.state /\ q.code = f.code /\ f.code \in Attempts
        BY <1>1 DEF OidcFrames, OidcCalls
    <2>4. HoldsRight(q)'
        BY <1>1, <1>2, <2>1, <2>3 DEF HoldsRight, Holds, Exchanged, Raced, OidcInv, oidcConfig
    <2>5. ASSUME NEW d \in Coros, d # c, NEW r, r = co[d] PROVE Disjoint(q, r)'
        <3>1. HoldsRight(r) /\ Disjoint(f, r)
            BY <2>5 DEF OidcInv
        <3> QED BY <1>1, <1>2, <2>1, <2>3, <3>1 DEF Disjoint, Holds, Exchanged, Raced, HoldsRight
    <2>6. redeemed' \subseteq Attempts /\ pending' \in [Attempts -> {"none", "live", "gone"}]
        BY <1>2, <2>1, <2>3 DEF OidcInv, OidcTyped
    <2> QED BY <1>2, <2>1, <2>2, <2>3, <2>4, <2>5, <2>6, OidcMove
<1> QED BY <1>2, <1>3, <1>4

LEMMA ValidateIdTokenKeeps ==
    ASSUME OidcInv, NEW c \in Coros, ValidateIdToken(c) PROVE OidcInv' /\ area' = area
<1>1. co[c] \in OidcCalls /\ co[c].pc = "verify" /\ HoldsRight(co[c])
    BY OidcCall DEF ValidateIdToken, At
<1>2. /\ UNCHANGED <<area, backend, oidcConfig, pending, signedIn, redeemed, raced>>
      /\ redeemed' \subseteq Attempts /\ pending' \in [Attempts -> {"none", "live", "gone"}]
    BY DEF ValidateIdToken, Continue, oidcVars, oidcConfig, OidcInv, OidcTyped
<1>3. CASE Return(c)
    BY <1>2, <1>3, FailKeeps
<1>4. CASE SameNonce(co[c]) /\ Goto(c, "userinfo")
    <2> SUFFICES ASSUME NEW f, f = co[c], NEW q, q = [f EXCEPT !.pc = "userinfo"] PROVE OidcInv'
        BY <1>2
    <2>1. /\ q \in OidcFrames /\ q.pc = "userinfo" /\ q.token = f.token
          /\ q.state = f.state /\ q.code = f.code /\ f.code = f.state /\ Become(c, q)
        BY <1>1, <1>4 DEF OidcFrames, OidcCalls, SameNonce, Goto
    <2>2. HoldsRight(q)'
        BY <1>1, <1>2, <2>1 DEF HoldsRight, Holds, Exchanged, Raced, oidcConfig
    <2>3. \A d \in Coros : \A r : d # c /\ r = co[d] => Disjoint(q, r)'
        BY <1>1, <1>2, <2>1 DEF OidcInv, Disjoint, Holds, Exchanged, Raced
    <2> QED BY <1>2, <2>1, <2>2, <2>3, OidcMove
<1> QED BY <1>2, <1>3, <1>4 DEF ValidateIdToken

LEMMA FetchUserInfoKeeps ==
    ASSUME OidcInv, NEW c \in Coros, FetchUserInfo(c) PROVE OidcInv' /\ area' = area
<1>1. co[c] \in OidcCalls /\ co[c].pc = "userinfo" /\ HoldsRight(co[c])
    BY OidcCall DEF FetchUserInfo, At
<1>2. UNCHANGED <<area, backend, oidcConfig, pending, redeemed, raced>> /\ Return(c)
    BY DEF FetchUserInfo, Continue
<1>3. CASE UNCHANGED signedIn
    BY <1>2, <1>3, FailKeeps DEF OidcInv, OidcTyped
<1>4. CASE signedIn' = Append(signedIn, <<co[c].state, co[c].code, co[c].token>>)
    <2> SUFFICES ASSUME NEW f, f = co[c] PROVE OidcInv'
        BY <1>2
    <2>0. f.state \in Attempts /\ f.code \in Attempts /\ f.token \in BOOLEAN
        BY <1>1 DEF OidcCalls
    <2>1. co' \in [Coros -> OidcFrames] /\ \A d \in Coros : co'[d] = IF d = c THEN Idle ELSE co[d]
        BY <1>2 DEF OidcInv, OidcTyped, Return, Become, OidcFrames
    <2>2. signedIn' \in Seq(Attempts \X Attempts \X BOOLEAN)
        BY <1>4, <2>0 DEF OidcInv, OidcTyped
    <2>3. PICK n \in Nat : /\ n \notin DOMAIN signedIn /\ DOMAIN signedIn' = DOMAIN signedIn \cup {n}
                           /\ signedIn'[n] = <<f.state, f.code, f.token>>
                           /\ \A i \in DOMAIN signedIn : signedIn'[i] = signedIn[i]
        <3>1. Len(signedIn) \in Nat /\ DOMAIN signedIn = 1..Len(signedIn)
            BY DEF OidcInv, OidcTyped
        <3>2. /\ DOMAIN signedIn' = 1..(Len(signedIn) + 1)
              /\ \A i \in 1..Len(signedIn) : signedIn'[i] = signedIn[i]
              /\ signedIn'[Len(signedIn) + 1] = <<f.state, f.code, f.token>>
            BY <1>4, <2>0 DEF OidcInv, OidcTyped
        <3> QED BY <3>1, <3>2
    <2>4. signedIn'[n][1] = f.state /\ signedIn'[n][2] = f.code /\ signedIn'[n][3] = f.token
        BY <2>3
    <2>5. OidcTyped'
        BY <1>2, <2>1, <2>2 DEF OidcInv, OidcTyped, oidcConfig
    <2>6. ASSUME NEW d \in Coros PROVE HoldsRight(co[d])'
        <3>1. CASE d = c
            BY <2>1, <3>1 DEF HoldsRight, Holds, Exchanged, Idle
        <3>2. CASE d # c
            <4> SUFFICES ASSUME NEW r, r = co[d] PROVE HoldsRight(r)'
                BY <2>1, <3>2 DEF HoldsRight, Holds, Exchanged
            <4>1. HoldsRight(r) /\ Disjoint(f, r)
                BY <3>2 DEF OidcInv
            <4> QED BY <1>1, <1>2, <2>3, <2>4, <4>1 DEF HoldsRight, Disjoint, Holds, Exchanged, Raced, oidcConfig
        <3> QED BY <3>1, <3>2
    <2>7. \A d, e \in Coros : d # e => Disjoint(co[d], co[e])'
        BY <1>2, <2>1 DEF OidcInv, Disjoint, Holds, Exchanged, Raced, Idle
    <2>8. \A i \in DOMAIN signedIn' : pending'[signedIn'[i][1]] = "gone" /\ signedIn'[i][2] \in redeemed'
        BY <1>1, <1>2, <2>3, <2>4 DEF OidcInv, HoldsRight, Holds, Exchanged
    <2>9. f.state = f.code \/ (~pkce /\ ~f.token)
        BY <1>1, <2>0 DEF HoldsRight, Holds, Exchanged
    <2>10. AttemptsBound'
        <3>1. \A i \in DOMAIN signedIn :
                  signedIn[i][2] # f.code /\ (signedIn[i][1] = f.state => Raced("state", f.state))
            BY <1>1 DEF HoldsRight, Holds, Exchanged
        <3> QED BY <1>2, <2>3, <2>4, <2>9, <3>1 DEF AttemptsBound, OidcInv, Raced, oidcConfig
    <2>11. (InMemory => raced = {})'
        BY <1>2 DEF OidcInv, InMemory, oidcConfig
    <2> QED BY <2>5, <2>6, <2>7, <2>8, <2>10, <2>11 DEF OidcInv
<1> QED BY <1>2, <1>3, <1>4 DEF FetchUserInfo

LEMMA CallbackDiesKeeps ==
    ASSUME OidcInv, NEW c \in Coros, CallbackDies(c) PROVE OidcInv' /\ area' = area
BY FailKeeps DEF CallbackDies, Continue, oidcVars, oidcConfig, OidcInv, OidcTyped

LEMMA OidcStep ==
    ASSUME OidcInv, OidcNext
    PROVE  OidcInv' /\ area' = area
BY AuthorizeKeeps, CallbackKeeps, FindStateKeeps, DeleteStateKeeps, RedeemKeeps, ValidateIdTokenKeeps,
   FetchUserInfoKeeps, CallbackDiesKeeps DEF OidcNext

LEMMA OidcSafe == OidcInv => OidcSound
BY DEF OidcInv, OidcTyped, OidcSound

LEMMA OidcStill ==
    ASSUME OidcInv, UNCHANGED <<base, oidcVars>>
    PROVE  OidcInv'
BY DEF base, oidcVars, OidcInv, OidcTyped, HoldsRight, Disjoint, Holds, Exchanged, AttemptsBound, Raced, InMemory

------------------------------------------------------------------------------
(* A social login and its vault of tokens.                                    *)

SocialSteps == {"exchange", "keep", "credentials", "profile", "store", "session", "ask",
                "peek", "revoke", "clear"}
SocialCalls == [op : {"login", "refresh", "logout"}, pc : SocialSteps, by : People,
                person : People, client : Clients, object : Nat, token : Nat]
SocialFrames == {Idle} \cup SocialCalls

FlowRaced == Raced("flow", "google")
In(q) == <<q.person, q.client>>

(* A token that only the coroutine that got it knows. *)
Novel(q) == q.op # "logout" /\ q.pc \in {"profile", "store"} /\ q.client # "google"

(* What a call in flight may rely on. *)
Authorized(q) ==
    /\ q.pc \in {"exchange", "ask"} => q.person = q.by
    /\ q.pc = "ask" => q.op = "refresh"
    /\ q.pc = "exchange" => q.op = "login"
    /\ q.pc = "session" => q.op = "login"
    /\ q.pc \in {"keep", "credentials"} =>
           /\ q.op = "login" /\ q.client = "google" /\ q.object \in 1..Len(held)
           /\ q.token \in 1..Len(issued) /\ issued[q.token] = <<q.by, "google">>
           /\ FlowRaced \/ \A j \in 1..Len(held) : j > q.object => held[j] = NoToken
    /\ q.pc = "credentials" => FlowRaced \/ held[q.object] = q.token
    /\ q.pc = "profile" =>
           /\ q.op = "login" /\ q.token \in 1..Len(issued) /\ issued[q.token][2] = q.client
           /\ FlowRaced \/ issued[q.token][1] = q.by
    /\ q.pc = "store" =>
           /\ q.op # "logout" /\ q.token \in 1..Len(issued) /\ issued[q.token] = In(q)
           /\ q.op = "login" => FlowRaced \/ q.person = q.by
    /\ q.pc = "session" => FlowRaced \/ q.person = q.by

Emptying(q) ==
    /\ q.pc \in {"peek", "revoke", "clear"} => q.op = "logout"
    /\ q.pc \in {"revoke", "clear"} => Raced("logout", In(q)) \/ vault[In(q)] \in {NoToken, q.token}
    /\ q.pc = "revoke" => /\ q.token \in 1..Len(issued) /\ issued[q.token] = In(q)
                          /\ q.client \in Revoking
    /\ q.pc = "clear" /\ q.client \in Revoking /\ q.token # NoToken => q.token \in revoked
    /\ Novel(q) => q.token \notin revoked /\ \A v \in Vaults : vault[v] # q.token

Sole(q, r) == Novel(q) /\ r.pc \in {"profile", "store", "revoke"} => q.token # r.token

Fits(q) == Authorized(q) /\ Emptying(q)

SocialWorld ==
    /\ flow \in Nat /\ held \in Seq(Nat) /\ flow = Len(held)
    /\ issued \in Seq(Vaults) /\ revoked \subseteq 1..Len(issued)
    /\ vault \in [Vaults -> 0..Len(issued)]
    /\ \A j \in 1..Len(held) : held[j] # NoToken =>
           held[j] \in 1..Len(issued) /\ issued[held[j]][2] = "google"
    /\ \A v \in Vaults : vault[v] # NoToken => issued[vault[v]] = v
    /\ \A t \in revoked : issued[t][2] \in Revoking

SocialCalled ==
    /\ co \in [Coros -> SocialFrames]
    /\ \A c \in Coros : Fits(co[c])
    /\ \A c, d \in Coros : c # d => Sole(co[c], co[d])

SocialInv == SocialWorld /\ SocialCalled /\ OwnSession /\ LogoutTakesToken

LEMMA SocialFrameFacts ==
    ASSUME NEW q \in SocialFrames
    PROVE  /\ q.pc # "idle" => q \in SocialCalls
           /\ q = Idle => q.pc = "idle" /\ q.op = "none" /\ Fits(q)
           /\ q \in SocialCalls => q.pc # "idle" /\ In(q) \in Vaults
<1>1. CASE q = Idle
    BY <1>1 DEF Idle, Fits, Authorized, Emptying, Novel, SocialCalls, SocialSteps
<1>2. CASE q \in SocialCalls
    <2>1. q.pc # "idle" /\ q # Idle
        BY <1>2 DEF SocialCalls, SocialSteps, Idle
    <2> QED BY <1>2, <2>1 DEF SocialCalls, In, Vaults
<1> QED BY <1>1, <1>2 DEF SocialFrames

LEMMA SocialCallFacts ==
    ASSUME SocialInv, NEW c \in Coros, co[c].pc # "idle"
    PROVE  /\ co[c] \in SocialCalls /\ Fits(co[c]) /\ VaultOf(c) = In(co[c]) /\ In(co[c]) \in Vaults
BY SocialFrameFacts DEF SocialInv, SocialCalled, VaultOf, In

LEMMA SocialEndures ==
    ASSUME SocialCalled, NEW c \in Coros, NEW q \in SocialFrames, Become(c, q), Fits(q)',
           \A d \in Coros : \A r : d # c /\ r = co[d] => Fits(r)' /\ Sole(q, r) /\ Sole(r, q)
    PROVE  SocialCalled'
<1>1. co' \in [Coros -> SocialFrames] /\ \A d \in Coros : co'[d] = IF d = c THEN q ELSE co[d]
    BY DEF SocialCalled, Become
<1>2. ASSUME NEW d \in Coros PROVE Fits(co[d])'
    <2> SUFFICES ASSUME NEW r, r = co'[d] PROVE Fits(r)'
        BY DEF Fits, Authorized, Emptying, Novel, In
    <2> QED BY <1>1
<1>3. ASSUME NEW d \in Coros, NEW e \in Coros, d # e PROVE Sole(co[d], co[e])'
    <2>1. Sole(co'[d], co'[e])
        BY <1>1, <1>3 DEF SocialCalled
    <2> QED BY <2>1 DEF Sole, Novel
<1> QED BY <1>1, <1>2, <1>3 DEF SocialCalled

(* Tokens are only added. *)
Grown == /\ issued' \in Seq(Vaults) /\ Len(issued) <= Len(issued')
         /\ \A t \in 1..Len(issued) : issued'[t] = issued[t]

LEMMA IssuedFacts ==
    ASSUME SocialWorld, NEW v \in Vaults, issued' = Append(issued, v)
    PROVE  Grown /\ Len(issued') = Len(issued) + 1 /\ issued'[Len(issued')] = v /\ Len(issued) \in Nat
BY DEF SocialWorld, Grown

LEMMA NothingIssued == ASSUME SocialWorld, issued' = issued PROVE Grown /\ Len(issued) \in Nat
BY DEF SocialWorld, Grown

LEMMA FitsKept ==
    ASSUME SocialWorld, NEW r \in SocialFrames, Fits(r), Grown, raced \subseteq raced',
           UNCHANGED <<held, vault, revoked>>
    PROVE  Fits(r)'
<1>1. Len(issued) \in Nat /\ Len(issued') \in Nat
    BY DEF SocialWorld, Grown
<1>2. Authorized(r)'
    BY <1>1 DEF Fits, Authorized, FlowRaced, Raced, Grown, In
<1>3. Emptying(r)'
    BY <1>1 DEF Fits, Emptying, Raced, Grown, In, Novel
<1> QED BY <1>2, <1>3 DEF Fits

LEMMA WorldKept ==
    ASSUME SocialWorld, Grown, UNCHANGED <<flow, held, vault, revoked>>
    PROVE  SocialWorld'
<1>1. Len(issued) \in Nat /\ Len(issued') \in Nat
    BY DEF SocialWorld, Grown
<1>2. held' \in Seq(Nat) /\ flow' \in Nat /\ flow' = Len(held') /\ revoked' \subseteq 1..Len(issued')
    BY <1>1 DEF SocialWorld, Grown
<1>3. vault' \in [Vaults -> 0..Len(issued')]
    BY <1>1 DEF SocialWorld, Grown
<1>4. ASSUME NEW j \in 1..Len(held), held[j] # NoToken
      PROVE  held[j] \in 1..Len(issued') /\ issued'[held[j]][2] = "google"
    <2>1. held[j] \in 1..Len(issued) /\ issued[held[j]][2] = "google"
        BY <1>4 DEF SocialWorld
    <2> QED BY <1>1, <2>1 DEF Grown
<1>5. ASSUME NEW v \in Vaults, vault[v] # NoToken PROVE issued'[vault[v]] = v
    <2>1. vault[v] \in 1..Len(issued) /\ issued[vault[v]] = v
        BY <1>1, <1>5 DEF SocialWorld, NoToken
    <2> QED BY <2>1 DEF Grown
<1>6. ASSUME NEW t \in revoked PROVE issued'[t][2] \in Revoking
    <2>1. t \in 1..Len(issued) /\ issued[t][2] \in Revoking
        BY <1>6 DEF SocialWorld
    <2> QED BY <2>1 DEF Grown
<1> QED BY <1>2, <1>3, <1>4, <1>5, <1>6 DEF SocialWorld, Grown

LEMMA LogoutKept ==
    ASSUME SocialInv, NEW c \in Coros, NEW q \in SocialFrames, Become(c, q), raced \subseteq raced',
           UNCHANGED <<vault, revoked, cleared>>,
           \A u : u = VaultOf(c) /\ co[c].pc = "clear" => Raced("died", u)'
    PROVE  LogoutTakesToken'
<1>1. co' \in [Coros -> SocialFrames] /\ \A d \in Coros : co'[d] = IF d = c THEN q ELSE co[d]
    BY DEF SocialInv, SocialCalled, Become
<1>2. ASSUME NEW v \in Vaults, vault[v] \in revoked
      PROVE  \/ \E d \in Coros : co'[d].op = "logout" /\ <<co'[d].person, co'[d].client>> = v /\ co'[d].pc = "clear"
             \/ Raced("logout", v)' \/ Raced("died", v)'
    <2>1. CASE Raced("logout", v) \/ Raced("died", v)
        BY <2>1 DEF Raced
    <2>2. CASE ~(Raced("logout", v) \/ Raced("died", v))
        <3>1. PICK d \in Coros : co[d].op = "logout" /\ VaultOf(d) = v /\ co[d].pc = "clear"
            BY <1>2, <2>2 DEF SocialInv, LogoutTakesToken, At
        <3>2. CASE d = c
            BY <3>1, <3>2 DEF Raced, VaultOf
        <3>3. CASE d # c
            BY <1>1, <3>1, <3>3 DEF VaultOf
        <3> QED BY <3>2, <3>3
    <2> QED BY <2>1, <2>2
<1>3. ASSUME NEW x \in cleared, x[1] \in Revoking, x[2] # NoToken
      PROVE  x[2] \in revoked \/ \E p \in People : Raced("logout", <<p, x[1]>>)'
    BY <1>3 DEF SocialInv, LogoutTakesToken, Raced
<1> QED BY <1>2, <1>3 DEF LogoutTakesToken, VaultOf, At

(* A call moves on: what the clients and the vault keep is left alone, and at most a token is issued. *)
LEMMA SocialQuiet ==
    ASSUME SocialInv, NEW c \in Coros, NEW q \in SocialFrames, Become(c, q), Grown, raced \subseteq raced',
           UNCHANGED <<google, vault, revoked, cleared>>,
           \A u : u = VaultOf(c) /\ co[c].pc = "clear" => Raced("died", u)',
           Fits(q)', OwnSession',
           \A d \in Coros : \A r : d # c /\ r = co[d] => Sole(q, r) /\ Sole(r, q)
    PROVE  SocialInv'
<1>1. SocialWorld'
    BY WorldKept DEF SocialInv, google
<1>2. ASSUME NEW d \in Coros, NEW r, r = co[d] PROVE Fits(r)'
    BY <1>2, FitsKept DEF SocialInv, SocialCalled, google
<1>3. SocialCalled'
    BY <1>2, SocialEndures DEF SocialInv
<1>4. LogoutTakesToken'
    BY LogoutKept
<1> QED BY <1>1, <1>3, <1>4 DEF SocialInv

LEMMA OwnKept == ASSUME OwnSession, UNCHANGED entered, raced \subseteq raced' PROVE OwnSession'
BY DEF OwnSession, Raced

(* A call that ends, and not at the clearing. *)
LEMMA SocialEnds ==
    ASSUME SocialInv, NEW c \in Coros, Return(c), raced \subseteq raced', issued' = issued,
           UNCHANGED <<google, vault, revoked, cleared>>, OwnSession',
           \A u : u = VaultOf(c) /\ co[c].pc = "clear" => Raced("died", u)'
    PROVE  SocialInv'
<1> SUFFICES ASSUME NEW q, q = Idle PROVE SocialInv'
    OBVIOUS
<1>1. q \in SocialFrames /\ Become(c, q) /\ q.pc = "idle" /\ q.op = "none"
    BY DEF Return, SocialFrames, Idle
<1>2. Fits(q)'
    BY <1>1 DEF Fits, Authorized, Emptying, Novel
<1>3. \A d \in Coros : \A r : d # c /\ r = co[d] => Sole(q, r) /\ Sole(r, q)
    BY <1>1 DEF Sole, Novel
<1> QED BY <1>1, <1>2, <1>3, SocialQuiet, NothingIssued DEF SocialInv

LEMMA SocialStart ==
    ASSUME SocialAtRest, co = [c \in Coros |-> Idle]
    PROVE  SocialInv
<1>1. \A c \in Coros : co[c] = Idle /\ co[c].pc = "idle" /\ co[c].op = "none"
    BY DEF Idle
<1>2. SocialCalled
    BY <1>1 DEF SocialCalled, SocialFrames, Fits, Authorized, Emptying, Sole, Novel
<1>3. PICK p \in People, k \in Clients :
          issued = <<<<p, k>>>> /\ vault = [v \in Vaults |-> IF v = <<p, k>> THEN 1 ELSE NoToken]
    BY DEF SocialAtRest
<1>4. issued \in Seq(Vaults) /\ Len(issued) = 1 /\ issued[1] = <<p, k>>
    BY <1>3 DEF Vaults
<1>5. held = <<>> /\ held \in Seq(Nat) /\ Len(held) = 0 /\ flow = 0
    BY DEF SocialAtRest, NoToken
<1>6. SocialWorld
    BY <1>3, <1>4, <1>5 DEF SocialAtRest, SocialWorld, NoToken
<1>7. OwnSession /\ LogoutTakesToken
    BY DEF SocialAtRest, OwnSession, LogoutTakesToken
<1> QED BY <1>2, <1>6, <1>7 DEF SocialInv

LEMMA OpenFlowKeeps == ASSUME SocialInv, NEW c \in Coros, OpenFlow(c) PROVE SocialInv' /\ area' = area
<1>1. /\ held' = Append(held, NoToken) /\ flow' = Len(held')
      /\ UNCHANGED <<area, co, raced, issued, revoked, vault, cleared, entered>>
    BY DEF OpenFlow, base, world, histories
<1>2. /\ Len(held) \in Nat /\ held' \in Seq(Nat) /\ Len(held') = Len(held) + 1 /\ held'[Len(held')] = NoToken
      /\ \A j \in 1..Len(held) : held'[j] = held[j]
    BY <1>1 DEF SocialInv, SocialWorld, NoToken
<1>3. SocialWorld'
    <2>1. \A j \in 1..Len(held') : held'[j] # NoToken => j \in 1..Len(held) /\ held'[j] = held[j]
        BY <1>2
    <2>2. flow' \in Nat /\ flow' = Len(held')
        BY <1>1, <1>2
    <2> QED BY <1>1, <1>2, <2>1, <2>2 DEF SocialInv, SocialWorld
<1>4. ASSUME NEW d \in Coros PROVE Fits(co[d])'
    <2> SUFFICES ASSUME NEW r, r = co[d] PROVE Fits(r)'
        BY <1>1 DEF Fits, Authorized, Emptying, Novel, In
    <2>1. Fits(r) /\ (r.pc # "idle" => r.object \in Nat)
        BY SocialFrameFacts DEF SocialInv, SocialCalled, SocialCalls
    <2>2. /\ r.pc \in {"keep", "credentials"} =>
                 /\ r.object \in 1..Len(held') /\ held'[r.object] = held[r.object]
                 /\ FlowRaced \/ \A j \in 1..Len(held') : j > r.object => held'[j] = NoToken
        <3> SUFFICES ASSUME r.pc \in {"keep", "credentials"}
                     PROVE  /\ r.object \in 1..Len(held') /\ held'[r.object] = held[r.object]
                            /\ FlowRaced \/ \A j \in 1..Len(held') : j > r.object => held'[j] = NoToken
            OBVIOUS
        <3>1. r.object \in 1..Len(held) /\ (FlowRaced \/ \A j \in 1..Len(held) : j > r.object => held[j] = NoToken)
            BY <2>1 DEF Fits, Authorized
        <3>2. \A j \in 1..Len(held') : j \in 1..Len(held) \/ j = Len(held')
            BY <1>2
        <3> QED BY <1>2, <3>1, <3>2
    <2>3. Authorized(r)'
        BY <1>1, <2>1, <2>2 DEF Fits, Authorized, FlowRaced, Raced, In
    <2>4. Emptying(r)'
        BY <1>1, <2>1 DEF Fits, Emptying, Raced, In, Novel
    <2> QED BY <2>3, <2>4 DEF Fits
<1>5. SocialCalled'
    BY <1>1, <1>4 DEF SocialInv, SocialCalled, Sole, Novel
<1>6. OwnSession' /\ LogoutTakesToken'
    BY <1>1 DEF SocialInv, OwnSession, LogoutTakesToken, Raced, VaultOf, At
<1> QED BY <1>1, <1>3, <1>5, <1>6 DEF SocialInv

LEMMA SocialCallKeeps ==
    ASSUME SocialInv, NEW c \in Coros, NEW kind, NEW step, SocialCall(c, kind, step),
           \/ kind = "login" /\ step = "exchange"
           \/ kind = "refresh" /\ step = "ask"
           \/ kind = "logout" /\ step = "peek"
    PROVE  SocialInv' /\ area' = area
<1>1. PICK p \in People, k \in Clients :
          Begin(c, SocialFrame(kind, step, p, k)) /\ UNCHANGED <<area, backend, raced, socialVars>>
    BY DEF SocialCall
<1> SUFFICES ASSUME NEW q, q = SocialFrame(kind, step, p, k) PROVE SocialInv' /\ area' = area
    OBVIOUS
<1>2. q \in SocialFrames /\ Become(c, q) /\ q.pc = step /\ q.op = kind /\ q.person = q.by
    BY <1>1 DEF SocialFrame, SocialFrames, SocialCalls, SocialSteps, Begin, NoToken
<1>3. Fits(q)' /\ \A d \in Coros : \A r : d # c /\ r = co[d] => Sole(q, r) /\ Sole(r, q)
    BY <1>2 DEF Fits, Authorized, Emptying, Novel, Sole
<1>4. /\ UNCHANGED <<google, vault, revoked, cleared, issued, entered, raced, area>>
      /\ co[c].pc = "idle"
    BY <1>1 DEF socialVars, world, histories, Begin, MayBegin, At
<1> QED BY <1>2, <1>3, <1>4, SocialQuiet, NothingIssued, OwnKept DEF SocialInv

LEMMA IssueKeeps ==
    ASSUME SocialInv, NEW c \in Coros, NEW step, Issue(c, step), co[c].pc # "idle",
           UNCHANGED <<raced, google, revoked, vault, cleared, entered>>,
           co[c].person = co[c].by,
           \/ co[c].pc = "exchange" /\ co[c].op = "login" /\ co[c].client # "google" /\ step = "profile"
           \/ co[c].pc = "exchange" /\ co[c].op = "login" /\ co[c].client = "google" /\ flow # NoToken /\ step = "keep"
           \/ co[c].pc = "ask" /\ co[c].op # "logout" /\ step = "store"
    PROVE  SocialInv'
<1> SUFFICES ASSUME NEW f, f = co[c] PROVE SocialInv'
    OBVIOUS
<1>1. f \in SocialCalls /\ Fits(f) /\ VaultOf(c) = In(f) /\ In(f) \in Vaults
    BY SocialCallFacts
<1>2. /\ Grown /\ Len(issued') = Len(issued) + 1 /\ issued'[Len(issued')] = In(f) /\ Len(issued) \in Nat
    BY <1>1, IssuedFacts DEF Issue, SocialInv
<1> SUFFICES ASSUME NEW n, n = Len(issued'), NEW o, o = IF f.client = "google" THEN flow ELSE NoToken,
                    NEW q, q = [f EXCEPT !.pc = step, !.token = n, !.object = o]
             PROVE  SocialInv'
    OBVIOUS
<1>3. n \in Nat /\ n = Len(issued) + 1 /\ o \in Nat
    BY <1>2 DEF SocialInv, SocialWorld, NoToken
<1>4. /\ q \in SocialFrames /\ q.pc = step /\ q.token = n /\ q.object = o
      /\ q.op = f.op /\ q.client = f.client /\ q.person = f.person /\ q.by = f.by /\ In(q) = In(f)
    BY <1>1, <1>3 DEF SocialFrames, SocialCalls, SocialSteps, In
<1>5. Become(c, q)
    BY DEF Issue
<1>6. issued'[n] = <<f.by, f.client>> /\ In(q) = <<f.by, f.client>> /\ n \in 1..Len(issued')
    BY <1>2, <1>3, <1>4 DEF In
<1>7. step = "keep" => q.object \in 1..Len(held) /\ \A j \in 1..Len(held) : ~(j > q.object)
    BY <1>4 DEF SocialInv, SocialWorld, NoToken
<1>8. Authorized(q)'
    BY <1>2, <1>3, <1>4, <1>6, <1>7 DEF Authorized, google, In
<1>9. n \notin revoked /\ \A v \in Vaults : vault[v] # n
    BY <1>3, <1>2 DEF SocialInv, SocialWorld
<1>10. Emptying(q)'
    BY <1>4, <1>9 DEF Emptying
<1>11. ASSUME NEW d \in Coros, NEW r, d # c, r = co[d] PROVE Sole(q, r) /\ Sole(r, q)
    <2>1. r.pc \in {"profile", "store", "revoke"} => r.token \in 1..Len(issued)
        BY <1>11 DEF SocialInv, SocialCalled, Fits, Authorized, Emptying
    <2> QED BY <1>2, <1>3, <1>4, <2>1 DEF Sole, Novel
<1>12. OwnSession'
    BY OwnKept DEF SocialInv
<1> QED BY <1>2, <1>4, <1>5, <1>8, <1>10, <1>11, <1>12, SocialQuiet DEF Fits

LEMMA ExchangeCodeKeeps == ASSUME SocialInv, NEW c \in Coros, ExchangeCode(c) PROVE SocialInv' /\ area' = area
<1>1. co[c].pc = "exchange" /\ co[c].op = "login" /\ co[c].person = co[c].by
    BY DEF ExchangeCode, At, SocialInv, SocialCalled, Fits, Authorized
<1> QED BY <1>1, IssueKeeps DEF ExchangeCode, Continue, histories

LEMMA FetchTokenKeeps == ASSUME SocialInv, NEW c \in Coros, FetchToken(c) PROVE SocialInv' /\ area' = area
<1>1. co[c].pc = "exchange" /\ co[c].op = "login" /\ co[c].person = co[c].by
    BY DEF FetchToken, At, SocialInv, SocialCalled, Fits, Authorized
<1>2. UNCHANGED <<area, raced, google, revoked, vault, cleared, entered>>
    BY DEF FetchToken, Continue, histories
<1>3. CASE flow # NoToken /\ Issue(c, "keep")
    BY <1>1, <1>2, <1>3, IssueKeeps DEF FetchToken
<1>4. CASE Return(c) /\ UNCHANGED issued
    BY <1>1, <1>2, <1>4, SocialEnds, OwnKept DEF SocialInv
<1> QED BY <1>2, <1>3, <1>4 DEF FetchToken

LEMMA AskTokenKeeps == ASSUME SocialInv, NEW c \in Coros, AskToken(c) PROVE SocialInv' /\ area' = area
<1>1. co[c].pc = "ask" /\ co[c].person = co[c].by /\ co[c].op = "refresh"
    BY DEF AskToken, At, SocialInv, SocialCalled, Fits, Authorized
<1>2. UNCHANGED <<area, raced, google, revoked, vault, cleared, entered>>
    BY DEF AskToken, Continue, histories
<1>3. CASE Issue(c, "store")
    BY <1>1, <1>2, <1>3, IssueKeeps
<1>4. CASE Return(c) /\ UNCHANGED issued
    BY <1>1, <1>2, <1>4, SocialEnds, OwnKept DEF SocialInv
<1> QED BY <1>2, <1>3, <1>4 DEF AskToken

(* A step of a call that has its locals: what it becomes and what it was. *)
LEMMA KeepTokenKeeps == ASSUME SocialInv, NEW c \in Coros, KeepToken(c) PROVE SocialInv' /\ area' = area
<1> SUFFICES ASSUME NEW f, f = co[c], NEW q, q = [f EXCEPT !.pc = "credentials"] PROVE SocialInv' /\ area' = area
    OBVIOUS
<1>1. f \in SocialCalls /\ Fits(f) /\ f.pc = "keep"
    BY SocialCallFacts DEF KeepToken, At
<1>2. /\ q \in SocialFrames /\ q.pc = "credentials" /\ q.token = f.token /\ q.object = f.object
      /\ q.op = f.op /\ q.client = f.client /\ q.by = f.by /\ Become(c, q)
    BY <1>1 DEF SocialFrames, SocialCalls, SocialSteps, KeepToken, Goto
<1>3. /\ f.op = "login" /\ f.client = "google" /\ f.object \in 1..Len(held) /\ f.token \in 1..Len(issued)
      /\ issued[f.token] = <<f.by, "google">>
      /\ FlowRaced \/ \A j \in 1..Len(held) : j > f.object => held[j] = NoToken
    BY <1>1 DEF Fits, Authorized
<1>4. /\ held' = [held EXCEPT ![f.object] = f.token] /\ raced \subseteq raced'
      /\ UNCHANGED <<flow, issued, revoked, vault, cleared, entered, area>>
    BY DEF KeepToken, world, histories, Continue, Overlap
<1>5. /\ held' \in Seq(Nat) /\ Len(held') = Len(held) /\ Len(held) \in Nat /\ held'[f.object] = f.token
      /\ \A j \in 1..Len(held) : j # f.object => held'[j] = held[j]
    BY <1>3, <1>4 DEF SocialInv, SocialWorld
<1>6. SocialWorld'
    <2>1. ASSUME NEW j \in 1..Len(held), held'[j] # NoToken
          PROVE  held'[j] \in 1..Len(issued) /\ issued[held'[j]][2] = "google"
        <3>1. CASE j = f.object
            BY <1>3, <1>5, <3>1
        <3>2. CASE j # f.object
            BY <1>5, <2>1, <3>2 DEF SocialInv, SocialWorld
        <3> QED BY <3>1, <3>2
    <2> QED BY <1>4, <1>5, <2>1 DEF SocialInv, SocialWorld
<1>7. Fits(q)'
    <2>1. Authorized(q)'
        BY <1>2, <1>3, <1>4, <1>5 DEF Authorized, FlowRaced, Raced
    <2> QED BY <1>2, <2>1 DEF Fits, Emptying, Novel
<1>8. ASSUME NEW d \in Coros, NEW r, d # c, r = co[d] PROVE Fits(r)' /\ Sole(q, r) /\ Sole(r, q)
    <2>1. Fits(r) /\ r \in SocialFrames
        BY <1>8 DEF SocialInv, SocialCalled
    <2>2. r.pc \in {"keep", "credentials"} => FlowRaced'
        <3>1. r.pc \in {"keep", "credentials"} => d \in Busy(c)
            BY <1>8 DEF Busy, At
        <3> QED BY <1>8, <3>1 DEF KeepToken, Overlap, FlowRaced, Raced
    <2>3. Authorized(r)'
        BY <1>4, <1>5, <2>1, <2>2 DEF Fits, Authorized, FlowRaced, Raced, In
    <2>4. Emptying(r)'
        BY <1>4, <2>1 DEF Fits, Emptying, Raced, In, Novel
    <2> QED BY <1>2, <2>3, <2>4 DEF Fits, Sole, Novel
<1>9. SocialCalled'
    BY <1>2, <1>7, <1>8, SocialEndures DEF SocialInv
<1>10. LogoutTakesToken'
    BY <1>1, <1>2, <1>4, LogoutKept
<1>11. OwnSession'
    BY <1>4, OwnKept DEF SocialInv
<1> QED BY <1>4, <1>6, <1>9, <1>10, <1>11 DEF SocialInv

LEMMA ReadCredentialsKeeps == ASSUME SocialInv, NEW c \in Coros, ReadCredentials(c) PROVE SocialInv' /\ area' = area
<1> SUFFICES ASSUME NEW f, f = co[c] PROVE SocialInv' /\ area' = area
    OBVIOUS
<1>1. f \in SocialCalls /\ Fits(f) /\ f.pc = "credentials"
    BY SocialCallFacts DEF ReadCredentials, At
<1>2. UNCHANGED <<google, issued, vault, revoked, cleared, entered, raced, area>>
    BY DEF ReadCredentials, Continue, socialVars, world, histories
<1>3. OwnSession'
    BY <1>2, OwnKept DEF SocialInv
<1>4. CASE held[flow] = NoToken
    BY <1>1, <1>2, <1>3, <1>4, SocialEnds DEF ReadCredentials
<1>5. CASE held[flow] # NoToken
    <2> SUFFICES ASSUME NEW t, t = held[flow], NEW q, q = [f EXCEPT !.pc = "profile", !.token = t] PROVE SocialInv'
        BY <1>2
    <2>1. /\ f.op = "login" /\ f.client = "google" /\ f.object \in 1..Len(held)
          /\ issued[f.token] = <<f.by, "google">>
          /\ FlowRaced \/ \A j \in 1..Len(held) : j > f.object => held[j] = NoToken
          /\ FlowRaced \/ held[f.object] = f.token
        BY <1>1 DEF Fits, Authorized
    <2>2. flow \in 1..Len(held) /\ f.object <= flow
        BY <2>1 DEF SocialInv, SocialWorld
    <2>3. t \in 1..Len(issued) /\ issued[t][2] = "google" /\ t \in Nat
        BY <1>5, <2>2 DEF SocialInv, SocialWorld
    <2>4. FlowRaced \/ issued[t] = <<f.by, "google">>
        <3>1. CASE flow = f.object
            BY <2>1, <3>1
        <3>2. CASE flow # f.object
            BY <1>5, <2>1, <2>2, <3>2
        <3> QED BY <3>1, <3>2
    <2>5. /\ q \in SocialFrames /\ q.pc = "profile" /\ q.token = t /\ Become(c, q)
          /\ q.op = "login" /\ q.client = "google" /\ q.by = f.by
        BY <1>1, <1>5, <2>1, <2>3 DEF SocialFrames, SocialCalls, SocialSteps, ReadCredentials
    <2>6. Fits(q)'
        <3>1. Authorized(q)'
            BY <1>2, <2>3, <2>4, <2>5 DEF Authorized, FlowRaced, Raced
        <3> QED BY <2>5, <3>1 DEF Fits, Emptying, Novel
    <2>7. ASSUME NEW d \in Coros, NEW r, d # c, r = co[d] PROVE Sole(q, r) /\ Sole(r, q)
        <3>1. Novel(r) => issued[r.token][2] = r.client
            BY <2>7 DEF SocialInv, SocialCalled, Fits, Authorized, Novel, In
        <3> QED BY <2>3, <2>5, <3>1 DEF Sole, Novel
    <2> QED BY <1>1, <1>2, <1>3, <2>5, <2>6, <2>7, SocialQuiet, NothingIssued DEF SocialInv
<1> QED BY <1>2, <1>4, <1>5

LEMMA ReadProfileKeeps == ASSUME SocialInv, NEW c \in Coros, ReadProfile(c) PROVE SocialInv' /\ area' = area
<1> SUFFICES ASSUME NEW f, f = co[c] PROVE SocialInv' /\ area' = area
    OBVIOUS
<1>1. f \in SocialCalls /\ Fits(f) /\ f.pc = "profile"
    BY SocialCallFacts DEF ReadProfile, At
<1>2. UNCHANGED <<google, issued, vault, revoked, cleared, entered, raced, area>>
    BY DEF ReadProfile, Continue, socialVars, world, histories
<1>3. OwnSession'
    BY <1>2, OwnKept DEF SocialInv
<1>4. CASE Return(c)
    BY <1>1, <1>2, <1>3, <1>4, SocialEnds
<1>5. CASE ~Return(c)
    <2> SUFFICES ASSUME NEW p, p = issued[f.token][1], NEW q, q = [f EXCEPT !.pc = "store", !.person = p] PROVE SocialInv'
        BY <1>2
    <2>1. /\ f.op = "login" /\ f.token \in 1..Len(issued) /\ issued[f.token][2] = f.client
          /\ FlowRaced \/ p = f.by
        BY <1>1 DEF Fits, Authorized
    <2>2. p \in People /\ issued[f.token] = <<p, f.client>>
        BY <2>1 DEF SocialInv, SocialWorld, Vaults
    <2>3. /\ q \in SocialFrames /\ q.pc = "store" /\ q.token = f.token /\ Become(c, q)
          /\ q.op = "login" /\ q.client = f.client /\ q.by = f.by /\ q.person = p
        BY <1>1, <1>5, <2>1, <2>2 DEF SocialFrames, SocialCalls, SocialSteps, ReadProfile, Owner
    <2>4. Fits(q)'
        <3>1. Authorized(q)'
            BY <1>2, <2>1, <2>2, <2>3 DEF Authorized, FlowRaced, Raced, In
        <3>2. Emptying(q)'
            BY <1>1, <1>2, <2>1, <2>3 DEF Fits, Emptying, Novel
        <3> QED BY <3>1, <3>2 DEF Fits
    <2>5. \A d \in Coros : \A r : d # c /\ r = co[d] => Sole(q, r) /\ Sole(r, q)
        BY <1>1, <2>1, <2>3 DEF SocialInv, SocialCalled, Sole, Novel
    <2> QED BY <1>1, <1>2, <1>3, <2>3, <2>4, <2>5, SocialQuiet, NothingIssued DEF SocialInv
<1> QED BY <1>2, <1>4, <1>5

LEMMA OpenSessionKeeps == ASSUME SocialInv, NEW c \in Coros, OpenSession(c) PROVE SocialInv' /\ area' = area
<1>1. co[c].pc = "session" /\ (FlowRaced \/ co[c].person = co[c].by)
    BY DEF OpenSession, At, SocialInv, SocialCalled, Fits, Authorized
<1>2. /\ UNCHANGED <<google, issued, vault, revoked, cleared, raced, area>> /\ Return(c)
      /\ entered' = entered \cup {<<co[c].by, co[c].person>>}
    BY DEF OpenSession, Continue, world
<1>3. OwnSession'
    BY <1>1, <1>2 DEF SocialInv, OwnSession, FlowRaced, Raced
<1> QED BY <1>1, <1>2, <1>3, SocialEnds

LEMMA PeekTokenKeeps == ASSUME SocialInv, NEW c \in Coros, PeekToken(c) PROVE SocialInv' /\ area' = area
<1> SUFFICES ASSUME NEW f, f = co[c] PROVE SocialInv' /\ area' = area
    OBVIOUS
<1>1. f \in SocialCalls /\ Fits(f) /\ f.pc = "peek" /\ VaultOf(c) = In(f) /\ In(f) \in Vaults /\ f.op = "logout"
    BY SocialCallFacts DEF PeekToken, At, Fits, Emptying
<1>2. UNCHANGED <<google, issued, vault, revoked, cleared, entered, raced, area>>
    BY DEF PeekToken, Continue, socialVars, world, histories
<1>3. OwnSession'
    BY <1>2, OwnKept DEF SocialInv
<1> SUFFICES ASSUME NEW t, t = vault[In(f)],
                    NEW step, step = IF f.client \in Revoking /\ t # NoToken THEN "revoke" ELSE "clear",
                    NEW q, q = [f EXCEPT !.pc = step, !.token = t]
             PROVE  SocialInv'
    BY <1>2
<1>4. t \in 0..Len(issued) /\ (t # NoToken => t \in 1..Len(issued) /\ issued[t] = In(f)) /\ t \in Nat
    BY <1>1 DEF SocialInv, SocialWorld, NoToken
<1>5. /\ q \in SocialFrames /\ q.pc = step /\ q.token = t /\ q.op = "logout" /\ q.client = f.client /\ In(q) = In(f)
      /\ step \in {"revoke", "clear"}
    BY <1>1, <1>4 DEF SocialFrames, SocialCalls, SocialSteps, In
<1>6. Become(c, q)
    BY <1>1 DEF PeekToken
<1>7. Fits(q)'
    <2>1. Authorized(q)'
        BY <1>5 DEF Authorized
    <2>2. Emptying(q)'
        BY <1>1, <1>2, <1>4, <1>5 DEF Emptying, Novel, In
    <2> QED BY <2>1, <2>2 DEF Fits
<1>8. ASSUME NEW d \in Coros, NEW r, d # c, r = co[d] PROVE Sole(q, r) /\ Sole(r, q)
    <2>1. Novel(r) => r.token # t
        BY <1>1, <1>8 DEF SocialInv, SocialCalled, Fits, Emptying
    <2> QED BY <1>5, <2>1 DEF Sole, Novel
<1> QED BY <1>1, <1>2, <1>3, <1>5, <1>6, <1>7, <1>8, SocialQuiet, NothingIssued DEF SocialInv

LEMMA SocialDiesKeeps == ASSUME SocialInv, NEW c \in Coros, SocialDies(c) PROVE SocialInv' /\ area' = area
<1>1. /\ UNCHANGED <<google, issued, vault, revoked, cleared, entered, area>> /\ Return(c)
      /\ raced \subseteq raced'
    BY DEF SocialDies, Continue, socialVars, world, histories, Overlap
<1>2. ASSUME NEW u, u = VaultOf(c), co[c].pc = "clear" PROVE Raced("died", u)'
    BY <1>2 DEF SocialDies, Overlap, At, Raced
<1> QED BY <1>1, <1>2, SocialEnds, OwnKept DEF SocialInv

(* Who keeps the vault's debt of a logout: a call at its clearing, or an overlap. *)
Indebted(v) == \/ \E d \in Coros : co[d].op = "logout" /\ VaultOf(d) = v /\ co[d].pc = "clear"
               \/ Raced("logout", v) \/ Raced("died", v)

LEMMA DebtKept ==
    ASSUME SocialCalled, NEW c \in Coros, NEW q \in SocialFrames, Become(c, q), raced \subseteq raced',
           NEW v, Indebted(v), co[c].pc = "clear" => VaultOf(c) # v
    PROVE  Indebted(v)'
<1>1. \A d \in Coros : co'[d] = IF d = c THEN q ELSE co[d]
    BY DEF SocialCalled, Become
<1>2. ASSUME NEW d \in Coros, co[d].op = "logout", VaultOf(d) = v, co[d].pc = "clear"
      PROVE  co'[d].op = "logout" /\ <<co'[d].person, co'[d].client>> = v /\ co'[d].pc = "clear"
    BY <1>1, <1>2 DEF VaultOf
<1> QED BY <1>2 DEF Indebted, VaultOf, Raced

LEMMA StoreTokenKeeps == ASSUME SocialInv, NEW c \in Coros, StoreToken(c) PROVE SocialInv' /\ area' = area
<1> SUFFICES ASSUME NEW f, f = co[c],
                    NEW q, q = IF f.op = "login" THEN [f EXCEPT !.pc = "session"] ELSE Idle
             PROVE  SocialInv' /\ area' = area
    OBVIOUS
<1>1. f \in SocialCalls /\ Fits(f) /\ f.pc = "store" /\ VaultOf(c) = In(f) /\ In(f) \in Vaults
    BY SocialCallFacts DEF StoreToken, At
<1>2. /\ vault' = [vault EXCEPT ![In(f)] = f.token] /\ raced \subseteq raced'
      /\ UNCHANGED <<flow, held, issued, revoked, cleared, entered, area>>
    BY <1>1 DEF StoreToken, google, world, histories, Continue, Overlap
<1>3. Become(c, q)
    BY DEF StoreToken, Goto, Return
<1>4. /\ q \in SocialFrames /\ q.pc \in {"session", "idle"}
      /\ q.pc = "session" => q.op = "login" /\ f.op = "login" /\ q.person = f.person /\ q.by = f.by
    BY <1>1 DEF SocialFrames, SocialCalls, SocialSteps, Idle
<1>5. /\ f.op # "logout" /\ f.token \in 1..Len(issued) /\ issued[f.token] = In(f)
      /\ f.op = "login" => FlowRaced \/ f.person = f.by
    BY <1>1 DEF Fits, Authorized
<1>6. /\ vault' \in [Vaults -> 0..Len(issued)] /\ vault'[In(f)] = f.token
      /\ \A v \in Vaults : v # In(f) => vault'[v] = vault[v]
    BY <1>1, <1>2, <1>5 DEF SocialInv, SocialWorld
<1>7. SocialWorld'
    <2>1. \A v \in Vaults : vault'[v] # NoToken => issued[vault'[v]] = v
        BY <1>5, <1>6 DEF SocialInv, SocialWorld
    <2> QED BY <1>2, <1>6, <2>1 DEF SocialInv, SocialWorld
<1>8. Fits(q)'
    BY <1>2, <1>4, <1>5 DEF Fits, Authorized, Emptying, Novel, FlowRaced, Raced
<1>9. ASSUME NEW d \in Coros, NEW r, d # c, r = co[d] PROVE Fits(r)' /\ Sole(q, r) /\ Sole(r, q)
    <2>1. Fits(r) /\ Sole(r, f) /\ (r.pc # "idle" => In(r) \in Vaults)
        BY <1>9, SocialFrameFacts DEF SocialInv, SocialCalled
    <2>2. Authorized(r)'
        BY <1>2, <2>1 DEF Fits, Authorized, FlowRaced, Raced, In
    <2>3. r.pc \in {"revoke", "clear"} /\ In(r) = In(f) => Raced("logout", In(f))'
        <3>1. r.pc \in {"revoke", "clear"} /\ In(r) = In(f) => d \in LoggingOut(c)
            BY <1>1, <1>9, <2>1 DEF LoggingOut, Busy, At, Fits, Emptying, VaultOf, In
        <3> QED BY <1>1, <3>1 DEF StoreToken, Overlap, Raced
    <2>4. Novel(r) => \A v \in Vaults : vault'[v] # r.token
        BY <1>1, <1>6, <2>1 DEF Fits, Emptying, Sole
    <2>5. Emptying(r)'
        BY <1>2, <1>6, <2>1, <2>3, <2>4 DEF Fits, Emptying, Raced, In, Novel
    <2> QED BY <1>4, <2>2, <2>5 DEF Fits, Sole, Novel
<1>10. SocialCalled'
    BY <1>3, <1>4, <1>8, <1>9, SocialEndures DEF SocialInv
<1>11. f.token \notin revoked
    <2>1. CASE f.client = "google"
        <3>1. issued[f.token][2] = "google" /\ "google" \notin Revoking
            BY <1>5, <2>1 DEF In, Revoking
        <3> QED BY <3>1 DEF SocialInv, SocialWorld
    <2>2. CASE f.client # "google"
        BY <1>1, <1>5, <2>2 DEF Fits, Emptying, Novel
    <2> QED BY <2>1, <2>2
<1>12. ASSUME NEW v \in Vaults, vault'[v] \in revoked PROVE Indebted(v)'
    <2>1. v # In(f) /\ vault[v] \in revoked
        BY <1>6, <1>11, <1>12
    <2>2. Indebted(v)
        BY <2>1 DEF SocialInv, LogoutTakesToken, Indebted, At
    <2> QED BY <1>1, <1>2, <1>3, <1>4, <2>2, DebtKept DEF SocialInv
<1>13. LogoutTakesToken'
    <2>1. ASSUME NEW x \in cleared, x[1] \in Revoking, x[2] # NoToken
          PROVE  x[2] \in revoked \/ \E p \in People : Raced("logout", <<p, x[1]>>)'
        BY <1>2, <2>1 DEF SocialInv, LogoutTakesToken, Raced
    <2> QED BY <1>2, <1>12, <2>1 DEF LogoutTakesToken, Indebted, At
<1>14. OwnSession'
    BY <1>2, OwnKept DEF SocialInv
<1> QED BY <1>2, <1>7, <1>10, <1>13, <1>14 DEF SocialInv

LEMMA RevokeTokenKeeps == ASSUME SocialInv, NEW c \in Coros, RevokeToken(c) PROVE SocialInv' /\ area' = area
<1> SUFFICES ASSUME NEW f, f = co[c], NEW q, q = [f EXCEPT !.pc = "clear"] PROVE SocialInv' /\ area' = area
    OBVIOUS
<1>1. f \in SocialCalls /\ Fits(f) /\ f.pc = "revoke" /\ VaultOf(c) = In(f) /\ In(f) \in Vaults
    BY SocialCallFacts DEF RevokeToken, At
<1>2. UNCHANGED <<google, issued, vault, cleared, entered, raced, area>>
    BY DEF RevokeToken, Continue, histories
<1>3. OwnSession'
    BY <1>2, OwnKept DEF SocialInv
<1>4. CASE Return(c) /\ UNCHANGED revoked
    BY <1>1, <1>2, <1>3, <1>4, SocialEnds
<1>5. CASE revoked' = revoked \cup {f.token} /\ Goto(c, "clear")
    <2>1. /\ f.op = "logout" /\ f.token \in 1..Len(issued) /\ issued[f.token] = In(f) /\ f.client \in Revoking
          /\ Raced("logout", In(f)) \/ vault[In(f)] \in {NoToken, f.token}
        BY <1>1 DEF Fits, Emptying
    <2>2. /\ q \in SocialFrames /\ q.pc = "clear" /\ q.token = f.token /\ q.op = "logout" /\ q.client = f.client
          /\ In(q) = In(f) /\ Become(c, q)
        BY <1>1, <1>5, <2>1 DEF SocialFrames, SocialCalls, SocialSteps, In, Goto
    <2>3. SocialWorld'
        BY <1>2, <1>5, <2>1 DEF SocialInv, SocialWorld, In, google
    <2>4. Fits(q)'
        <3>1. Authorized(q)'
            BY <2>2 DEF Authorized
        <3>2. Emptying(q)'
            BY <1>2, <1>5, <2>1, <2>2 DEF Emptying, Novel, In, Raced
        <3> QED BY <3>1, <3>2 DEF Fits
    <2>5. ASSUME NEW d \in Coros, NEW r, d # c, r = co[d] PROVE Fits(r)' /\ Sole(q, r) /\ Sole(r, q)
        <3>1. Fits(r) /\ Sole(r, f)
            BY <2>5 DEF SocialInv, SocialCalled
        <3>2. Authorized(r)'
            BY <1>2, <3>1 DEF Fits, Authorized, FlowRaced, Raced, In, google
        <3>3. Emptying(r)'
            BY <1>1, <1>2, <1>5, <3>1 DEF Fits, Emptying, Raced, In, Novel, Sole
        <3> QED BY <2>2, <3>2, <3>3 DEF Fits, Sole, Novel
    <2>6. SocialCalled'
        BY <2>2, <2>4, <2>5, SocialEndures DEF SocialInv
    <2>7. ASSUME NEW v \in Vaults, vault[v] \in revoked' PROVE Indebted(v)'
        <3>1. CASE vault[v] = f.token
            <4>1. v = In(f)
                BY <2>1, <3>1 DEF SocialInv, SocialWorld, NoToken
            <4>2. co'[c] = q
                BY <2>2 DEF SocialInv, SocialCalled, Become
            <4> QED BY <2>2, <4>1, <4>2 DEF Indebted, VaultOf, In
        <3>2. CASE vault[v] \in revoked
            <4>1. Indebted(v)
                BY <3>2 DEF SocialInv, LogoutTakesToken, Indebted, At
            <4> QED BY <1>1, <1>2, <2>2, <4>1, DebtKept DEF SocialInv
        <3> QED BY <1>5, <2>7, <3>1, <3>2
    <2>8. LogoutTakesToken'
        <3>1. ASSUME NEW x \in cleared, x[1] \in Revoking, x[2] # NoToken
              PROVE  x[2] \in revoked' \/ \E p \in People : Raced("logout", <<p, x[1]>>)'
            BY <1>2, <1>5, <3>1 DEF SocialInv, LogoutTakesToken, Raced
        <3> QED BY <1>2, <2>7, <3>1 DEF LogoutTakesToken, Indebted, At
    <2> QED BY <1>2, <1>3, <2>3, <2>6, <2>8 DEF SocialInv
<1> QED BY <1>2, <1>4, <1>5 DEF RevokeToken

LEMMA ClearTokenKeeps == ASSUME SocialInv, NEW c \in Coros, ClearToken(c) PROVE SocialInv' /\ area' = area
<1> SUFFICES ASSUME NEW f, f = co[c], NEW q, q = Idle PROVE SocialInv' /\ area' = area
    OBVIOUS
<1>1. f \in SocialCalls /\ Fits(f) /\ f.pc = "clear" /\ VaultOf(c) = In(f) /\ In(f) \in Vaults
    BY SocialCallFacts DEF ClearToken, At
<1>2. /\ vault' = [vault EXCEPT ![In(f)] = NoToken] /\ cleared' = cleared \cup {<<f.client, vault[In(f)]>>}
      /\ UNCHANGED <<google, issued, revoked, entered, raced, area>>
      /\ Become(c, q) /\ q \in SocialFrames /\ q.pc = "idle" /\ q.op = "none"
    BY <1>1 DEF ClearToken, world, Continue, Clear, Return, SocialFrames, Idle
<1>3. /\ vault' \in [Vaults -> 0..Len(issued)] /\ vault'[In(f)] = NoToken
      /\ \A v \in Vaults : v # In(f) => vault'[v] = vault[v]
    BY <1>1, <1>2 DEF SocialInv, SocialWorld, NoToken
<1>4. SocialWorld'
    BY <1>2, <1>3 DEF SocialInv, SocialWorld, google
<1>5. Fits(q)'
    BY <1>2 DEF Fits, Authorized, Emptying, Novel
<1>6. ASSUME NEW d \in Coros, NEW r, d # c, r = co[d] PROVE Fits(r)' /\ Sole(q, r) /\ Sole(r, q)
    <2>1. Fits(r) /\ (r.pc # "idle" => In(r) \in Vaults)
        BY <1>6, SocialFrameFacts DEF SocialInv, SocialCalled
    <2>2. Authorized(r)'
        BY <1>2, <2>1 DEF Fits, Authorized, FlowRaced, Raced, In, google
    <2>3. Novel(r) => r.token \in 1..Len(issued)
        BY <2>1 DEF Fits, Authorized, Novel
    <2>4. Emptying(r)'
        BY <1>2, <1>3, <2>1, <2>3 DEF Fits, Emptying, Raced, In, Novel, NoToken
    <2> QED BY <1>2, <2>2, <2>4 DEF Fits, Sole, Novel
<1>7. SocialCalled'
    BY <1>2, <1>5, <1>6, SocialEndures DEF SocialInv
<1>8. ASSUME NEW v \in Vaults, vault'[v] \in revoked PROVE Indebted(v)'
    <2>1. NoToken \notin revoked
        BY DEF SocialInv, SocialWorld, NoToken
    <2>2. v # In(f) /\ vault[v] \in revoked
        BY <1>3, <1>8, <2>1
    <2>3. Indebted(v)
        BY <2>2 DEF SocialInv, LogoutTakesToken, Indebted, At
    <2> QED BY <1>1, <1>2, <2>2, <2>3, DebtKept DEF SocialInv
<1>9. ASSUME NEW x \in cleared', x[1] \in Revoking, x[2] # NoToken
      PROVE  x[2] \in revoked \/ \E p \in People : Raced("logout", <<p, x[1]>>)
    <2>1. CASE x \in cleared
        BY <1>9, <2>1 DEF SocialInv, LogoutTakesToken
    <2>2. CASE x = <<f.client, vault[In(f)]>>
        <3>1. Raced("logout", In(f)) \/ (vault[In(f)] = f.token /\ f.token \in revoked)
            BY <1>1, <1>9, <2>2 DEF Fits, Emptying
        <3>2. f.person \in People
            BY <1>1 DEF SocialCalls
        <3> QED BY <2>2, <3>1, <3>2 DEF In
    <2> QED BY <1>2, <1>9, <2>1, <2>2
<1>10. LogoutTakesToken'
    BY <1>2, <1>8, <1>9 DEF LogoutTakesToken, Indebted, At, Raced
<1>11. OwnSession'
    BY <1>2, OwnKept DEF SocialInv
<1> QED BY <1>2, <1>4, <1>7, <1>10, <1>11 DEF SocialInv

LEMMA SocialStep ==
    ASSUME SocialInv, SocialNext
    PROVE  SocialInv' /\ area' = area
<1>1. ASSUME NEW c \in Coros, SocialCallback(c) \/ RefreshCall(c) \/ LogoutCall(c)
      PROVE  SocialInv' /\ area' = area
    BY <1>1, SocialCallKeeps DEF SocialCallback, RefreshCall, LogoutCall
<1> QED BY <1>1, OpenFlowKeeps, ExchangeCodeKeeps, FetchTokenKeeps, AskTokenKeeps, KeepTokenKeeps,
           ReadCredentialsKeeps, ReadProfileKeeps, OpenSessionKeeps, StoreTokenKeeps, PeekTokenKeeps,
           RevokeTokenKeeps, ClearTokenKeeps, SocialDiesKeeps DEF SocialNext

LEMMA SocialSafe == SocialInv => SocialSound
BY DEF SocialInv, SocialWorld, SocialSound

LEMMA SocialStill ==
    ASSUME SocialInv, UNCHANGED <<base, socialVars>>
    PROVE  SocialInv'
<1>1. UNCHANGED <<co, raced, flow, held, issued, revoked, vault, cleared, entered>>
    BY DEF base, socialVars, google, world, histories
<1>2. SocialWorld' /\ OwnSession' /\ LogoutTakesToken'
    BY <1>1 DEF SocialInv, SocialWorld, OwnSession, LogoutTakesToken, VaultOf, At, Raced
<1>3. \A c \in Coros : Fits(co[c])'
    BY <1>1 DEF SocialInv, SocialCalled, Fits, Authorized, Emptying, Novel, In, Raced, FlowRaced
<1>4. SocialCalled'
    BY <1>1, <1>3 DEF SocialInv, SocialCalled, Sole, Novel
<1> QED BY <1>2, <1>4 DEF SocialInv

------------------------------------------------------------------------------
(* A SAML login.                                                              *)

SamlCalls == [op : {"login"}, pc : {"assertion", "response", "consume", "lookup", "create", "put", "session"},
              post : Posts, proc : Procs, seen : {"nothing", "absent", "old"}]
SamlFrames == {Idle} \cup SamlCalls

(* How far a login has come: its assertion, its Response and its request are its own. *)
HasAssertion(q) == q.pc \in {"response", "consume", "lookup", "create", "put", "session"}
HasResponse(q) == q.pc \in {"consume", "lookup", "create", "put", "session"}
HasRequest(q) == q.pc \in {"lookup", "create", "put", "session"}

Proven(q) ==
    /\ HasAssertion(q) => /\ ledger[q.post.assertion] = "kept"
                          /\ \A i \in DOMAIN logins : logins[i].assertion # q.post.assertion
    /\ HasResponse(q) => /\ q.post.success
                         /\ \/ Raced("dated", q.post.response)
                            \/ /\ ledger[q.post.response] = "kept"
                               /\ \A i \in DOMAIN logins : logins[i].response # q.post.response
    /\ HasRequest(q) => /\ requests[q.post.request] = "used" /\ Confirms(q.post)
                        /\ \A i \in DOMAIN logins : logins[i].request # q.post.request
    /\ q.pc \in {"assertion", "response"} /\ q.seen = "old" => Raced("dated", IdOf(q))

Admitted(q) ==
    /\ q.pc = "create" /\ q.post.subject \notin Nameless =>
           Raced("first", q.post.subject) \/ (accounts[q.post.subject] = 0 /\ jit)
    /\ q.pc = "put" => /\ backend = "dynamodb"
                       /\ Raced("first", q.post.subject) \/ accounts[q.post.subject] = 0

Apart(q, r) ==
    /\ HasAssertion(q) /\ HasAssertion(r) => q.post.assertion # r.post.assertion
    /\ HasResponse(q) /\ HasResponse(r) /\ q.post.response = r.post.response => Raced("dated", q.post.response)
    /\ HasRequest(q) /\ HasRequest(r) => q.post.request # r.post.request
    /\ /\ \/ q.pc = "create" /\ r.pc \in {"create", "put"} /\ q.post.subject \notin Nameless
          \/ q.pc = "put" /\ r.pc = "put"
       /\ q.post.subject = r.post.subject
       => Raced("first", q.post.subject)

SamlCalled ==
    /\ co \in [Coros -> SamlFrames]
    /\ \A c \in Coros : Proven(co[c]) /\ Admitted(co[c])
    /\ \A c, d \in Coros : c # d => Apart(co[c], co[d])

(* Only what the application records has a date, and never an assertion. *)
LedgerKept ==
    /\ \A i \in Ids : ledger[i] = "dated" => Raced("dated", i)
    /\ \A p \in Posts : ~Raced("dated", p.assertion)

SamlInv ==
    /\ SamlTypes /\ logins \in Seq(Posts) /\ jit \in BOOLEAN
    /\ SamlCalled /\ LedgerKept
    /\ OneSessionEach /\ LoginsRecorded /\ OneAccountEach
    /\ backend = "memory" => \A r \in raced : r[1] = "dated"

LEMMA PostFacts ==
    ASSUME NEW p \in Posts
    PROVE  /\ p.response \in Ids /\ p.assertion \in Ids /\ p.request \in Requests
           /\ p.subject \in Subjects /\ p.success \in BOOLEAN
BY PostsAssumption

LEMMA SamlFrameFacts ==
    ASSUME NEW q \in SamlFrames
    PROVE  /\ q.pc # "idle" => q \in SamlCalls
           /\ q = Idle => q.pc = "idle"
           /\ q \in SamlCalls => q.pc # "idle" /\ q.post \in Posts
BY DEF SamlFrames, SamlCalls, Idle

LEMMA SamlCallFacts ==
    ASSUME SamlInv, NEW c \in Coros, co[c].pc # "idle"
    PROVE  co[c] \in SamlCalls /\ Proven(co[c]) /\ Admitted(co[c]) /\ co[c].post \in Posts
BY SamlFrameFacts DEF SamlInv, SamlCalled

(* The ledger and the requests keep what they had, and overlaps are only noted. *)
Guarded ==
    /\ requests' \in [Requests -> {"none", "live", "past", "used"}]
    /\ \A q \in Requests : requests[q] = "used" => requests'[q] = "used"
    /\ ledger' \in [Ids -> {"none", "dated", "kept"}]
    /\ \A i \in Ids : ledger[i] = "kept" => ledger'[i] = "kept"
    /\ \A i \in Ids : ledger'[i] = "dated" => ledger[i] = "dated"
    /\ raced \subseteq raced'
    /\ \A x \in raced' : x \in raced \/ (x[1] = "first" /\ backend # "memory")
    /\ UNCHANGED <<backend, jit, logins>>

LEMMA ProvenKept ==
    ASSUME SamlInv, Guarded, NEW r \in SamlFrames, Proven(r)
    PROVE  Proven(r)'
<1>1. r.pc # "idle" => r.post \in Posts /\ r.post.assertion \in Ids /\ r.post.response \in Ids /\ r.post.request \in Requests
    BY SamlFrameFacts, PostFacts
<1> QED BY <1>1 DEF Guarded, Proven, HasAssertion, HasResponse, HasRequest, Raced, Confirms, IdOf

LEMMA AdmittedKept ==
    ASSUME NEW r \in SamlFrames, Admitted(r), raced \subseteq raced', UNCHANGED <<backend, jit, accounts>>
    PROVE  Admitted(r)'
BY DEF Admitted, Raced

LEMMA ApartKept ==
    ASSUME NEW q, NEW r, Apart(q, r), raced \subseteq raced'
    PROVE  Apart(q, r)'
BY DEF Apart, HasAssertion, HasResponse, HasRequest, Raced

LEMMA HistoryKept ==
    ASSUME SamlInv, Guarded
    PROVE  /\ LedgerKept' /\ OneSessionEach' /\ LoginsRecorded'
           /\ (backend = "memory" => \A r \in raced : r[1] = "dated")'
<1>1. LedgerKept'
    <2>1. ASSUME NEW p \in Posts PROVE ~Raced("dated", p.assertion)'
        <3>1. <<"dated", p.assertion>>[1] # "first" /\ <<"dated", p.assertion>> \notin raced
            BY DEF SamlInv, LedgerKept, Raced
        <3> QED BY <3>1 DEF Guarded, Raced
    <2> QED BY <2>1 DEF SamlInv, LedgerKept, Guarded, Raced
<1>2. OneSessionEach'
    BY DEF SamlInv, OneSessionEach, Guarded, Raced
<1>3. LoginsRecorded'
    <2>1. ASSUME NEW i \in DOMAIN logins
          PROVE  logins[i].assertion \in Ids /\ logins[i].response \in Ids /\ logins[i].request \in Requests
        BY PostFacts DEF SamlInv
    <2> QED BY <2>1 DEF SamlInv, LoginsRecorded, Guarded, Raced
<1>4. (backend = "memory" => \A r \in raced : r[1] = "dated")'
    BY DEF SamlInv, Guarded
<1> QED BY <1>1, <1>2, <1>3, <1>4

(* A login moves on. *)
LEMMA SamlMove ==
    ASSUME SamlInv, Guarded, NEW c \in Coros, NEW q \in SamlFrames, Become(c, q),
           accounts' \in [Subjects -> Nat], OneAccountEach',
           Proven(q)', Admitted(q)',
           \A d \in Coros : \A r : d # c /\ r = co[d] => Admitted(r)' /\ Apart(q, r)' /\ Apart(r, q)'
    PROVE  SamlInv'
<1>1. co' \in [Coros -> SamlFrames] /\ \A d \in Coros : co'[d] = IF d = c THEN q ELSE co[d]
    BY DEF SamlInv, SamlCalled, Become
<1>2. ASSUME NEW d \in Coros PROVE Proven(co[d])' /\ Admitted(co[d])'
    <2> SUFFICES ASSUME NEW r, r = co'[d] PROVE Proven(r)' /\ Admitted(r)'
        BY DEF Proven, Admitted, HasAssertion, HasResponse, HasRequest, IdOf, Confirms
    <2>1. CASE d = c
        BY <1>1, <2>1
    <2>2. CASE d # c
        BY <1>1, <2>2, ProvenKept DEF SamlInv, SamlCalled
    <2> QED BY <2>1, <2>2
<1>3. ASSUME NEW d \in Coros, NEW e \in Coros, d # e PROVE Apart(co[d], co[e])'
    <2> SUFFICES ASSUME NEW r, NEW s, r = co'[d], s = co'[e] PROVE Apart(r, s)'
        BY DEF Apart, HasAssertion, HasResponse, HasRequest
    <2>1. CASE d = c
        BY <1>1, <1>3, <2>1
    <2>2. CASE e = c
        BY <1>1, <1>3, <2>2
    <2>3. CASE d # c /\ e # c
        BY <1>1, <1>3, <2>3, ApartKept DEF SamlInv, SamlCalled, Guarded
    <2> QED BY <2>1, <2>2, <2>3
<1>4. SamlCalled'
    BY <1>1, <1>2, <1>3 DEF SamlCalled
<1>5. SamlTypes' /\ logins' \in Seq(Posts) /\ jit' \in BOOLEAN
    BY DEF Guarded, SamlInv, SamlTypes
<1> QED BY <1>4, <1>5, HistoryKept DEF SamlInv

(* The same when no account is created. *)
LEMMA SamlGoesOn ==
    ASSUME SamlInv, Guarded, NEW c \in Coros, NEW q \in SamlFrames, Become(c, q), accounts' = accounts,
           turned' = turned, Proven(q)', Admitted(q)',
           \A d \in Coros : \A r : d # c /\ r = co[d] => Apart(q, r)' /\ Apart(r, q)'
    PROVE  SamlInv'
<1>1. accounts' \in [Subjects -> Nat] /\ OneAccountEach'
    BY DEF SamlInv, SamlTypes, OneAccountEach, Guarded, Raced
<1>2. ASSUME NEW d \in Coros, NEW r, r = co[d] PROVE Admitted(r)'
    BY <1>2, AdmittedKept DEF SamlInv, SamlCalled, Guarded
<1> QED BY <1>1, <1>2, SamlMove

LEMMA IdleFits ==
    ASSUME NEW q, q = Idle
    PROVE  /\ q \in SamlFrames /\ Proven(q) /\ Admitted(q) /\ Proven(q)' /\ Admitted(q)'
           /\ \A r : Apart(q, r)' /\ Apart(r, q)'
BY DEF SamlFrames, Idle, Proven, Admitted, Apart, HasAssertion, HasResponse, HasRequest

LEMMA SamlEnds ==
    ASSUME SamlInv, Guarded, NEW c \in Coros, Return(c), accounts' = accounts, turned' = turned
    PROVE  SamlInv'
<1> SUFFICES ASSUME NEW q, q = Idle PROVE SamlInv'
    OBVIOUS
<1> QED BY IdleFits, SamlGoesOn DEF Return

LEMMA SamlStart ==
    ASSUME SamlAtRest, co = [c \in Coros |-> Idle], raced = {}
    PROVE  SamlInv
<1>1. \A c \in Coros : co[c] = Idle /\ co[c].pc = "idle"
    BY DEF Idle
<1>2. SamlCalled
    <2>1. co \in [Coros -> SamlFrames]
        BY DEF SamlFrames
    <2>2. \A c \in Coros : Proven(co[c]) /\ Admitted(co[c])
        BY <1>1 DEF Proven, Admitted, HasAssertion, HasResponse, HasRequest
    <2>3. \A c, d \in Coros : Apart(co[c], co[d])
        BY <1>1 DEF Apart, HasAssertion, HasResponse, HasRequest
    <2> QED BY <2>1, <2>2, <2>3 DEF SamlCalled
<1>3. SamlTypes /\ jit \in BOOLEAN /\ OneAccountEach
    <2>1. PICK n \in {0, 1} : accounts = [s \in Subjects |-> n] /\ jit \in {TRUE, n = 1}
        BY DEF SamlAtRest
    <2>2. \A s \in Subjects : accounts[s] = n /\ ~(n > 1)
        BY <2>1
    <2>3. requests \in [Requests -> {"none", "live", "past", "used"}] /\ ledger \in [Ids -> {"none", "dated", "kept"}]
        <3>1. PICK q \in Requests : requests = [r \in Requests |-> IF r = q THEN "none" ELSE "live"]
            BY DEF SamlAtRest
        <3> QED BY <3>1 DEF SamlAtRest
    <2>4. accounts \in [Subjects -> Nat] /\ turned = {}
        BY <2>1 DEF SamlAtRest
    <2>5. jit \in BOOLEAN
        <3>1. jit = TRUE \/ jit = (n = 1)
            BY <2>1
        <3> QED BY <3>1
    <2> QED BY <2>2, <2>3, <2>4, <2>5 DEF SamlTypes, OneAccountEach
<1>4. logins = <<>> /\ LedgerKept
    BY DEF SamlAtRest, LedgerKept, Raced
<1> QED BY <1>2, <1>3, <1>4 DEF SamlInv, OneSessionEach, LoginsRecorded

LEMMA OverlapFacts ==
    ASSUME NEW c \in Coros, Alone(c), NEW s, NEW ds \in SUBSET Busy(c), Overlap("first", s, ds)
    PROVE  /\ raced \subseteq raced' /\ (ds # {} => Raced("first", s)')
           /\ \A x \in raced' : x \in raced \/ (x[1] = "first" /\ backend # "memory")
BY DEF Overlap, Alone, Raced

LEMMA SendRequestKeeps == ASSUME SamlInv, NEW c \in Coros, SendRequest(c) PROVE SamlInv' /\ area' = area
<1>1. PICK q \in Requests : requests[q] = "none" /\ requests' = [requests EXCEPT ![q] = "live"]
    BY DEF SendRequest
<1>2. UNCHANGED <<area, backend, co, raced, ledger, accounts, jit, logins, turned>>
    BY DEF SendRequest, history
<1>3. Guarded
    BY <1>1, <1>2 DEF Guarded, SamlInv, SamlTypes
<1>4. ASSUME NEW d \in Coros PROVE Proven(co[d])' /\ Admitted(co[d])'
    <2> SUFFICES ASSUME NEW r, r = co[d] PROVE Proven(r)' /\ Admitted(r)'
        BY <1>2 DEF Proven, Admitted, HasAssertion, HasResponse, HasRequest, IdOf, Confirms
    <2> QED BY <1>2, <1>3, ProvenKept, AdmittedKept DEF SamlInv, SamlCalled
<1>5. SamlCalled'
    BY <1>2, <1>4 DEF SamlInv, SamlCalled, Apart, HasAssertion, HasResponse, HasRequest, Raced
<1>6. SamlTypes' /\ OneAccountEach'
    BY <1>2, <1>3 DEF SamlInv, SamlTypes, OneAccountEach, Guarded, Raced
<1> QED BY <1>2, <1>3, <1>5, <1>6, HistoryKept DEF SamlInv

LEMMA SaveResponseIdKeeps == ASSUME SamlInv, NEW c \in Coros, SaveResponseId(c) PROVE SamlInv' /\ area' = area
<1>1. PICK p \in Posts : /\ ledger' = [ledger EXCEPT ![p.response] = "dated"]
                         /\ raced' = raced \cup {<<"dated", p.response>>}
    BY DEF SaveResponseId
<1>2. UNCHANGED <<area, backend, co, requests, accounts, jit, logins, turned>>
    BY DEF SaveResponseId, history
<1>3. /\ ledger' \in [Ids -> {"none", "dated", "kept"}] /\ Raced("dated", p.response)' /\ raced \subseteq raced'
      /\ \A i \in Ids : i # p.response => ledger'[i] = ledger[i]
      /\ \A o \in Posts : o.assertion # p.response
    BY <1>1, PostFacts, PostsAssumption DEF SamlInv, SamlTypes, Raced
<1>4. ASSUME NEW d \in Coros PROVE Proven(co[d])' /\ Admitted(co[d])'
    <2> SUFFICES ASSUME NEW r, r = co[d] PROVE Proven(r)' /\ Admitted(r)'
        BY <1>2 DEF Proven, Admitted, HasAssertion, HasResponse, HasRequest, IdOf, Confirms
    <2>1. r \in SamlFrames /\ Proven(r) /\ Admitted(r)
        BY DEF SamlInv, SamlCalled
    <2>2. r.pc # "idle" => r.post \in Posts /\ r.post.assertion \in Ids /\ r.post.response \in Ids
        BY <2>1, SamlFrameFacts, PostFacts
    <2>3. Proven(r)'
        BY <1>2, <1>3, <2>1, <2>2 DEF Proven, HasAssertion, HasResponse, HasRequest, Raced, Confirms, IdOf
    <2> QED BY <1>2, <1>3, <2>1, <2>3, AdmittedKept
<1>5. SamlCalled'
    BY <1>2, <1>3, <1>4 DEF SamlInv, SamlCalled, Apart, HasAssertion, HasResponse, HasRequest, Raced
<1>6. SamlTypes' /\ OneAccountEach'
    BY <1>2, <1>3 DEF SamlInv, SamlTypes, OneAccountEach, Raced
<1>7. LedgerKept'
    <2>1. ASSUME NEW o \in Posts PROVE ~Raced("dated", o.assertion)'
        BY <1>1, <1>3 DEF SamlInv, LedgerKept, Raced
    <2> QED BY <1>3, <2>1 DEF SamlInv, LedgerKept, Raced
<1>8. OneSessionEach'
    BY <1>2, <1>3 DEF SamlInv, OneSessionEach, Raced
<1>9. LoginsRecorded'
    <2>1. ASSUME NEW i \in DOMAIN logins
          PROVE  /\ logins[i].assertion \in Ids /\ logins[i].response \in Ids
                 /\ logins[i].assertion # p.response
        BY <1>3, PostFacts DEF SamlInv
    <2> QED BY <1>2, <1>3, <2>1 DEF SamlInv, LoginsRecorded, Raced
<1>10. (backend = "memory" => \A r \in raced : r[1] = "dated")'
    BY <1>1, <1>2 DEF SamlInv
<1> QED BY <1>2, <1>5, <1>6, <1>7, <1>8, <1>9, <1>10 DEF SamlInv

LEMMA PostResponseKeeps == ASSUME SamlInv, NEW c \in Coros, PostResponse(c) PROVE SamlInv' /\ area' = area
<1>1. PICK p \in Posts, proc \in Procs :
          /\ Begin(c, [op |-> "login", pc |-> "assertion", post |-> p, proc |-> proc, seen |-> "nothing"])
          /\ UNCHANGED <<area, backend, raced, samlVars>>
    BY ProcsAssumption DEF PostResponse, Reachable
<1> SUFFICES ASSUME NEW q, q = [op |-> "login", pc |-> "assertion", post |-> p, proc |-> proc, seen |-> "nothing"]
             PROVE  SamlInv' /\ area' = area
    OBVIOUS
<1>2. q \in SamlFrames /\ Become(c, q) /\ q.pc = "assertion" /\ q.seen = "nothing"
    BY <1>1 DEF SamlFrames, SamlCalls, Begin
<1>3. Guarded /\ UNCHANGED <<accounts, turned, area>>
    BY <1>1 DEF Guarded, samlVars, SamlInv, SamlTypes
<1>4. Proven(q)' /\ Admitted(q)' /\ \A d \in Coros : \A r : d # c /\ r = co[d] => Apart(q, r)' /\ Apart(r, q)'
    BY <1>2 DEF Proven, Admitted, Apart, HasAssertion, HasResponse, HasRequest
<1> QED BY <1>2, <1>3, <1>4, SamlGoesOn

(* An id that nobody used, or that the application dates, is recorded. *)
LEMMA RecordKeeps ==
    ASSUME SamlInv, NEW c \in Coros, Checking(c), Record(c),
           ledger[IdOf(co[c])] = "none" \/ Raced("dated", IdOf(co[c])),
           UNCHANGED <<backend, raced, requests, accounts, jit, history>>
    PROVE  SamlInv'
<1> SUFFICES ASSUME NEW f, f = co[c], NEW i, i = IdOf(f) PROVE SamlInv'
    OBVIOUS
<1>1. f \in SamlCalls /\ Proven(f) /\ f.post \in Posts /\ f.pc \in {"assertion", "response"}
    BY SamlCallFacts DEF Checking, At
<1>2. i \in Ids /\ f.post.assertion \in Ids /\ f.post.response \in Ids /\ f.post.success \in BOOLEAN
    BY <1>1, PostFacts DEF IdOf
<1>3. /\ ledger' = [ledger EXCEPT ![i] = "kept"] /\ ledger'[i] = "kept"
      /\ \A j \in Ids : j # i => ledger'[j] = ledger[j]
    BY <1>2 DEF Record, SamlInv, SamlTypes
<1>4. Guarded /\ UNCHANGED <<accounts, turned, logins, raced>>
    BY <1>2, <1>3 DEF Guarded, SamlInv, SamlTypes, history
<1>5. ledger[i] = "none" \/ Raced("dated", i)
    OBVIOUS
<1>6. CASE f.pc = "assertion"
    <2> SUFFICES ASSUME NEW q, q = [f EXCEPT !.pc = "response", !.seen = "nothing"] PROVE SamlInv'
        OBVIOUS
    <2>1. /\ q \in SamlFrames /\ q.pc = "response" /\ q.seen = "nothing" /\ q.post = f.post
        BY <1>1 DEF SamlFrames, SamlCalls
    <2>2. Become(c, q)
        BY <1>6 DEF Record
    <2>3. i = f.post.assertion /\ ledger[i] = "none"
        BY <1>1, <1>5, <1>6 DEF IdOf, SamlInv, LedgerKept
    <2>4. \A j \in DOMAIN logins : logins[j].assertion # i
        BY <2>3 DEF SamlInv, LoginsRecorded
    <2>5. Proven(q)' /\ Admitted(q)'
        BY <1>3, <1>4, <2>1, <2>3, <2>4 DEF Proven, Admitted, HasAssertion, HasResponse, HasRequest
    <2>6. ASSUME NEW d \in Coros, NEW r, d # c, r = co[d] PROVE Apart(q, r)' /\ Apart(r, q)'
        <3>1. HasAssertion(r) => ledger[r.post.assertion] = "kept"
            BY <2>6 DEF SamlInv, SamlCalled, Proven
        <3> QED BY <2>1, <2>3, <3>1 DEF Apart, HasAssertion, HasResponse, HasRequest
    <2> QED BY <1>4, <2>1, <2>2, <2>5, <2>6, SamlGoesOn
<1>7. CASE f.pc = "response" /\ f.post.success
    <2> SUFFICES ASSUME NEW q, q = [f EXCEPT !.pc = "consume", !.seen = "nothing"] PROVE SamlInv'
        OBVIOUS
    <2>1. /\ q \in SamlFrames /\ q.pc = "consume" /\ q.seen = "nothing" /\ q.post = f.post
        BY <1>1 DEF SamlFrames, SamlCalls
    <2>2. Become(c, q)
        BY <1>7 DEF Record
    <2>3. i = f.post.response /\ HasAssertion(f)
        BY <1>7 DEF IdOf, HasAssertion
    <2>4. Raced("dated", i) \/ \A j \in DOMAIN logins : logins[j].response # i
        BY <1>5, <2>3 DEF SamlInv, LoginsRecorded
    <2>5. Proven(q)' /\ Admitted(q)'
        <3>1. ledger'[f.post.assertion] = "kept" /\ \A j \in DOMAIN logins : logins[j].assertion # f.post.assertion
            BY <1>1, <1>2, <1>3, <2>3 DEF Proven
        <3> QED BY <1>3, <1>4, <1>7, <2>1, <2>3, <2>4, <3>1
                DEF Proven, Admitted, HasAssertion, HasResponse, HasRequest, Raced
    <2>6. ASSUME NEW d \in Coros, NEW r, d # c, r = co[d] PROVE Apart(q, r)' /\ Apart(r, q)'
        <3>1. /\ Apart(f, r) /\ Apart(r, f)
              /\ HasResponse(r) => Raced("dated", r.post.response) \/ ledger[r.post.response] = "kept"
            BY <2>6 DEF SamlInv, SamlCalled, Proven
        <3> QED BY <1>4, <1>5, <2>1, <2>3, <3>1 DEF Apart, HasAssertion, HasResponse, HasRequest, Raced
    <2> QED BY <1>4, <2>1, <2>2, <2>5, <2>6, SamlGoesOn
<1>8. CASE f.pc = "response" /\ ~f.post.success
    BY <1>4, <1>8, SamlEnds DEF Record, Return
<1> QED BY <1>1, <1>6, <1>7, <1>8

LEMMA CheckIdKeeps == ASSUME SamlInv, NEW c \in Coros, CheckId(c) PROVE SamlInv' /\ area' = area
<1>1. PICK answer \in Found(IdOf(co[c])) : RecordOr(c, answer = "used")
    BY DEF CheckId
<1>2. Checking(c) /\ UNCHANGED <<area, backend, raced, requests, accounts, jit, history>>
    BY DEF CheckId, Continue
<1>3. CASE answer = "used"
    <2>1. Guarded /\ UNCHANGED <<accounts, turned>> /\ Return(c)
        BY <1>1, <1>2, <1>3 DEF RecordOr, Guarded, SamlInv, SamlTypes, history
    <2> QED BY <1>2, <2>1, SamlEnds
<1>4. CASE answer # "used"
    <2>1. co[c].pc # "idle" /\ IdOf(co[c]) \in Ids
        <3>1. co[c].pc \in {"assertion", "response"}
            BY <1>2 DEF Checking, At
        <3> QED BY <3>1, SamlCallFacts, PostFacts DEF IdOf
    <2>2. ledger[IdOf(co[c])] = "none" \/ Raced("dated", IdOf(co[c]))
        BY <1>1, <1>4, <2>1 DEF Found, SamlInv, SamlTypes, LedgerKept
    <2> QED BY <1>1, <1>2, <1>4, <2>2, RecordKeeps DEF RecordOr
<1> QED BY <1>3, <1>4

LEMMA InsertIdKeeps == ASSUME SamlInv, NEW c \in Coros, InsertId(c) PROVE SamlInv' /\ area' = area
<1>1. /\ Checking(c) /\ UNCHANGED <<area, backend, raced, requests, accounts, jit, history>>
      /\ co[c].seen # "nothing"
      /\ RecordOr(c, co[c].seen = "absent" /\ ledger[IdOf(co[c])] # "none")
    BY DEF InsertId, Continue
<1>2. co[c].pc \in {"assertion", "response"} /\ co[c] \in SamlCalls /\ Proven(co[c])
    BY <1>1, SamlCallFacts DEF Checking, At
<1>3. CASE co[c].seen = "absent" /\ ledger[IdOf(co[c])] # "none"
    <2>1. Guarded /\ UNCHANGED <<accounts, turned>> /\ Return(c)
        BY <1>1, <1>3 DEF RecordOr, Guarded, SamlInv, SamlTypes, history
    <2> QED BY <1>1, <2>1, SamlEnds
<1>4. CASE ~(co[c].seen = "absent" /\ ledger[IdOf(co[c])] # "none")
    <2>1. co[c].seen = "old" => Raced("dated", IdOf(co[c]))
        BY <1>2 DEF Proven
    <2>2. ledger[IdOf(co[c])] = "none" \/ Raced("dated", IdOf(co[c]))
        BY <1>1, <1>2, <1>4, <2>1 DEF SamlCalls
    <2> QED BY <1>1, <1>4, <2>2, RecordKeeps DEF RecordOr
<1> QED BY <1>3, <1>4

(* Looking without recording. *)
LEMMA LookKeeps ==
    ASSUME SamlInv, NEW c \in Coros, Checking(c), Guarded, UNCHANGED <<raced, accounts, turned>>,
           NEW answer \in {"absent", "old"}, Become(c, [co[c] EXCEPT !.seen = answer]),
           answer = "old" => Raced("dated", IdOf(co[c]))
    PROVE  SamlInv'
<1> SUFFICES ASSUME NEW f, f = co[c], NEW q, q = [f EXCEPT !.seen = answer] PROVE SamlInv'
    OBVIOUS
<1>1. f \in SamlCalls /\ Proven(f) /\ Admitted(f) /\ f.pc \in {"assertion", "response"}
    BY SamlCallFacts DEF Checking, At
<1>2. q \in SamlFrames /\ q.pc = f.pc /\ q.post = f.post /\ q.seen = answer /\ IdOf(q) = IdOf(f)
    BY <1>1 DEF SamlFrames, SamlCalls, IdOf
<1>3. Proven(f)'
    BY <1>1, ProvenKept DEF SamlFrames
<1>4. Proven(q)' /\ Admitted(q)'
    BY <1>1, <1>2, <1>3 DEF Proven, Admitted, HasAssertion, HasResponse, HasRequest, IdOf, Raced
<1>5. \A d \in Coros : \A r : d # c /\ r = co[d] => Apart(q, r)' /\ Apart(r, q)'
    BY <1>1, <1>2 DEF SamlInv, SamlCalled, Apart, HasAssertion, HasResponse, HasRequest, Raced
<1> QED BY <1>2, <1>4, <1>5, SamlGoesOn

LEMMA SqlSelectIdKeeps == ASSUME SamlInv, NEW c \in Coros, SqlSelectId(c) PROVE SamlInv' /\ area' = area
<1>1. PICK answer \in Found(IdOf(co[c])) :
          IF answer = "used" THEN Return(c) ELSE Become(c, [co[c] EXCEPT !.seen = answer])
    BY DEF SqlSelectId
<1>2. Checking(c) /\ UNCHANGED <<area, backend, raced, samlVars>>
    BY DEF SqlSelectId, Continue
<1>3. Guarded /\ UNCHANGED <<raced, accounts, turned>>
    BY <1>2 DEF Guarded, SamlInv, SamlTypes, samlVars
<1>4. CASE answer = "used"
    BY <1>1, <1>2, <1>3, <1>4, SamlEnds
<1>5. CASE answer # "used"
    <2>1. IdOf(co[c]) \in Ids
        <3>1. co[c].pc \in {"assertion", "response"}
            BY <1>2 DEF Checking, At
        <3> QED BY <3>1, SamlCallFacts, PostFacts DEF IdOf
    <2>2. answer \in {"absent", "old"} /\ (answer = "old" => Raced("dated", IdOf(co[c])))
        BY <1>1, <1>5, <2>1 DEF Found, SamlInv, SamlTypes, LedgerKept
    <2> QED BY <1>1, <1>2, <1>3, <1>5, <2>2, LookKeeps
<1> QED BY <1>4, <1>5

LEMMA MongoDropExpiredKeeps == ASSUME SamlInv, NEW c \in Coros, MongoDropExpired(c) PROVE SamlInv' /\ area' = area
<1>1. PICK answer \in Found(IdOf(co[c])) :
          ledger' = IF answer = "old" THEN [ledger EXCEPT ![IdOf(co[c])] = "none"] ELSE ledger
    BY DEF MongoDropExpired
<1>2. /\ Checking(c) /\ UNCHANGED <<area, backend, raced, requests, accounts, jit, logins, turned>>
      /\ Become(c, [co[c] EXCEPT !.seen = "absent"])
    BY DEF MongoDropExpired, Continue, history
<1>3. IdOf(co[c]) \in Ids
    <2>1. co[c].pc \in {"assertion", "response"}
        BY <1>2 DEF Checking, At
    <2> QED BY <2>1, SamlCallFacts, PostFacts DEF IdOf
<1>4. answer = "old" => ledger[IdOf(co[c])] = "dated"
    BY <1>1, <1>3 DEF Found, SamlInv, SamlTypes
<1>5. Guarded
    BY <1>1, <1>2, <1>3, <1>4 DEF Guarded, SamlInv, SamlTypes
<1> QED BY <1>2, <1>5, LookKeeps

LEMMA ConsumeRequestKeeps == ASSUME SamlInv, NEW c \in Coros, ConsumeRequest(c) PROVE SamlInv' /\ area' = area
<1> SUFFICES ASSUME NEW f, f = co[c], NEW p, p = f.post PROVE SamlInv' /\ area' = area
    OBVIOUS
<1>1. f \in SamlCalls /\ Proven(f) /\ f.pc = "consume" /\ p \in Posts /\ p.request \in Requests
    BY SamlCallFacts, PostFacts DEF ConsumeRequest, At
<1>2. UNCHANGED <<area, backend, raced, ledger, accounts, jit, logins, turned>>
    BY DEF ConsumeRequest, Continue, history
<1>3. PICK request \in IF requests[p.request] = "live" THEN {"used", "past"} ELSE {requests[p.request]} :
          /\ requests' = [requests EXCEPT ![p.request] = request]
          /\ \/ /\ requests[p.request] = "live" /\ request = "used" /\ Confirms(p)
                /\ Goto(c, IF p.subject \in Nameless THEN "create" ELSE "lookup")
             \/ Return(c)
    BY DEF ConsumeRequest
<1>4. Guarded /\ requests'[p.request] = request
    BY <1>1, <1>2, <1>3 DEF Guarded, SamlInv, SamlTypes
<1>5. CASE Return(c)
    BY <1>2, <1>4, <1>5, SamlEnds
<1>6. CASE /\ requests[p.request] = "live" /\ request = "used" /\ Confirms(p)
           /\ Goto(c, IF p.subject \in Nameless THEN "create" ELSE "lookup")
    <2> SUFFICES ASSUME NEW step, step = IF p.subject \in Nameless THEN "create" ELSE "lookup",
                        NEW q, q = [f EXCEPT !.pc = step]
                 PROVE  SamlInv'
        BY <1>2
    <2>1. q \in SamlFrames /\ q.pc = step /\ q.post = p /\ step \in {"create", "lookup"} /\ Become(c, q)
        BY <1>1, <1>6 DEF SamlFrames, SamlCalls, Goto
    <2>2. \A j \in DOMAIN logins : logins[j].request # p.request
        BY <1>6 DEF SamlInv, LoginsRecorded
    <2>3. Proven(f)'
        BY <1>1, <1>4, ProvenKept DEF SamlFrames
    <2>4. Proven(q)' /\ Admitted(q)'
        BY <1>1, <1>2, <1>4, <1>6, <2>1, <2>2, <2>3
        DEF Proven, Admitted, HasAssertion, HasResponse, HasRequest, Raced, Confirms
    <2>5. ASSUME NEW d \in Coros, NEW r, d # c, r = co[d] PROVE Apart(q, r)' /\ Apart(r, q)'
        <3>1. /\ Apart(f, r) /\ Apart(r, f) /\ (HasRequest(r) => requests[r.post.request] = "used")
            BY <2>5 DEF SamlInv, SamlCalled, Proven
        <3> QED BY <1>1, <1>2, <1>6, <2>1, <3>1 DEF Apart, HasAssertion, HasResponse, HasRequest, Raced
    <2> QED BY <1>2, <1>4, <2>1, <2>4, <2>5, SamlGoesOn
<1> QED BY <1>2, <1>3, <1>5, <1>6

(* A login past its request goes on with what it has. *)
LEMMA StillProven ==
    ASSUME SamlInv, Guarded, NEW f \in SamlCalls, Proven(f), HasRequest(f),
           NEW q, q.post = f.post, q.pc \in {"create", "put", "session"}
    PROVE  Proven(q)'
<1>1. Proven(f)'
    BY ProvenKept DEF SamlFrames
<1> QED BY <1>1 DEF Proven, HasAssertion, HasResponse, HasRequest, Confirms

LEMMA StillApart ==
    ASSUME NEW f, NEW r, NEW q, HasRequest(f), Apart(f, r), Apart(r, f), raced \subseteq raced',
           q.post = f.post, q.pc \in {"create", "put", "session"},
           q.pc \in {"create", "put"} /\ r.pc \in {"create", "put"} /\ r.post.subject = f.post.subject =>
               \/ Raced("first", f.post.subject)'
               \/ q.pc = "create" /\ f.post.subject \in Nameless
               \/ q.pc = "put" /\ r.pc = "create" /\ f.post.subject \in Nameless
    PROVE  Apart(q, r)' /\ Apart(r, q)'
BY DEF Apart, HasAssertion, HasResponse, HasRequest, Raced

LEMMA FindUserKeeps == ASSUME SamlInv, NEW c \in Coros, Alone(c), FindUser(c) PROVE SamlInv' /\ area' = area
<1> SUFFICES ASSUME NEW f, f = co[c], NEW p, p = f.post PROVE SamlInv' /\ area' = area
    OBVIOUS
<1>1. f \in SamlCalls /\ Proven(f) /\ f.pc = "lookup" /\ p \in Posts /\ p.subject \in Subjects
    BY SamlCallFacts, PostFacts DEF FindUser, At
<1>2. area' = area /\ UNCHANGED samlVars /\ backend' = backend
    BY DEF FindUser, Continue
<1>3. /\ raced \subseteq raced' /\ \A x \in raced' : x \in raced \/ (x[1] = "first" /\ backend # "memory")
      /\ {d \in Busy(c) : co[d].pc \in {"create", "put"} /\ co[d].post.subject = p.subject} # {} => Raced("first", p.subject)'
    BY OverlapFacts DEF FindUser
<1>4. Guarded /\ UNCHANGED <<accounts, turned>>
    BY <1>2, <1>3 DEF Guarded, samlVars, SamlInv, SamlTypes
<1>5. CASE Return(c)
    BY <1>2, <1>4, <1>5, SamlEnds
<1>6. CASE ~Return(c)
    <2> SUFFICES ASSUME NEW step, step = IF accounts[p.subject] > 0 THEN "session" ELSE "create",
                        NEW q, q = [f EXCEPT !.pc = step]
                 PROVE  SamlInv'
        BY <1>2
    <2>1. q \in SamlFrames /\ q.pc = step /\ q.post = p /\ step \in {"create", "session"}
        BY <1>1 DEF SamlFrames, SamlCalls
    <2>2. Become(c, q) /\ (step = "create" => jit /\ ~(accounts[p.subject] > 0))
        BY <1>6 DEF FindUser, Goto
    <2>3. Proven(q)'
        BY <1>1, <1>4, <2>1, StillProven DEF HasRequest
    <2>4. Admitted(q)'
        BY <1>1, <1>4, <2>1, <2>2 DEF Admitted, Guarded, SamlInv, SamlTypes
    <2>5. ASSUME NEW d \in Coros, NEW r, d # c, r = co[d] PROVE Apart(q, r)' /\ Apart(r, q)'
        <3>1. Apart(f, r) /\ Apart(r, f)
            BY <2>5 DEF SamlInv, SamlCalled
        <3>2. r.pc \in {"create", "put"} /\ r.post.subject = p.subject => Raced("first", p.subject)'
            BY <1>3, <2>5 DEF Busy, At
        <3>3. HasRequest(f) /\ q.post = f.post /\ f.post.subject = p.subject /\ q.pc \in {"create", "session"}
            BY <1>1, <2>1 DEF HasRequest
        <3> QED BY <1>3, <3>1, <3>2, <3>3, StillApart
    <2> QED BY <1>4, <2>1, <2>2, <2>3, <2>4, <2>5, SamlGoesOn
<1> QED BY <1>2, <1>5, <1>6

(* A refusal is justified by the account that was found. *)
LEMMA RefuseKeeps ==
    ASSUME SamlInv, NEW c \in Coros, Refuse(c), Guarded, accounts' = accounts, co[c].pc = "create"
    PROVE  SamlInv'
<1> SUFFICES ASSUME NEW f, f = co[c], NEW q, q = Idle, NEW s, s = f.post.subject PROVE SamlInv'
    OBVIOUS
<1>1. f \in SamlCalls /\ Admitted(f) /\ s \in Subjects
    BY SamlCallFacts, PostFacts
<1>2. q \in SamlFrames /\ Proven(q)' /\ Admitted(q)' /\ \A r : Apart(q, r)' /\ Apart(r, q)'
    BY IdleFits
<1>3. Become(c, q) /\ turned' = IF accounts[s] > 0 THEN turned \cup {s} ELSE turned
    BY DEF Refuse, Return
<1>4. accounts[s] > 0 => Raced("first", s) \/ s \in Nameless
    BY <1>1 DEF Admitted
<1>5. OneAccountEach'
    BY <1>3, <1>4 DEF SamlInv, OneAccountEach, Guarded, Raced
<1>6. ASSUME NEW d \in Coros, NEW r, r = co[d] PROVE Admitted(r)'
    BY <1>6, AdmittedKept DEF SamlInv, SamlCalled, Guarded
<1>7. accounts' \in [Subjects -> Nat]
    BY DEF SamlInv, SamlTypes
<1> QED BY <1>2, <1>3, <1>5, <1>6, <1>7, SamlMove

(* An account is created: who was about to create it too has been noted. *)
LEMMA AddUserKeeps ==
    ASSUME SamlInv, NEW c \in Coros, AddUser(c), Goto(c, "session"), Guarded, turned' = turned, raced' = raced,
           \/ co[c].pc = "create" /\ backend # "dynamodb" /\ accounts[co[c].post.subject] = 0
           \/ co[c].pc = "put"
    PROVE  SamlInv'
<1> SUFFICES ASSUME NEW f, f = co[c], NEW q, q = [f EXCEPT !.pc = "session"], NEW s, s = f.post.subject PROVE SamlInv'
    OBVIOUS
<1>1. f \in SamlCalls /\ Proven(f) /\ Admitted(f) /\ s \in Subjects /\ HasRequest(f)
    BY SamlCallFacts, PostFacts DEF HasRequest
<1>2. q \in SamlFrames /\ q.pc = "session" /\ q.post = f.post /\ Become(c, q)
    BY <1>1 DEF SamlFrames, SamlCalls, Goto
<1>3. /\ accounts' \in [Subjects -> Nat] /\ accounts'[s] = accounts[s] + 1
      /\ \A t \in Subjects : t # s => accounts'[t] = accounts[t]
    BY <1>1 DEF AddUser, SamlInv, SamlTypes
<1>4. accounts[s] = 0 \/ (backend = "dynamodb" /\ Raced("first", s))
    BY DEF Admitted, SamlInv, SamlCalled
<1>5. OneAccountEach'
    <2>1. ASSUME NEW t \in Subjects, accounts'[t] > 1 PROVE backend = "dynamodb" /\ Raced("first", t)
        <3>1. CASE t = s
            BY <1>3, <1>4, <2>1, <3>1
        <3>2. CASE t # s
            BY <1>3, <2>1, <3>2 DEF SamlInv, OneAccountEach
        <3> QED BY <3>1, <3>2
    <2> QED BY <2>1 DEF SamlInv, OneAccountEach, Guarded, Raced
<1>6. Proven(q)' /\ Admitted(q)'
    BY <1>1, <1>2, StillProven DEF Admitted
<1>7. ASSUME NEW d \in Coros, NEW r, d # c, r = co[d] PROVE Admitted(r)' /\ Apart(q, r)' /\ Apart(r, q)'
    <2>1. Apart(f, r) /\ Apart(r, f) /\ Admitted(r) /\ (r.pc # "idle" => r.post.subject \in Subjects)
        BY <1>7, SamlFrameFacts, PostFacts DEF SamlInv, SamlCalled
    <2>2. Apart(q, r)' /\ Apart(r, q)'
        BY <1>1, <1>2, <2>1, StillApart
    <2>3. f.pc = "put" \/ (f.pc = "create" /\ backend # "dynamodb")
        OBVIOUS
    <2>4. CASE r.pc \notin {"create", "put"}
        BY <2>2, <2>4 DEF Admitted
    <2>5. CASE r.pc \in {"create", "put"} /\ r.post.subject = s
        <3>1. r.pc = "put" => backend = "dynamodb" /\ f.pc = "put"
            BY <2>1, <2>3 DEF Admitted
        <3>2. Raced("first", s) \/ (r.pc = "create" /\ s \in Nameless)
            BY <2>1, <2>3, <2>5, <3>1 DEF Apart
        <3> QED BY <2>2, <2>5, <3>1, <3>2 DEF Admitted, Guarded, Raced
    <2>6. CASE r.pc \in {"create", "put"} /\ r.post.subject # s
        <3>1. accounts'[r.post.subject] = accounts[r.post.subject]
            BY <1>3, <2>1, <2>6
        <3> QED BY <2>1, <2>2, <3>1 DEF Admitted, Guarded, Raced
    <2> QED BY <2>4, <2>5, <2>6
<1> QED BY <1>2, <1>3, <1>5, <1>6, <1>7, SamlMove

LEMMA CreateUserKeeps == ASSUME SamlInv, NEW c \in Coros, CreateUser(c) PROVE SamlInv' /\ area' = area
<1>1. /\ UNCHANGED <<area, backend, raced, requests, ledger, jit, logins>>
      /\ co[c].pc = "create" /\ backend # "dynamodb"
    BY DEF CreateUser, Continue, At
<1>2. Guarded
    BY <1>1 DEF Guarded, SamlInv, SamlTypes
<1>3. CASE Creatable(c)
    BY <1>1, <1>2, <1>3, AddUserKeeps DEF CreateUser, Creatable
<1>4. CASE ~Creatable(c)
    BY <1>1, <1>2, <1>4, RefuseKeeps DEF CreateUser
<1> QED BY <1>3, <1>4

LEMMA DynamoFindUserKeeps ==
    ASSUME SamlInv, NEW c \in Coros, Alone(c), DynamoFindUser(c) PROVE SamlInv' /\ area' = area
<1> SUFFICES ASSUME NEW f, f = co[c], NEW s, s = f.post.subject PROVE SamlInv' /\ area' = area
    OBVIOUS
<1>1. f \in SamlCalls /\ Proven(f) /\ f.pc = "create" /\ s \in Subjects /\ backend = "dynamodb"
    BY SamlCallFacts, PostFacts DEF DynamoFindUser, At
<1>2. UNCHANGED <<area, backend, requests, ledger, accounts, jit, logins>>
    BY DEF DynamoFindUser, Continue, tables
<1>3. /\ raced \subseteq raced' /\ \A x \in raced' : x \in raced \/ (x[1] = "first" /\ backend # "memory")
      /\ {d \in Busy(c) : At(d, "put") /\ co[d].post.subject = s} # {} => Raced("first", s)'
    BY OverlapFacts DEF DynamoFindUser
<1>4. Guarded
    BY <1>2, <1>3 DEF Guarded, SamlInv, SamlTypes
<1>5. CASE ~Creatable(c)
    BY <1>1, <1>2, <1>4, <1>5, RefuseKeeps DEF DynamoFindUser
<1>6. CASE Creatable(c)
    <2> SUFFICES ASSUME NEW q, q = [f EXCEPT !.pc = "put"] PROVE SamlInv'
        BY <1>2
    <2>1. q \in SamlFrames /\ q.pc = "put" /\ q.post = f.post /\ Become(c, q) /\ turned' = turned
        BY <1>1, <1>6 DEF SamlFrames, SamlCalls, Goto, DynamoFindUser
    <2>2. Proven(q)'
        BY <1>1, <1>4, <2>1, StillProven DEF HasRequest
    <2>3. Admitted(q)'
        BY <1>1, <1>2, <1>6, <2>1 DEF Admitted, Creatable
    <2>4. ASSUME NEW d \in Coros, NEW r, d # c, r = co[d] PROVE Apart(q, r)' /\ Apart(r, q)'
        <3>1. Apart(f, r) /\ Apart(r, f)
            BY <2>4 DEF SamlInv, SamlCalled
        <3>2. r.pc = "put" /\ r.post.subject = s => Raced("first", s)'
            BY <1>3, <2>4 DEF Busy, At
        <3>3. r.pc = "create" /\ r.post.subject = s => Raced("first", s)' \/ s \in Nameless
            BY <1>1, <1>3, <3>1 DEF Apart, Raced
        <3>4. HasRequest(f) /\ q.post = f.post /\ f.post.subject = s /\ q.pc = "put"
            BY <1>1, <2>1 DEF HasRequest
        <3> QED BY <1>3, <3>1, <3>2, <3>3, <3>4, StillApart
    <2> QED BY <1>2, <1>4, <2>1, <2>2, <2>3, <2>4, SamlGoesOn
<1> QED BY <1>5, <1>6

LEMMA DynamoPutUserKeeps == ASSUME SamlInv, NEW c \in Coros, DynamoPutUser(c) PROVE SamlInv' /\ area' = area
<1>1. UNCHANGED <<area, backend, raced, requests, ledger, jit, logins, turned>> /\ co[c].pc = "put"
    BY DEF DynamoPutUser, Continue, At, history
<1>2. Guarded
    BY <1>1 DEF Guarded, SamlInv, SamlTypes
<1> QED BY <1>1, <1>2, AddUserKeeps DEF DynamoPutUser

LEMMA CreateSessionKeeps == ASSUME SamlInv, NEW c \in Coros, CreateSession(c) PROVE SamlInv' /\ area' = area
<1> SUFFICES ASSUME NEW f, f = co[c], NEW p, p = f.post PROVE SamlInv' /\ area' = area
    OBVIOUS
<1>1. f \in SamlCalls /\ Proven(f) /\ f.pc = "session" /\ p \in Posts
    BY SamlCallFacts DEF CreateSession, At
<1>2. /\ UNCHANGED <<area, backend, raced, requests, ledger, accounts, jit, turned>>
      /\ logins' = Append(logins, p) /\ Return(c)
    BY DEF CreateSession, Continue, tables
<1>3. co' \in [Coros -> SamlFrames] /\ \A d \in Coros : co'[d] = IF d = c THEN Idle ELSE co[d]
    BY <1>2 DEF SamlInv, SamlCalled, Return, Become, SamlFrames
<1>4. /\ logins' \in Seq(Posts) /\ DOMAIN logins = 1..Len(logins) /\ DOMAIN logins' = 1..(Len(logins) + 1)
      /\ Len(logins) \in Nat /\ logins'[Len(logins) + 1] = p
      /\ \A j \in 1..Len(logins) : logins'[j] = logins[j]
    BY <1>1, <1>2 DEF SamlInv
<1> SUFFICES ASSUME NEW n, n = Len(logins) + 1 PROVE SamlInv'
    BY <1>2
<1>5. /\ DOMAIN logins' = DOMAIN logins \cup {n} /\ n \notin DOMAIN logins /\ logins'[n] = p
      /\ \A j \in DOMAIN logins : logins'[j] = logins[j]
    BY <1>4
<1>6. ASSUME NEW d \in Coros PROVE Proven(co[d])' /\ Admitted(co[d])'
    <2> SUFFICES ASSUME NEW r, r = co'[d] PROVE Proven(r)' /\ Admitted(r)'
        BY DEF Proven, Admitted, HasAssertion, HasResponse, HasRequest, IdOf, Confirms
    <2>1. CASE d = c
        BY <1>3, <2>1, IdleFits
    <2>2. CASE d # c
        <3>1. r = co[d] /\ Proven(r) /\ Admitted(r) /\ Apart(f, r) /\ Apart(r, f) /\ r \in SamlFrames
            BY <1>3, <2>2 DEF SamlInv, SamlCalled
        <3>2. Admitted(r)'
            BY <1>2, <3>1, AdmittedKept
        <3>3. Proven(r)'
            BY <1>1, <1>2, <1>5, <3>1 DEF Proven, Apart, HasAssertion, HasResponse, HasRequest, Raced, Confirms, IdOf
        <3> QED BY <3>2, <3>3
    <2> QED BY <2>1, <2>2
<1>7. ASSUME NEW d \in Coros, NEW e \in Coros, d # e PROVE Apart(co[d], co[e])'
    <2> SUFFICES ASSUME NEW r, NEW s, r = co'[d], s = co'[e] PROVE Apart(r, s)'
        BY DEF Apart, HasAssertion, HasResponse, HasRequest
    <2> QED BY <1>2, <1>3, <1>7, IdleFits, ApartKept DEF SamlInv, SamlCalled
<1>8. SamlCalled'
    BY <1>3, <1>6, <1>7 DEF SamlCalled
<1>9. SamlTypes' /\ LedgerKept' /\ OneAccountEach' /\ jit' \in BOOLEAN /\ (backend = "memory" => \A r \in raced : r[1] = "dated")'
    BY <1>2 DEF SamlInv, SamlTypes, LedgerKept, OneAccountEach, Raced
<1>10. LoginsRecorded'
    <2>1. /\ requests[p.request] = "used" /\ ledger[p.assertion] = "kept" /\ p.success
          /\ ledger[p.response] = "kept" \/ Raced("dated", p.response)
          /\ p.confirms \in {None, p.request}
        BY <1>1 DEF Proven, HasAssertion, HasResponse, HasRequest, Confirms
    <2> SUFFICES ASSUME NEW i \in DOMAIN logins'
                 PROVE  /\ requests[logins'[i].request] = "used" /\ ledger[logins'[i].assertion] = "kept"
                        /\ ledger[logins'[i].response] = "kept" \/ Raced("dated", logins'[i].response)
                        /\ logins'[i].confirms \in {None, logins'[i].request} /\ logins'[i].success
        BY <1>2 DEF LoginsRecorded, Raced
    <2>2. CASE i = n
        BY <1>5, <2>1, <2>2
    <2>3. CASE i \in DOMAIN logins
        BY <1>5, <2>3 DEF SamlInv, LoginsRecorded
    <2> QED BY <1>5, <2>2, <2>3
<1>11. \A j \in DOMAIN logins :
          /\ logins[j].assertion # p.assertion /\ logins[j].request # p.request
          /\ logins[j].response # p.response \/ Raced("dated", p.response)
    BY <1>1 DEF Proven, HasAssertion, HasResponse, HasRequest
<1>12. OneSessionEach'
    <2> SUFFICES ASSUME NEW i \in DOMAIN logins', NEW j \in DOMAIN logins', i < j
                 PROVE  /\ logins'[i].assertion # logins'[j].assertion /\ logins'[i].request # logins'[j].request
                        /\ logins'[i].response # logins'[j].response \/ Raced("dated", logins'[i].response)
        BY <1>2 DEF OneSessionEach, Raced
    <2>1. CASE j = n
        BY <1>4, <1>5, <1>11, <2>1
    <2>2. CASE j # n
        <3>1. i \in DOMAIN logins /\ j \in DOMAIN logins
            BY <1>4, <2>2
        <3> QED BY <1>5, <3>1 DEF SamlInv, OneSessionEach
    <2> QED BY <2>1, <2>2
<1> QED BY <1>2, <1>4, <1>8, <1>9, <1>10, <1>12 DEF SamlInv

LEMMA LoginDiesKeeps == ASSUME SamlInv, NEW c \in Coros, LoginDies(c) PROVE SamlInv' /\ area' = area
<1>1. Guarded /\ UNCHANGED <<area, accounts, turned>> /\ Return(c)
    BY DEF LoginDies, Continue, samlVars, Guarded, SamlInv, SamlTypes
<1> QED BY <1>1, SamlEnds

LEMMA SamlStep ==
    ASSUME SamlInv, SamlNext
    PROVE  SamlInv' /\ area' = area
<1>1. ASSUME NEW c \in Coros, LoginDies(c) PROVE SamlInv' /\ area' = area
    BY <1>1, LoginDiesKeeps
<1>2. ASSUME NEW c \in Coros, Alone(c),
             \/ SendRequest(c) \/ SaveResponseId(c) \/ PostResponse(c)
             \/ MemoryCheckId(c) \/ DynamoCheckId(c) \/ SqlSelectId(c) \/ SqlInsertId(c)
             \/ MongoDropExpired(c) \/ MongoInsertId(c)
      PROVE  SamlInv' /\ area' = area
    BY <1>2, SendRequestKeeps, SaveResponseIdKeeps, PostResponseKeeps, CheckIdKeeps, InsertIdKeeps,
       SqlSelectIdKeeps, MongoDropExpiredKeeps
       DEF MemoryCheckId, DynamoCheckId, SqlInsertId, MongoInsertId
<1>3. ASSUME NEW c \in Coros, Alone(c),
             \/ MemoryConsume(c) \/ SqlConsume(c) \/ MongoConsume(c) \/ DynamoConsume(c)
             \/ FindUser(c) \/ CreateUser(c) \/ DynamoFindUser(c) \/ DynamoPutUser(c)
             \/ CreateSession(c)
      PROVE  SamlInv' /\ area' = area
    BY <1>3, ConsumeRequestKeeps, FindUserKeeps, CreateUserKeeps, DynamoFindUserKeeps, DynamoPutUserKeeps,
       CreateSessionKeeps
       DEF MemoryConsume, SqlConsume, MongoConsume, DynamoConsume
<1> QED BY <1>1, <1>2, <1>3 DEF SamlNext

LEMMA SamlSafe == SamlInv => SamlSound
BY DEF SamlInv, SamlSound

LEMMA SamlStill ==
    ASSUME SamlInv, UNCHANGED <<base, samlVars>>
    PROVE  SamlInv'
BY DEF base, samlVars, SamlInv, SamlTypes, SamlCalled, LedgerKept, OneSessionEach, LoginsRecorded, OneAccountEach,
   Proven, Admitted, Apart, HasAssertion, HasResponse, HasRequest, Raced, Confirms, IdOf

------------------------------------------------------------------------------
(* The registry of OIDC providers.                                            *)

SaveFrames == [op : {"save"}, pc : {"save", "put"}, old : Provider, new : Provider]
UpdateFrames == [op : {"update"}, pc : {"write", "move", "drop"}, old : Provider, upd : Updates, new : Provider]
ProviderFrames == {Idle} \cup SaveFrames \cup UpdateFrames

Midway(q) == q.pc \in {"write", "put", "move", "drop"}
RowsOf(i) == {p \in providers : p.id = i}
Dirty(i) == Raced("moved", i) \/ Raced("update", i)
Shares(q, r) ==
    \/ q.old.issuer \in {r.old.issuer, r.new.issuer}
    \/ q.new.issuer \in {r.old.issuer, r.new.issuer}

(* What a request holds is what it read: a row that is about to be inserted has  *)
(* no predecessor, and one that is updated is still there.                        *)
Shaped(q) ==
    /\ q.op = "save" => q.old = q.new
    /\ q.op = "update" => q.old.id = q.new.id /\ q.new = Merged(q.old, q.upd)
    /\ q.op = "update" /\ backend = "dynamodb" => (q.pc = "write" <=> q.old.issuer = q.new.issuer)
    /\ q.pc \in {"put", "move", "drop"} => backend = "dynamodb"
    /\ backend = "memory" => q.op # "update"
Fresh(q) ==
    /\ q.op = "save" => \A p \in providers : p.id # q.new.id
    /\ q.op # "none" => q.new.id \in minted
Steady(q) ==
    backend = "dynamodb" /\ q.op = "update" /\ ~Dirty(q.new.id) =>
        RowsOf(q.new.id) = IF q.pc = "drop" THEN {q.old, q.new} ELSE {q.old}
Own(q) ==
    backend = "dynamodb" /\ q.op = "update" =>
        \A p \in providers : p.issuer = q.old.issuer => p.id = q.new.id \/ Dirty(p.id)
SlugClear(q) ==
    backend = "dynamodb" /\ Midway(q) =>
        \A p \in providers : p.slug = q.new.slug /\ p.id # q.new.id =>
            Raced("slug", p.slug) \/ Doubled(p.id)

Separate(q, r) ==
    /\ q.op = "save" /\ r.op # "none" => q.new.id # r.new.id
    /\ backend = "dynamodb" /\ Midway(q) /\ Midway(r) =>
           /\ q.new.slug = r.new.slug /\ q.new.id # r.new.id => Raced("slug", q.new.slug)
           /\ q.new.id = r.new.id \/ Shares(q, r) => Raced("update", q.new.id) /\ Raced("update", r.new.id)

Requested(q) == Shaped(q) /\ Fresh(q) /\ Steady(q) /\ Own(q) /\ SlugClear(q)

Strict ==
    backend # "dynamodb" => \A p, q \in providers : p # q => p.id # q.id /\ p.slug # q.slug

Registry ==
    /\ providers \subseteq Provider /\ minted \subseteq ProviderIds
    /\ returned \in [ProviderIds -> Provider \cup {None}]
    /\ \A p \in providers : p.id \in minted

ProvidersInv ==
    /\ backend \in Backends
    /\ Registry
    /\ co \in [Coros -> ProviderFrames]
    /\ \A c \in Coros : Requested(co[c])
    /\ \A c, d \in Coros : c # d => Separate(co[c], co[d])
    /\ ProvidersDiffer /\ AsReturned /\ Strict
    /\ backend = "memory" => \A r \in raced : r[1] = "half"

LEMMA ProviderFrameFacts ==
    ASSUME NEW q \in ProviderFrames
    PROVE  /\ q.op = "none" <=> q.pc = "idle"
           /\ q.op # "none" => q.old \in Provider /\ q.new \in Provider /\ q.new.id \in ProviderIds
           /\ q.op = "save" <=> q.pc \in {"save", "put"}
           /\ q.op = "update" <=> q.pc \in {"write", "move", "drop"}
           /\ q.op = "update" => q.upd \in Updates
           /\ q.op \in {"none", "save", "update"}
<1>1. CASE q = Idle
    BY <1>1 DEF Idle
<1>2. CASE q \in SaveFrames
    BY <1>2 DEF SaveFrames, Provider
<1>3. CASE q \in UpdateFrames
    BY <1>3 DEF UpdateFrames, Provider
<1> QED BY <1>1, <1>2, <1>3 DEF ProviderFrames

LEMMA MergedFacts ==
    ASSUME NEW current \in Provider, NEW upd \in Updates
    PROVE  /\ Merged(current, upd) \in Provider /\ Merged(current, upd).id = current.id
           /\ Merged(current, upd).issuer = IF upd.issuer = None THEN current.issuer ELSE upd.issuer
           /\ Merged(current, upd).slug = IF upd.slug = None THEN current.slug ELSE upd.slug
BY DEF Merged, Provider, Updates

(* Two requests that are under way at once are noted. *)
LEMMA CrossedFacts ==
    ASSUME NEW c \in Coros, NEW f, Crossed(c, f)
    PROVE  /\ raced \subseteq raced'
           /\ \A x \in raced' : x \in raced \/ x[1] \in {"slug", "update"}
           /\ \A d \in Coros : \A r : d # c /\ r = co[d] /\ Midway(r) =>
                  /\ f.new.slug = r.new.slug /\ f.new.id # r.new.id => Raced("slug", f.new.slug)'
                  /\ f.new.id = r.new.id \/ (backend = "dynamodb" /\ (Shares(f, r) \/ Shares(r, f))) =>
                         Raced("update", f.new.id)' /\ Raced("update", r.new.id)'
<1>1. raced \subseteq raced' /\ \A x \in raced' : x \in raced \/ x[1] \in {"slug", "update"}
    BY DEF Crossed
<1>2. ASSUME NEW d \in Coros, d # c, Midway(co[d])
      PROVE  /\ d \in Underway(c)
             /\ f.new.slug = co[d].new.slug /\ f.new.id # co[d].new.id => d \in SameSlug(c, f.new)
             /\ f.new.id = co[d].new.id => d \in SameItem(c, f)
             /\ backend = "dynamodb" /\ (Shares(f, co[d]) \/ Shares(co[d], f)) => d \in SameItem(c, f)
    <2>1. d \in Underway(c)
        BY <1>2 DEF Underway, Busy, At, Midway
    <2> QED BY <2>1 DEF SameSlug, SameItem, Keys, Shares
<1>3. ASSUME NEW d \in SameSlug(c, f.new) PROVE Raced("slug", f.new.slug)'
    BY DEF Crossed, Raced
<1>4. ASSUME NEW d \in SameItem(c, f), NEW r, r = co[d]
      PROVE  Raced("update", f.new.id)' /\ Raced("update", r.new.id)'
    BY <1>4 DEF Crossed, Raced
<1> QED BY <1>1, <1>2, <1>3, <1>4

LEMMA DoubledKept ==
    ASSUME NEW c \in Coros, NEW f, f = co[c], NEW q, NEW j, Become(c, q), co \in [Coros -> ProviderFrames],
           raced \subseteq raced', f.pc # "drop" \/ Raced("moved", f.new.id)', Doubled(j)
    PROVE  Doubled(j)'
<1>1. \A d \in Coros : d # c => co'[d] = co[d]
    BY DEF Become
<1>2. CASE Dirty(j)
    BY <1>2 DEF Dirty, Doubled, Raced
<1>3. CASE Moving(j)
    <2>1. PICK d \in Coros : co[d].pc = "drop" /\ co[d].new.id = j
        BY <1>3 DEF Moving, At
    <2>2. CASE d = c
        BY <2>1, <2>2 DEF Doubled, Raced
    <2>3. CASE d # c
        <3>1. co'[d].pc = "drop" /\ co'[d].new.id = j
            BY <1>1, <2>1, <2>3
        <3>2. Moving(j)'
            BY <3>1 DEF Moving, At
        <3> QED BY <3>2 DEF Doubled
    <2> QED BY <2>2, <2>3
<1> QED BY <1>2, <1>3 DEF Doubled, Dirty

(* The other requests, when no row changes. *)
LEMMA RequestedKept ==
    ASSUME NEW r \in ProviderFrames, Requested(r), UNCHANGED <<backend, providers>>, minted \subseteq minted',
           raced \subseteq raced', \A j : Doubled(j) => Doubled(j)'
    PROVE  Requested(r)'
<1>1. Shaped(r)' /\ Fresh(r)'
    BY DEF Requested, Shaped, Fresh
<1>2. Steady(r)' /\ Own(r)'
    BY DEF Requested, Steady, Own, Dirty, Raced, RowsOf
<1>3. SlugClear(r)'
    BY DEF Requested, SlugClear, Raced, Midway
<1> QED BY <1>1, <1>2, <1>3 DEF Requested

LEMMA SeparateKept ==
    ASSUME NEW q, NEW r, Separate(q, r), backend' = backend, raced \subseteq raced'
    PROVE  Separate(q, r)'
BY DEF Separate, Raced, Midway, Shares

LEMMA RegistryKept ==
    ASSUME ProvidersInv, UNCHANGED <<backend, providers, returned>>, raced \subseteq raced',
           minted \subseteq minted', minted' \subseteq ProviderIds, \A j : Doubled(j) => Doubled(j)'
    PROVE  Registry' /\ ProvidersDiffer' /\ AsReturned' /\ Strict'
<1>1. Registry' /\ Strict'
    BY DEF ProvidersInv, Registry, Strict
<1>2. ProvidersDiffer'
    BY DEF ProvidersInv, ProvidersDiffer, Raced
<1>3. AsReturned'
    <2> SUFFICES ASSUME NEW i \in ProviderIds, returned[i] # None
                 PROVE  {p \in providers : p.id = i} = {returned[i]} \/ Doubled(i)' \/ Raced("half", i)'
        BY DEF AsReturned
    <2> QED BY DEF ProvidersInv, AsReturned, Raced
<1> QED BY <1>1, <1>2, <1>3

(* A request moves on. *)
LEMMA ProviderMove ==
    ASSUME ProvidersInv, NEW c \in Coros, NEW q \in ProviderFrames, Become(c, q), backend' = backend,
           Registry', ProvidersDiffer', AsReturned', Strict',
           (backend = "memory" => \A r \in raced : r[1] = "half")', raced \subseteq raced',
           Requested(q)',
           \A d \in Coros : \A r : d # c /\ r = co[d] => Requested(r)' /\ Separate(q, r)' /\ Separate(r, q)'
    PROVE  ProvidersInv'
<1>1. co' \in [Coros -> ProviderFrames] /\ \A d \in Coros : co'[d] = IF d = c THEN q ELSE co[d]
    BY DEF ProvidersInv, Become
<1>2. ASSUME NEW d \in Coros PROVE Requested(co[d])'
    <2> SUFFICES ASSUME NEW r, r = co'[d] PROVE Requested(r)'
        BY DEF Requested, Shaped, Fresh, Steady, Own, SlugClear, Midway, RowsOf, Dirty, Raced, Merged
    <2>1. CASE d = c
        BY <1>1, <2>1
    <2>2. CASE d # c
        BY <1>1, <2>2
    <2> QED BY <2>1, <2>2
<1>3. ASSUME NEW d \in Coros, NEW e \in Coros, d # e PROVE Separate(co[d], co[e])'
    <2> SUFFICES ASSUME NEW r, NEW s, r = co'[d], s = co'[e] PROVE Separate(r, s)'
        BY DEF Separate, Midway, Shares, Raced
    <2>1. CASE d = c
        BY <1>1, <1>3, <2>1
    <2>2. CASE e = c
        BY <1>1, <1>3, <2>2
    <2>3. CASE d # c /\ e # c
        BY <1>1, <1>3, <2>3, SeparateKept DEF ProvidersInv
    <2> QED BY <2>1, <2>2, <2>3
<1> QED BY <1>1, <1>2, <1>3 DEF ProvidersInv

(* The same when no row changes. *)
LEMMA ProviderGoesOn ==
    ASSUME ProvidersInv, NEW c \in Coros, NEW f, f = co[c], NEW q \in ProviderFrames, Become(c, q),
           UNCHANGED <<backend, providers, returned>>, minted \subseteq minted', minted' \subseteq ProviderIds,
           raced \subseteq raced', (backend = "memory" => \A r \in raced : r[1] = "half")',
           f.pc # "drop" \/ Raced("moved", f.new.id)', Requested(q)',
           \A d \in Coros : \A r : d # c /\ r = co[d] => Separate(q, r)' /\ Separate(r, q)'
    PROVE  ProvidersInv'
<1>1. \A j : Doubled(j) => Doubled(j)'
    BY DoubledKept DEF ProvidersInv
<1>2. Registry' /\ ProvidersDiffer' /\ AsReturned' /\ Strict'
    BY <1>1, RegistryKept
<1>3. ASSUME NEW d \in Coros, NEW r, r = co[d] PROVE Requested(r)'
    BY <1>1, <1>3, RequestedKept DEF ProvidersInv
<1> QED BY <1>2, <1>3, ProviderMove

LEMMA IdleRequest ==
    ASSUME NEW q, q = Idle
    PROVE  /\ q \in ProviderFrames /\ Requested(q) /\ Requested(q)'
           /\ \A r : Separate(q, r)' /\ Separate(r, q)'
<1>1. q.op = "none" /\ q.pc = "idle" /\ q \in ProviderFrames
    BY DEF Idle, ProviderFrames
<1>2. Requested(q) /\ Requested(q)'
    BY <1>1 DEF Requested, Shaped, Fresh, Steady, Own, SlugClear, Midway
<1> QED BY <1>1, <1>2 DEF Separate, Midway

LEMMA ProviderEnds ==
    ASSUME ProvidersInv, NEW c \in Coros, NEW f, f = co[c], Return(c), UNCHANGED <<backend, providers, minted, returned>>,
           raced \subseteq raced', (backend = "memory" => \A r \in raced : r[1] = "half")',
           f.pc # "drop" \/ Raced("moved", f.new.id)'
    PROVE  ProvidersInv'
<1> SUFFICES ASSUME NEW q, q = Idle PROVE ProvidersInv'
    OBVIOUS
<1>1. minted \subseteq minted' /\ minted' \subseteq ProviderIds /\ Become(c, q)
    BY DEF ProvidersInv, Registry, Return
<1> QED BY <1>1, IdleRequest, ProviderGoesOn

LEMMA ProviderCallFacts ==
    ASSUME ProvidersInv, NEW c \in Coros, NEW f, f = co[c]
    PROVE  f \in ProviderFrames /\ Requested(f)
BY DEF ProvidersInv

LEMMA SaveKeeps == ASSUME ProvidersInv, NEW c \in Coros, Save(c) PROVE ProvidersInv' /\ area' = area
<1>1. PICK i \in ProviderIds \ minted, iss \in Issuers, s \in Slugs :
          LET new == [id |-> i, issuer |-> iss, slug |-> s] IN
          /\ Begin(c, [op |-> "save", pc |-> "save", old |-> new, new |-> new])
          /\ minted' = minted \cup {i}
          /\ UNCHANGED <<area, backend, raced, providers, returned>>
    BY DEF Save
<1> SUFFICES ASSUME NEW f, f = co[c], NEW n, n = [id |-> i, issuer |-> iss, slug |-> s],
                    NEW q, q = [op |-> "save", pc |-> "save", old |-> n, new |-> n]
             PROVE  ProvidersInv' /\ area' = area
    OBVIOUS
<1>2. n \in Provider /\ n.id = i
    BY DEF Provider
<1>3. q \in ProviderFrames /\ q.op = "save" /\ q.pc = "save" /\ q.new = n /\ q.old = n
    BY <1>2 DEF ProviderFrames, SaveFrames
<1>4. Become(c, q) /\ f.pc = "idle" /\ UNCHANGED <<area, backend, raced, providers, returned>> /\ minted' = minted \cup {i}
    BY <1>1 DEF Begin, MayBegin, At
<1>5. Requested(q)'
    <2>1. \A p \in providers : p.id # i
        BY DEF ProvidersInv, Registry
    <2> QED BY <1>2, <1>3, <1>4, <2>1 DEF Requested, Shaped, Fresh, Steady, Own, SlugClear, Midway
<1>6. ASSUME NEW d \in Coros, NEW r, d # c, r = co[d] PROVE Separate(q, r)' /\ Separate(r, q)'
    <2>1. r.op # "none" => r.new.id # i
        BY <1>6, ProviderCallFacts DEF Requested, Fresh
    <2> QED BY <1>2, <1>3, <2>1 DEF Separate, Midway
<1>7. minted \subseteq minted' /\ minted' \subseteq ProviderIds /\ (backend = "memory" => \A r \in raced : r[1] = "half")'
    BY <1>4 DEF ProvidersInv, Registry
<1> QED BY <1>3, <1>4, <1>5, <1>6, <1>7, ProviderGoesOn

(* Where the uniqueness is the database's, a row replaces the one of its id. *)
LEMMA PlainWrite ==
    ASSUME ProvidersInv, backend # "dynamodb", NEW current \in Provider, Replace(current), current.id \in minted,
           ~HasAnother(current), UNCHANGED <<backend, minted>>, raced \subseteq raced',
           \/ returned' = [returned EXCEPT ![current.id] = current]
           \/ returned' = returned /\ Raced("half", current.id)'
    PROVE  Registry' /\ ProvidersDiffer' /\ AsReturned' /\ Strict'
<1>1. \A p \in providers' : p = current \/ (p \in providers /\ p.id # current.id /\ p.issuer # current.issuer /\ p.slug # current.slug)
    BY DEF Replace, HasAnother, IssuerTaken, SlugTaken
<1>2. current \in providers' /\ \A p \in providers : p.id # current.id => p \in providers'
    BY DEF Replace
<1>3. current.id \in ProviderIds
    BY DEF Provider
<1>4. Registry'
    BY <1>1, <1>3 DEF ProvidersInv, Registry
<1>5. Strict' /\ ProvidersDiffer'
    <2> SUFFICES ASSUME NEW p \in providers', NEW r \in providers', p # r
                 PROVE  p.id # r.id /\ p.slug # r.slug /\ p.issuer # r.issuer
        BY DEF Strict, ProvidersDiffer
    <2> QED BY <1>1 DEF ProvidersInv, Strict, ProvidersDiffer
<1>6. AsReturned'
    <2> SUFFICES ASSUME NEW i \in ProviderIds, returned'[i] # None
                 PROVE  {p \in providers' : p.id = i} = {returned'[i]} \/ Dirty(i)' \/ Raced("half", i)'
        BY DEF AsReturned, Doubled, Dirty
    <2>1. CASE i = current.id
        <3>1. {p \in providers' : p.id = i} = {current}
            BY <1>1, <1>2, <2>1
        <3>2. returned'[i] = current \/ Raced("half", i)'
            BY <1>3, <2>1 DEF ProvidersInv, Registry
        <3> QED BY <3>1, <3>2
    <2>2. CASE i # current.id
        <3>1. {p \in providers' : p.id = i} = {p \in providers : p.id = i}
            BY <1>1, <1>2, <2>2
        <3>2. returned'[i] = returned[i]
            BY <2>2 DEF ProvidersInv, Registry
        <3>3. ~Moving(i)
            BY ProviderCallFacts DEF Moving, At, Requested, Shaped
        <3>4. {p \in providers : p.id = i} = {returned[i]} \/ Dirty(i) \/ Raced("half", i)
            BY <3>2, <3>3 DEF ProvidersInv, AsReturned, Doubled, Dirty
        <3> QED BY <3>1, <3>2, <3>4 DEF Raced, Dirty
    <2> QED BY <2>1, <2>2
<1> QED BY <1>4, <1>5, <1>6

LEMMA PlainRequestsKept ==
    ASSUME ProvidersInv, backend # "dynamodb", NEW current \in Provider, Replace(current),
           UNCHANGED <<backend, minted>>, NEW r \in ProviderFrames, Requested(r),
           r.op = "save" => r.new.id # current.id
    PROVE  Requested(r)'
<1>1. \A p \in providers' : p = current \/ p \in providers
    BY DEF Replace
<1>2. Shaped(r)' /\ Fresh(r)'
    BY <1>1 DEF Requested, Shaped, Fresh
<1> QED BY <1>2 DEF Requested, Steady, Own, SlugClear

(* A request ends with its row written. *)
LEMMA PlainReturn ==
    ASSUME ProvidersInv, backend # "dynamodb", NEW c \in Coros, NEW f, f = co[c], f.op # "none",
           NEW current \in Provider, current.id = f.new.id, Replace(current), Returns(c, current), ~HasAnother(current),
           UNCHANGED <<backend, minted, raced>>
    PROVE  ProvidersInv'
<1> SUFFICES ASSUME NEW q, q = Idle PROVE ProvidersInv'
    OBVIOUS
<1>1. current.id \in minted
    BY ProviderCallFacts DEF Requested, Fresh
<1>2. Registry' /\ ProvidersDiffer' /\ AsReturned' /\ Strict' /\ Become(c, q)
    BY <1>1, PlainWrite DEF Returns, Return
<1>3. ASSUME NEW d \in Coros, NEW r, d # c, r = co[d] PROVE Requested(r)'
    <2>1. r \in ProviderFrames /\ Requested(r) /\ (r.op = "save" => r.new.id # current.id)
        BY <1>3 DEF ProvidersInv, Separate
    <2> QED BY <2>1, PlainRequestsKept
<1>4. (backend = "memory" => \A r \in raced : r[1] = "half")'
    BY DEF ProvidersInv
<1> QED BY <1>2, <1>3, <1>4, IdleRequest, ProviderMove

LEMMA InsertProviderKeeps ==
    ASSUME ProvidersInv, NEW c \in Coros, backend # "dynamodb", InsertProvider(c)
    PROVE  ProvidersInv' /\ area' = area
<1> SUFFICES ASSUME NEW f, f = co[c], NEW n, n = f.new PROVE ProvidersInv' /\ area' = area
    OBVIOUS
<1>1. f.pc = "save" /\ UNCHANGED <<area, backend, raced, minted>>
    BY DEF InsertProvider, Continue, At
<1>2. f.op = "save" /\ n \in Provider /\ \A p \in providers : p.id # n.id
    BY <1>1, ProviderCallFacts, ProviderFrameFacts DEF Requested, Fresh
<1>3. CASE HasAnother(n)
    <2>1. Return(c) /\ UNCHANGED <<providers, returned>>
        BY <1>3 DEF InsertProvider
    <2> QED BY <1>1, <2>1, ProviderEnds DEF ProvidersInv
<1>4. CASE ~HasAnother(n)
    <2>1. providers' = providers \cup {n} /\ Returns(c, n)
        BY <1>4 DEF InsertProvider
    <2>2. Replace(n)
        BY <1>2, <2>1 DEF Replace
    <2> QED BY <1>1, <1>2, <1>4, <2>1, <2>2, PlainReturn
<1> QED BY <1>3, <1>4

LEMMA WriteProviderKeeps ==
    ASSUME ProvidersInv, NEW c \in Coros, backend # "dynamodb", WriteProvider(c)
    PROVE  ProvidersInv' /\ area' = area
<1> SUFFICES ASSUME NEW f, f = co[c] PROVE ProvidersInv' /\ area' = area
    OBVIOUS
<1>1. f.pc = "write" /\ UNCHANGED <<area, backend, raced, minted>>
    BY DEF WriteProvider, Continue, At
<1>2. f.op = "update" /\ f.old.id = f.new.id /\ f.upd \in Updates
    BY <1>1, ProviderCallFacts, ProviderFrameFacts DEF Requested, Shaped
<1>3. PICK current \in providers :
          LET new == Merged(current, co[c].upd) IN
          /\ current.id = co[c].old.id
          /\ IF HasAnother(new) THEN Return(c) /\ UNCHANGED <<providers, returned>>
             ELSE Replace(new) /\ Returns(c, new)
    BY DEF WriteProvider
<1> SUFFICES ASSUME NEW n, n = Merged(current, f.upd) PROVE ProvidersInv' /\ area' = area
    OBVIOUS
<1>4. n \in Provider /\ n.id = f.new.id
    BY <1>2, <1>3, MergedFacts DEF ProvidersInv, Registry
<1>5. CASE HasAnother(n)
    BY <1>1, <1>3, <1>5, ProviderEnds DEF ProvidersInv
<1>6. CASE ~HasAnother(n)
    BY <1>1, <1>2, <1>3, <1>4, <1>6, PlainReturn
<1> QED BY <1>5, <1>6

(* Nobody waits in the memory adapter: the row is written at once. *)
LEMMA MemoryUpdateProviderKeeps ==
    ASSUME ProvidersInv, NEW c \in Coros, MemoryUpdateProvider(c)
    PROVE  ProvidersInv' /\ area' = area
<1>1. backend = "memory" /\ UNCHANGED <<area, backend, co, minted>>
    BY DEF MemoryUpdateProvider
<1>2. PICK current \in providers, upd \in Updates :
           LET moved == Merged(current, [upd EXCEPT !.slug = None])
               new == Merged(current, upd)
           IN IF IssuerTaken(moved) THEN UNCHANGED <<providers, returned, raced>>
              ELSE IF SlugTaken(new)
              THEN /\ Replace(moved)
                   /\ Overlap("half", current.id, IF moved = current THEN {} ELSE {c})
                   /\ UNCHANGED returned
              ELSE /\ Replace(new)
                   /\ returned' = [returned EXCEPT ![current.id] = new]
                   /\ UNCHANGED raced
    BY DEF MemoryUpdateProvider
<1> SUFFICES ASSUME NEW moved, moved = Merged(current, [upd EXCEPT !.slug = None]), NEW n, n = Merged(current, upd)
             PROVE  ProvidersInv' /\ area' = area
    OBVIOUS
<1>3. current \in Provider /\ current.id \in minted /\ [upd EXCEPT !.slug = None] \in Updates
    BY DEF ProvidersInv, Registry, Updates
<1>4. moved \in Provider /\ moved.id = current.id /\ moved.slug = current.slug
    BY <1>3, MergedFacts DEF Updates
<1>5. n \in Provider /\ n.id = current.id /\ n.issuer = moved.issuer
    BY <1>3, MergedFacts DEF Updates
<1>6. \A p \in providers : p # current => p.id # current.id /\ p.slug # current.slug
    BY <1>1 DEF ProvidersInv, Strict
<1>7. CASE \E x \in Provider :
              /\ x.id = current.id /\ Replace(x) /\ ~HasAnother(x) /\ raced \subseteq raced'
              /\ \A y \in raced' : y \in raced \/ y[1] = "half"
              /\ \/ returned' = [returned EXCEPT ![x.id] = x]
                 \/ returned' = returned /\ Raced("half", x.id)'
    <2>1. PICK x \in Provider :
              /\ x.id = current.id /\ Replace(x) /\ ~HasAnother(x) /\ raced \subseteq raced'
              /\ \A y \in raced' : y \in raced \/ y[1] = "half"
              /\ \/ returned' = [returned EXCEPT ![x.id] = x]
                 \/ returned' = returned /\ Raced("half", x.id)'
        BY <1>7
    <2>2. Registry' /\ ProvidersDiffer' /\ AsReturned' /\ Strict'
        BY <1>1, <1>3, <2>1, PlainWrite
    <2>3. ASSUME NEW d \in Coros PROVE Requested(co[d])'
        <3> SUFFICES ASSUME NEW r, r = co[d] PROVE Requested(r)'
            BY <1>1 DEF Requested, Shaped, Fresh, Steady, Own, SlugClear, Midway, RowsOf, Dirty, Raced, Merged
        <3>1. r \in ProviderFrames /\ Requested(r) /\ (r.op = "save" => r.new.id # x.id)
            BY <2>1, ProviderCallFacts DEF Requested, Fresh
        <3> QED BY <1>1, <2>1, <3>1, PlainRequestsKept
    <2>4. ASSUME NEW d \in Coros, NEW e \in Coros, d # e PROVE Separate(co[d], co[e])'
        <3> SUFFICES ASSUME NEW r, NEW s, r = co[d], s = co[e] PROVE Separate(r, s)'
            BY <1>1 DEF Separate, Midway, Shares, Raced
        <3> QED BY <1>1, <2>1, <2>4, SeparateKept DEF ProvidersInv
    <2> QED BY <1>1, <2>1, <2>2, <2>3, <2>4 DEF ProvidersInv
<1>8. CASE UNCHANGED <<providers, returned, raced>>
    <2>1. \A j : Doubled(j) => Doubled(j)'
        BY <1>1, <1>8 DEF Doubled, Moving, At, Raced
    <2>2. Registry' /\ ProvidersDiffer' /\ AsReturned' /\ Strict'
        BY <1>1, <1>8, <2>1, RegistryKept DEF ProvidersInv, Registry
    <2>3. ASSUME NEW d \in Coros PROVE Requested(co[d])'
        <3> SUFFICES ASSUME NEW r, r = co[d] PROVE Requested(r)'
            BY <1>1 DEF Requested, Shaped, Fresh, Steady, Own, SlugClear, Midway, RowsOf, Dirty, Raced, Merged
        <3> QED BY <1>1, <1>8, <2>1, ProviderCallFacts, RequestedKept
    <2>4. ASSUME NEW d \in Coros, NEW e \in Coros, d # e PROVE Separate(co[d], co[e])'
        <3> SUFFICES ASSUME NEW r, NEW s, r = co[d], s = co[e] PROVE Separate(r, s)'
            BY <1>1 DEF Separate, Midway, Shares, Raced
        <3> QED BY <1>1, <1>8, <2>4, SeparateKept DEF ProvidersInv
    <2> QED BY <1>1, <1>8, <2>2, <2>3, <2>4 DEF ProvidersInv
<1>9. CASE ~IssuerTaken(moved) /\ SlugTaken(n)
    <2>1. Replace(moved) /\ Overlap("half", current.id, IF moved = current THEN {} ELSE {c}) /\ UNCHANGED returned
        BY <1>2, <1>9
    <2>2. CASE moved = current
        <3>1. providers' = providers /\ raced' = raced
            BY <1>6, <2>1, <2>2 DEF Replace, Overlap
        <3> QED BY <1>8, <2>1, <3>1
    <2>3. CASE moved # current
        <3>1. raced' = raced \cup {<<"half", current.id>>}
            BY <2>1, <2>3 DEF Overlap
        <3>2. ~HasAnother(moved)
            BY <1>4, <1>6, <1>9 DEF HasAnother, SlugTaken
        <3>3. Raced("half", moved.id)' /\ raced \subseteq raced' /\ \A y \in raced' : y \in raced \/ y[1] = "half"
            BY <1>4, <3>1 DEF Raced
        <3> QED BY <1>4, <1>7, <2>1, <3>2, <3>3
    <2> QED BY <2>2, <2>3
<1>10. CASE ~IssuerTaken(moved) /\ ~SlugTaken(n)
    <2>1. Replace(n) /\ returned' = [returned EXCEPT ![current.id] = n] /\ UNCHANGED raced
        BY <1>2, <1>10
    <2>2. ~HasAnother(n)
        BY <1>4, <1>5, <1>10 DEF HasAnother, IssuerTaken
    <2> QED BY <1>5, <1>7, <2>1, <2>2
<1> QED BY <1>2, <1>8, <1>9, <1>10

(* A write of DynamoDB touches the rows of its own provider, or of one that is known to be racing. *)
DynamoWrite(f) ==
    /\ \A p \in providers : p \notin providers' => p.id = f.new.id \/ Dirty(p.id)
    /\ \A p \in providers' :
           p \in providers \/ p = f.new \/ (Dirty(p.id) /\ \E x \in providers : x.id = p.id)

LEMMA OthersKept ==
    ASSUME ProvidersInv, backend = "dynamodb", NEW c \in Coros, NEW f, f = co[c], Midway(f),
           NEW d \in Coros, NEW r, d # c, r = co[d],
           UNCHANGED <<backend, minted, raced>>, DynamoWrite(f),
           \A j : Doubled(j) =>
               Doubled(j)' \/ (j = f.new.id /\ \A p \in providers' : p.id = j => p = f.new)
    PROVE  Requested(r)'
<1>1. /\ f.op # "none" /\ r \in ProviderFrames /\ Requested(r) /\ Separate(f, r) /\ Separate(r, f)
      /\ r.op = "update" => Midway(r)
    BY ProviderFrameFacts DEF ProvidersInv, Midway
<1>2. Shaped(r)'
    BY <1>1 DEF Requested, Shaped
<1>3. Fresh(r)'
    BY <1>1 DEF Requested, Fresh, Separate, DynamoWrite
<1>4. Steady(r)'
    <2> SUFFICES ASSUME r.op = "update", ~Dirty(r.new.id), NEW i, i = r.new.id
                 PROVE  {p \in providers' : p.id = i} = {p \in providers : p.id = i}
        BY <1>1 DEF Requested, Steady, RowsOf, Dirty, Raced
    <2>1. i # f.new.id
        BY <1>1 DEF Separate, Dirty
    <2> QED BY <2>1 DEF DynamoWrite
<1>5. Own(r)'
    <2> SUFFICES ASSUME r.op = "update", NEW p \in providers', p.issuer = r.old.issuer
                 PROVE  p.id = r.new.id \/ Dirty(p.id)
        BY DEF Own, Dirty, Raced
    <2>1. CASE p \in providers
        BY <1>1, <2>1 DEF Requested, Own
    <2>2. CASE p = f.new
        <3>1. Shares(f, r) /\ Midway(r)
            BY <1>1, <2>2 DEF Shares
        <3> QED BY <1>1, <2>2, <3>1 DEF Separate, Dirty
    <2> QED BY <2>1, <2>2 DEF DynamoWrite
<1>6. SlugClear(r)'
    <2> SUFFICES ASSUME Midway(r), NEW p \in providers', p.slug = r.new.slug, p.id # r.new.id
                 PROVE  Raced("slug", p.slug) \/ Doubled(p.id)'
        BY DEF SlugClear, Midway, Raced
    <2>1. CASE p = f.new
        BY <1>1, <2>1 DEF Separate
    <2>2. CASE p \in providers /\ p # f.new
        BY <1>1, <2>2 DEF Requested, SlugClear
    <2>3. CASE Dirty(p.id)
        BY <2>3 DEF Dirty, Doubled, Raced
    <2> QED BY <2>1, <2>2, <2>3 DEF DynamoWrite
<1> QED BY <1>2, <1>3, <1>4, <1>5, <1>6 DEF Requested

LEMMA DynamoWriteKeeps ==
    ASSUME ProvidersInv, backend = "dynamodb", NEW c \in Coros, NEW f, f = co[c], Midway(f),
           NEW q \in ProviderFrames, Become(c, q), UNCHANGED <<backend, minted, raced>>, DynamoWrite(f),
           \/ Doubled(f.new.id)'
           \/ /\ f.new \in providers' /\ \A p \in providers' : p.id = f.new.id => p = f.new
              /\ returned'[f.new.id] = f.new,
           \A i \in ProviderIds : i # f.new.id => returned'[i] = returned[i] \/ Dirty(i),
           returned' \in [ProviderIds -> Provider \cup {None}],
           providers' \subseteq Provider,
           \A p, x \in providers' : p # x => p.issuer # x.issuer,
           Requested(q)',
           \A d \in Coros : \A r : d # c /\ r = co[d] => Separate(q, r)' /\ Separate(r, q)'
    PROVE  ProvidersInv'
<1> SUFFICES ASSUME NEW i, i = f.new.id PROVE ProvidersInv'
    OBVIOUS
<1>1. Requested(f) /\ f.op # "none" /\ f.new \in Provider /\ i \in ProviderIds /\ i \in minted
    BY ProviderCallFacts, ProviderFrameFacts DEF Midway, Requested, Fresh
<1>2. ASSUME NEW j, Doubled(j), j # i PROVE Doubled(j)'
    <2>1. CASE Dirty(j)
        BY <2>1 DEF Dirty, Doubled, Raced
    <2>2. CASE Moving(j)
        <3>1. PICK d \in Coros : co[d].pc = "drop" /\ co[d].new.id = j
            BY <2>2 DEF Moving, At
        <3>2. d # c /\ co'[d] = co[d]
            BY <1>2, <3>1 DEF Become, ProvidersInv
        <3>3. co'[d].pc = "drop" /\ co'[d].new.id = j
            BY <3>1, <3>2
        <3>4. Moving(j)'
            BY <3>3 DEF Moving, At
        <3> QED BY <3>4 DEF Doubled
    <2> QED BY <1>2, <2>1, <2>2 DEF Doubled, Dirty
<1>3. \A j : Doubled(j) => Doubled(j)' \/ (j = i /\ \A p \in providers' : p.id = j => p = f.new)
    BY <1>2
<1>4. ASSUME NEW d \in Coros, NEW r, d # c, r = co[d] PROVE Requested(r)'
    BY <1>3, <1>4, OthersKept
<1>5. Registry'
    <2>1. ASSUME NEW p \in providers' PROVE p.id \in minted
        BY <1>1 DEF DynamoWrite, ProvidersInv, Registry
    <2> QED BY <2>1 DEF ProvidersInv, Registry
<1>6. Strict' /\ (backend = "memory" => \A r \in raced : r[1] = "half")'
    BY DEF Strict
<1>7. ASSUME NEW p \in providers', NEW x \in providers', p # x, p.slug = x.slug \/ p.id = x.id, ~Doubled(p.id)', ~Doubled(x.id)'
      PROVE  Raced("slug", p.slug) /\ p.id # x.id
    <2>1. ~Dirty(p.id) /\ ~Dirty(x.id)
        BY <1>7 DEF Dirty, Doubled, Raced
    <2>2. (p \in providers \/ p = f.new) /\ (x \in providers \/ x = f.new)
        BY <2>1 DEF DynamoWrite
    <2>3. CASE p.id = i
        <3>1. p = f.new /\ x.id # i /\ x \in providers /\ x.slug = f.new.slug
            BY <1>7, <2>2, <2>3
        <3> QED BY <1>1, <1>2, <1>7, <3>1 DEF Requested, SlugClear
    <2>4. CASE x.id = i
        <3>1. x = f.new /\ p.id # i /\ p \in providers /\ p.slug = f.new.slug
            BY <1>7, <2>2, <2>4
        <3> QED BY <1>1, <1>2, <1>7, <3>1 DEF Requested, SlugClear
    <2>5. CASE p.id # i /\ x.id # i
        <3>1. p \in providers /\ x \in providers /\ ~Doubled(p.id) /\ ~Doubled(x.id)
            BY <1>2, <1>7, <2>2, <2>5
        <3> QED BY <1>7, <3>1 DEF ProvidersInv, ProvidersDiffer
    <2> QED BY <2>3, <2>4, <2>5
<1>8. ProvidersDiffer'
    <2> SUFFICES ASSUME NEW p \in providers', NEW x \in providers', p # x
                 PROVE  /\ p.issuer # x.issuer
                        /\ p.slug # x.slug \/ Raced("slug", p.slug) \/ Doubled(p.id)' \/ Doubled(x.id)'
                        /\ p.id # x.id \/ Doubled(p.id)'
        BY DEF ProvidersDiffer, Raced
    <2>1. p.issuer # x.issuer
        OBVIOUS
    <2>2. p.slug # x.slug \/ Raced("slug", p.slug) \/ Doubled(p.id)' \/ Doubled(x.id)'
        BY <1>7
    <2>3. CASE p.id = x.id
        <3>1. Doubled(p.id)' <=> Doubled(x.id)'
            BY <2>3
        <3> QED BY <1>7, <2>1, <2>2, <2>3, <3>1
    <2> QED BY <2>1, <2>2, <2>3
<1>9. AsReturned'
    <2> SUFFICES ASSUME NEW j \in ProviderIds, returned'[j] # None, ~Doubled(j)', ~Raced("half", j)
                 PROVE  {p \in providers' : p.id = j} = {returned'[j]}
        BY DEF AsReturned, Raced
    <2>1. ~Dirty(j)
        BY DEF Dirty, Doubled, Raced
    <2>2. CASE j = i
        BY <1>1, <2>2
    <2>3. CASE j # i
        <3>1. ~Doubled(j) /\ returned'[j] = returned[j]
            BY <1>2, <2>1, <2>3
        <3>2. {p \in providers : p.id = j} = {returned[j]}
            BY <3>1 DEF ProvidersInv, AsReturned
        <3>3. {p \in providers' : p.id = j} = {p \in providers : p.id = j}
            BY <2>1, <2>3 DEF DynamoWrite
        <3> QED BY <3>1, <3>2, <3>3
    <2> QED BY <2>2, <2>3
<1> QED BY <1>4, <1>5, <1>6, <1>8, <1>9, ProviderMove

LEMMA DynamoPutProviderKeeps ==
    ASSUME ProvidersInv, NEW c \in Coros, DynamoPutProvider(c) PROVE ProvidersInv' /\ area' = area
<1> SUFFICES ASSUME NEW f, f = co[c], NEW n, n = f.new, NEW q, q = Idle PROVE ProvidersInv' /\ area' = area
    OBVIOUS
<1>1. f.pc = "put" /\ UNCHANGED <<area, backend, raced, minted>>
    BY DEF DynamoPutProvider, Continue, At
<1>2. /\ backend = "dynamodb" /\ f.op = "save" /\ n \in Provider /\ n.id \in ProviderIds /\ Midway(f)
      /\ \A p \in providers : p.id # n.id
    BY <1>1, ProviderCallFacts, ProviderFrameFacts DEF Requested, Shaped, Fresh, Midway
<1>3. CASE IssuerTaken(n)
    <2>1. Return(c) /\ UNCHANGED <<providers, returned>>
        BY <1>3 DEF DynamoPutProvider
    <2> QED BY <1>1, <1>2, <2>1, ProviderEnds
<1>4. CASE ~IssuerTaken(n)
    <2>1. providers' = providers \cup {n} /\ returned' = [returned EXCEPT ![n.id] = n] /\ Become(c, q)
        BY <1>4 DEF DynamoPutProvider, Returns, Return
    <2>2. DynamoWrite(f)
        BY <2>1 DEF DynamoWrite
    <2>3. /\ n \in providers' /\ \A p \in providers' : p.id = n.id => p = n
          /\ \A p, x \in providers' : p # x => p.issuer # x.issuer
        BY <1>2, <1>4, <2>1 DEF IssuerTaken, ProvidersInv, ProvidersDiffer
    <2>4. /\ returned' \in [ProviderIds -> Provider \cup {None}] /\ providers' \subseteq Provider
          /\ returned'[n.id] = n /\ \A i \in ProviderIds : i # n.id => returned'[i] = returned[i]
        BY <1>2, <2>1 DEF ProvidersInv, Registry
    <2> QED BY <1>1, <1>2, <2>1, <2>2, <2>3, <2>4, IdleRequest, DynamoWriteKeeps
<1> QED BY <1>3, <1>4

LEMMA DynamoUpdateProviderKeeps ==
    ASSUME ProvidersInv, NEW c \in Coros, DynamoUpdateProvider(c) PROVE ProvidersInv' /\ area' = area
<1> SUFFICES ASSUME NEW f, f = co[c], NEW q, q = Idle, NEW key, key = {p \in providers : p.issuer = f.old.issuer}
             PROVE  ProvidersInv' /\ area' = area
    OBVIOUS
<1>1. f.pc = "write" /\ UNCHANGED <<area, backend, raced, minted>> /\ backend = "dynamodb"
    BY DEF DynamoUpdateProvider, Continue, At
<1>2. /\ f.op = "update" /\ f.upd \in Updates /\ f.old \in Provider /\ f.new = Merged(f.old, f.upd) /\ Midway(f)
      /\ f.old.issuer = f.new.issuer /\ f.new.id = f.old.id /\ Steady(f) /\ Own(f)
    BY <1>1, ProviderCallFacts, ProviderFrameFacts DEF Requested, Shaped, Midway
<1>3. CASE key = {}
    <2>1. Return(c) /\ UNCHANGED <<providers, returned>>
        BY <1>3 DEF DynamoUpdateProvider
    <2> QED BY <1>1, <2>1, ProviderEnds
<1>4. CASE key # {}
    <2>1. PICK current \in key : LET new == Merged(current, co[c].upd) IN
                              providers' = (providers \ {current}) \cup {new} /\ Returns(c, new)
        BY <1>4 DEF DynamoUpdateProvider
    <2> SUFFICES ASSUME NEW n, n = Merged(current, f.upd) PROVE ProvidersInv' /\ area' = area
        OBVIOUS
    <2>2. current \in Provider /\ current \in providers /\ current.issuer = f.old.issuer
        BY DEF ProvidersInv, Registry
    <2>3. n \in Provider /\ n.id = current.id /\ n.issuer = current.issuer /\ n.id \in ProviderIds
        BY <1>2, <2>2, MergedFacts DEF Provider
    <2>4. /\ providers' = (providers \ {current}) \cup {n} /\ Become(c, q)
          /\ returned' = [returned EXCEPT ![n.id] = n]
        BY <2>1 DEF Returns, Return
    <2>5. current.id = f.new.id \/ Dirty(current.id)
        BY <1>1, <1>2, <2>2 DEF Own
    <2>6. ~Dirty(f.new.id) => current = f.old /\ n = f.new
        <3>1. ~Dirty(f.new.id) => f.old \in providers
            BY <1>1, <1>2 DEF Steady, RowsOf
        <3> QED BY <1>2, <2>2, <3>1 DEF ProvidersInv, ProvidersDiffer
    <2>7. DynamoWrite(f)
        BY <2>2, <2>3, <2>4, <2>5, <2>6 DEF DynamoWrite
    <2>8. \/ Doubled(f.new.id)'
          \/ /\ f.new \in providers' /\ \A p \in providers' : p.id = f.new.id => p = f.new
             /\ returned'[f.new.id] = f.new
        <3>1. CASE Dirty(f.new.id)
            BY <1>1, <3>1 DEF Doubled, Dirty, Raced
        <3>2. CASE ~Dirty(f.new.id)
            <4>1. \A p \in providers : p.id = f.new.id => p = current
                BY <1>1, <1>2, <2>6, <3>2 DEF Steady, RowsOf
            <4>2. returned'[f.new.id] = f.new
                BY <2>3, <2>4, <2>6, <3>2 DEF ProvidersInv, Registry
            <4> QED BY <2>4, <2>6, <3>2, <4>1, <4>2
        <3> QED BY <3>1, <3>2
    <2>9. /\ returned' \in [ProviderIds -> Provider \cup {None}] /\ providers' \subseteq Provider
          /\ \A i \in ProviderIds : i # f.new.id => returned'[i] = returned[i] \/ Dirty(i)
        BY <2>3, <2>4, <2>5 DEF ProvidersInv, Registry
    <2>10. \A p, x \in providers' : p # x => p.issuer # x.issuer
        BY <2>2, <2>3, <2>4 DEF ProvidersInv, ProvidersDiffer
    <2> QED BY <1>1, <1>2, <2>4, <2>7, <2>8, <2>9, <2>10, IdleRequest, DynamoWriteKeeps
<1> QED BY <1>3, <1>4

LEMMA DynamoMoveKeeps ==
    ASSUME ProvidersInv, NEW c \in Coros, DynamoMove(c) PROVE ProvidersInv' /\ area' = area
<1> SUFFICES ASSUME NEW f, f = co[c], NEW q, q = [f EXCEPT !.pc = "drop"] PROVE ProvidersInv' /\ area' = area
    OBVIOUS
<1>1. f.pc = "move" /\ UNCHANGED <<area, backend, raced, minted, returned>>
    BY DEF DynamoMove, Continue, At
<1>2. /\ f.op = "update" /\ f.old \in Provider /\ f.new \in Provider /\ f.new = Merged(f.old, f.upd) /\ Midway(f)
      /\ f.old.id = f.new.id /\ Requested(f) /\ backend = "dynamodb" /\ f.old.issuer # f.new.issuer
      /\ f \in UpdateFrames
    <2>1. f \in ProviderFrames /\ Requested(f) /\ f.op = "update" /\ f.old \in Provider /\ f.new \in Provider
        BY <1>1, ProviderCallFacts, ProviderFrameFacts
    <2>2. f \in UpdateFrames
        BY <2>1 DEF ProviderFrames, SaveFrames, Idle
    <2> QED BY <1>1, <2>1, <2>2 DEF Requested, Shaped, Midway
<1>3. CASE \E p \in providers : p.issuer = f.new.issuer
    <2>1. Return(c) /\ UNCHANGED providers
        BY <1>3 DEF DynamoMove
    <2> QED BY <1>1, <1>2, <2>1, ProviderEnds
<1>4. CASE ~ \E p \in providers : p.issuer = f.new.issuer
    <2>1. providers' = providers \cup {f.new} /\ Become(c, q)
        BY <1>4 DEF DynamoMove, Goto
    <2>2. q \in ProviderFrames /\ q.pc = "drop" /\ q.op = "update" /\ q.old = f.old /\ q.new = f.new /\ q.upd = f.upd
        BY <1>2 DEF ProviderFrames, UpdateFrames
    <2>3. DynamoWrite(f)
        BY <2>1 DEF DynamoWrite
    <2>4. co'[c] = q
        BY <2>1 DEF Become, ProvidersInv
    <2>5. Doubled(f.new.id)'
        <3>1. co'[c].pc = "drop" /\ co'[c].new.id = f.new.id
            BY <2>2, <2>4
        <3>2. Moving(f.new.id)'
            BY <3>1 DEF Moving, At
        <3> QED BY <3>2 DEF Doubled
    <2>6. \A p, x \in providers' : p # x => p.issuer # x.issuer
        BY <1>4, <2>1 DEF ProvidersInv, ProvidersDiffer
    <2>7. returned' \in [ProviderIds -> Provider \cup {None}] /\ providers' \subseteq Provider
        BY <1>1, <1>2, <2>1 DEF ProvidersInv, Registry
    <2>8. Shaped(q)' /\ Fresh(q)'
        BY <1>1, <1>2, <2>2 DEF Shaped, Fresh, Requested
    <2>9. Steady(q)'
        <3> SUFFICES ASSUME ~Dirty(f.new.id) PROVE {p \in providers' : p.id = f.new.id} = {f.old, f.new}
            BY <1>1, <2>2 DEF Steady, Dirty, Raced, RowsOf
        <3>1. {p \in providers : p.id = f.new.id} = {f.old}
            BY <1>1, <1>2 DEF Requested, Steady, RowsOf
        <3> QED BY <2>1, <3>1
    <2>10. Own(q)'
        BY <1>1, <1>2, <2>1, <2>2 DEF Requested, Own, Dirty, Raced
    <2>11. SlugClear(q)'
        <3> SUFFICES ASSUME NEW p \in providers', p.slug = f.new.slug, p.id # f.new.id
                     PROVE  Raced("slug", p.slug) \/ Doubled(p.id)'
            BY <1>1, <2>2 DEF SlugClear, Raced
        <3>1. Raced("slug", p.slug) \/ Doubled(p.id)
            BY <1>2, <2>1 DEF Requested, SlugClear
        <3>2. Doubled(p.id) => Doubled(p.id)'
            BY <1>1, <2>1, DoubledKept DEF ProvidersInv
        <3> QED BY <3>1, <3>2
    <2>12. ASSUME NEW d \in Coros, NEW r, d # c, r = co[d] PROVE Separate(q, r)' /\ Separate(r, q)'
        <3>1. Separate(f, r) /\ Separate(r, f)
            BY <2>12 DEF ProvidersInv
        <3> QED BY <1>1, <1>2, <2>2, <3>1 DEF Separate, Midway, Shares, Raced
    <2>13. Requested(q)'
        BY <2>8, <2>9, <2>10, <2>11 DEF Requested
    <2> QED BY <1>1, <1>2, <2>1, <2>2, <2>3, <2>5, <2>6, <2>7, <2>12, <2>13, DynamoWriteKeeps
<1> QED BY <1>3, <1>4

LEMMA DynamoDropOldKeeps ==
    ASSUME ProvidersInv, NEW c \in Coros, DynamoDropOld(c) PROVE ProvidersInv' /\ area' = area
<1> SUFFICES ASSUME NEW f, f = co[c], NEW q, q = Idle PROVE ProvidersInv' /\ area' = area
    OBVIOUS
<1>1. f.pc = "drop" /\ UNCHANGED <<area, backend, raced, minted>>
    BY DEF DynamoDropOld, Continue, At
<1>2. /\ f.op = "update" /\ f.new \in Provider /\ Midway(f) /\ f.new.id \in ProviderIds
      /\ Steady(f) /\ Own(f) /\ backend = "dynamodb" /\ f.old.issuer # f.new.issuer
    BY <1>1, ProviderCallFacts, ProviderFrameFacts DEF Requested, Shaped, Midway
<1>3. /\ providers' = {p \in providers : p.issuer # f.old.issuer} /\ Become(c, q)
      /\ returned' = [returned EXCEPT ![f.new.id] = f.new]
    BY DEF DynamoDropOld, Returns, Return
<1>4. DynamoWrite(f)
    BY <1>2, <1>3 DEF DynamoWrite, Own
<1>5. \/ Doubled(f.new.id)'
      \/ /\ f.new \in providers' /\ \A p \in providers' : p.id = f.new.id => p = f.new
         /\ returned'[f.new.id] = f.new
    <2>1. CASE Dirty(f.new.id)
        BY <1>1, <2>1 DEF Doubled, Dirty, Raced
    <2>2. CASE ~Dirty(f.new.id)
        <3>1. {p \in providers : p.id = f.new.id} = {f.old, f.new}
            BY <1>1, <1>2, <2>2 DEF Steady, RowsOf
        <3>2. f.new \in providers /\ \A p \in providers : p.id = f.new.id => p \in {f.old, f.new}
            BY <3>1
        <3>3. returned'[f.new.id] = f.new
            BY <1>2, <1>3 DEF ProvidersInv, Registry
        <3> QED BY <1>2, <1>3, <3>2, <3>3
    <2> QED BY <2>1, <2>2
<1>6. /\ returned' \in [ProviderIds -> Provider \cup {None}] /\ providers' \subseteq Provider
      /\ \A i \in ProviderIds : i # f.new.id => returned'[i] = returned[i]
    BY <1>2, <1>3 DEF ProvidersInv, Registry
<1>7. \A p, x \in providers' : p # x => p.issuer # x.issuer
    BY <1>3 DEF ProvidersInv, ProvidersDiffer
<1> QED BY <1>1, <1>2, <1>3, <1>4, <1>5, <1>6, <1>7, IdleRequest, DynamoWriteKeeps

(* What a request read is unlike every other row. *)
LEMMA FoundSeparate ==
    ASSUME NEW q, NEW r, Midway(q), r \in ProviderFrames, r.op = "save" => r.new.id # q.new.id,
           q.op = "save" /\ r.op # "none" => q.new.id # r.new.id, backend' = backend,
           Midway(r) =>
                  /\ q.new.slug = r.new.slug /\ q.new.id # r.new.id => Raced("slug", q.new.slug)'
                  /\ q.new.id = r.new.id \/ (backend = "dynamodb" /\ (Shares(q, r) \/ Shares(r, q))) =>
                         Raced("update", q.new.id)' /\ Raced("update", r.new.id)'
    PROVE  Separate(q, r)' /\ Separate(r, q)'
BY DEF Separate, Midway, Raced, Shares

LEMMA DynamoScanProvidersKeeps ==
    ASSUME ProvidersInv, NEW c \in Coros, DynamoScanProviders(c) PROVE ProvidersInv' /\ area' = area
<1> SUFFICES ASSUME NEW f, f = co[c], NEW n, n = f.new, NEW q, q = [f EXCEPT !.pc = "put"]
             PROVE  ProvidersInv' /\ area' = area
    OBVIOUS
<1>1. f.pc = "save" /\ backend = "dynamodb" /\ UNCHANGED <<area, backend, providers, minted, returned>> /\ Crossed(c, f)
    BY DEF DynamoScanProviders, Continue, At, providerVars
<1>2. f.op = "save" /\ Requested(f) /\ f \in SaveFrames
    <2>1. f.op = "save" /\ Requested(f) /\ f \in ProviderFrames
        BY <1>1, ProviderCallFacts, ProviderFrameFacts
    <2> QED BY <2>1 DEF ProviderFrames, UpdateFrames, Idle
<1>3. raced \subseteq raced' /\ (backend = "memory" => \A r \in raced : r[1] = "half")'
    BY <1>1, CrossedFacts
<1>4. CASE HasAnother(n)
    <2>1. Return(c)
        BY <1>4 DEF DynamoScanProviders
    <2> QED BY <1>1, <1>3, <2>1, ProviderEnds
<1>5. CASE ~HasAnother(n)
    <2>1. Become(c, q)
        BY <1>5 DEF DynamoScanProviders, Goto
    <2>2. q \in ProviderFrames /\ q.pc = "put" /\ q.op = "save" /\ q.old = f.old /\ q.new = n /\ Midway(q)
        BY <1>2 DEF ProviderFrames, SaveFrames, Midway
    <2>3. Requested(q)'
        <3>1. \A p \in providers : p.id # n.id => p.slug # n.slug
            BY <1>5 DEF HasAnother, SlugTaken
        <3> QED BY <1>1, <1>2, <2>2, <3>1 DEF Requested, Shaped, Fresh, Steady, Own, SlugClear
    <2>4. ASSUME NEW d \in Coros, NEW r, d # c, r = co[d] PROVE Separate(q, r)' /\ Separate(r, q)'
        <3>1. Separate(f, r) /\ Separate(r, f) /\ r \in ProviderFrames
            BY <2>4 DEF ProvidersInv
        <3>2. /\ r.op = "save" => r.new.id # q.new.id
              /\ r.op # "none" => q.new.id # r.new.id
            BY <1>2, <2>2, <3>1 DEF Separate
        <3>3. (Shares(q, r) <=> Shares(f, r)) /\ (Shares(r, q) <=> Shares(r, f))
            BY <2>2 DEF Shares
        <3>4. Midway(r) =>
                  /\ n.slug = r.new.slug /\ n.id # r.new.id => Raced("slug", n.slug)'
                  /\ n.id = r.new.id \/ (backend = "dynamodb" /\ (Shares(f, r) \/ Shares(r, f))) =>
                         Raced("update", n.id)' /\ Raced("update", r.new.id)'
            BY <1>1, <2>4, CrossedFacts
        <3> QED BY <1>1, <2>2, <3>1, <3>2, <3>3, <3>4, FoundSeparate
    <2>5. minted \subseteq minted' /\ minted' \subseteq ProviderIds /\ f.pc # "drop"
        BY <1>1 DEF ProvidersInv, Registry
    <2> QED BY <1>1, <1>3, <2>1, <2>2, <2>3, <2>4, <2>5, ProviderGoesOn
<1> QED BY <1>4, <1>5

LEMMA FindProviderKeeps ==
    ASSUME ProvidersInv, NEW c \in Coros, backend # "memory",
           At(c, "idle"), NEW current \in providers, NEW upd \in Updates,
           NEW q \in UpdateFrames, Become(c, q), q.old = current, q.upd = upd, q.new = Merged(current, upd),
           IF backend = "dynamodb" THEN q.pc = IF current.issuer = q.new.issuer THEN "write" ELSE "move"
           ELSE q.pc = "write",
           ~HasAnother(q.new), Crossed(c, q), UNCHANGED <<area, backend, providers, minted, returned>>
    PROVE  ProvidersInv'
<1>1. current \in Provider /\ current.id \in minted
    BY DEF ProvidersInv, Registry
<1>2. q \in ProviderFrames /\ q.op = "update" /\ q.pc \in {"write", "move"} /\ q.new.id = current.id /\ Midway(q)
    BY <1>1, MergedFacts DEF ProviderFrames, UpdateFrames, Midway
<1>3. raced \subseteq raced' /\ (backend = "memory" => \A r \in raced : r[1] = "half")'
    BY CrossedFacts
<1>4. Shaped(q)' /\ Fresh(q)'
    BY <1>1, <1>2 DEF Shaped, Fresh
<1>5. Steady(q)'
    <2> SUFFICES ASSUME backend = "dynamodb", ~Dirty(current.id)'
                 PROVE  {p \in providers : p.id = current.id} = {current}
        BY <1>2 DEF Steady, RowsOf, Dirty, Raced
    <2>1. ~Dirty(current.id)
        BY <1>3 DEF Dirty, Raced
    <2>2. ~Moving(current.id)
        <3> SUFFICES ASSUME NEW d \in Coros, NEW r, r = co[d], r.pc = "drop", r.new.id = current.id PROVE FALSE
            BY DEF Moving, At
        <3>1. d # c /\ Midway(r)
            BY DEF At, Midway
        <3>2. Raced("update", q.new.id)'
            BY <1>2, <3>1, CrossedFacts
        <3> QED BY <1>2, <3>2 DEF Dirty
    <2> QED BY <2>1, <2>2 DEF ProvidersInv, ProvidersDiffer, Doubled, Dirty
<1>6. Own(q)' /\ SlugClear(q)'
    <2>1. \A p \in providers : p.issuer = current.issuer => p.id = current.id
        BY DEF ProvidersInv, ProvidersDiffer
    <2>2. \A p \in providers : p.id # q.new.id => p.slug # q.new.slug
        BY DEF HasAnother, SlugTaken
    <2> QED BY <1>2, <2>1, <2>2 DEF Own, SlugClear
<1>7. ASSUME NEW d \in Coros, NEW r, d # c, r = co[d] PROVE Separate(q, r)' /\ Separate(r, q)'
    <2>1. r \in ProviderFrames /\ (r.op = "save" => r.new.id # q.new.id)
        BY <1>2, <1>7, ProviderCallFacts DEF Requested, Fresh
    <2>2. Midway(r) =>
              /\ q.new.slug = r.new.slug /\ q.new.id # r.new.id => Raced("slug", q.new.slug)'
              /\ q.new.id = r.new.id \/ (backend = "dynamodb" /\ (Shares(q, r) \/ Shares(r, q))) =>
                     Raced("update", q.new.id)' /\ Raced("update", r.new.id)'
        BY <1>7, CrossedFacts
    <2> QED BY <1>2, <2>1, <2>2, FoundSeparate
<1>8. /\ minted \subseteq minted' /\ minted' \subseteq ProviderIds
      /\ \A f : f = co[c] => f.pc # "drop"
    BY DEF ProvidersInv, Registry, At
<1>9. Requested(q)'
    BY <1>4, <1>5, <1>6 DEF Requested
<1> QED BY <1>2, <1>3, <1>7, <1>8, <1>9, ProviderGoesOn

LEMMA SqlFindProviderKeeps ==
    ASSUME ProvidersInv, NEW c \in Coros, SqlFindProvider(c) \/ MongoFindProvider(c) PROVE ProvidersInv' /\ area' = area
<1>1. /\ At(c, "idle") /\ backend \in {"sql", "mongodb"}
      /\ UNCHANGED <<area, backend, providers, minted, returned>>
    BY DEF SqlFindProvider, MongoFindProvider, FindProvider, providerVars
<1>2. PICK current \in providers, upd \in Updates :
          LET new == Merged(current, upd)
              frame == [op |-> "update", pc |-> "write", old |-> current, upd |-> upd, new |-> new]
          IN ~HasAnother(new) /\ Become(c, frame) /\ Crossed(c, frame)
    BY DEF SqlFindProvider, MongoFindProvider, FindProvider, ToWrite
<1> SUFFICES ASSUME NEW n, n = Merged(current, upd),
                    NEW q, q = [op |-> "update", pc |-> "write", old |-> current, upd |-> upd, new |-> n]
             PROVE  ProvidersInv' /\ area' = area
    OBVIOUS
<1>3. current \in Provider /\ n \in Provider
    BY MergedFacts DEF ProvidersInv, Registry
<1>4. q \in UpdateFrames /\ q.pc = "write" /\ q.old = current /\ q.upd = upd /\ q.new = n
    BY <1>3 DEF UpdateFrames
<1> QED BY <1>1, <1>2, <1>4, FindProviderKeeps

LEMMA DynamoFindProviderKeeps ==
    ASSUME ProvidersInv, NEW c \in Coros, DynamoFindProvider(c) PROVE ProvidersInv' /\ area' = area
<1>1. /\ At(c, "idle") /\ backend = "dynamodb"
      /\ UNCHANGED <<area, backend, providers, minted, returned>>
    BY DEF DynamoFindProvider, FindProvider, providerVars
<1>2. PICK current \in providers, upd \in Updates :
          LET new == Merged(current, upd)
              frame == [op |-> "update", pc |-> PutOrMove(current, new), old |-> current, upd |-> upd, new |-> new]
          IN ~HasAnother(new) /\ Become(c, frame) /\ Crossed(c, frame)
    BY DEF DynamoFindProvider, FindProvider
<1> SUFFICES ASSUME NEW n, n = Merged(current, upd), NEW step, step = PutOrMove(current, n),
                    NEW q, q = [op |-> "update", pc |-> step, old |-> current, upd |-> upd, new |-> n]
             PROVE  ProvidersInv' /\ area' = area
    OBVIOUS
<1>3. current \in Provider /\ n \in Provider
    BY MergedFacts DEF ProvidersInv, Registry
<1>4. q \in UpdateFrames /\ q.pc = step /\ q.old = current /\ q.upd = upd /\ q.new = n
    BY <1>3 DEF UpdateFrames, PutOrMove
<1>5. step = IF current.issuer = n.issuer THEN "write" ELSE "move"
    BY DEF PutOrMove
<1> QED BY <1>1, <1>2, <1>4, <1>5, FindProviderKeeps

LEMMA ProviderRequestDiesKeeps ==
    ASSUME ProvidersInv, NEW c \in Coros, ProviderRequestDies(c) PROVE ProvidersInv' /\ area' = area
<1> SUFFICES ASSUME NEW f, f = co[c] PROVE ProvidersInv' /\ area' = area
    OBVIOUS
<1>1. Return(c) /\ UNCHANGED <<area, backend, providers, minted, returned>> /\ backend # "memory"
    BY DEF ProviderRequestDies, Continue, providerVars
<1>2. raced \subseteq raced' /\ (f.pc # "drop" \/ Raced("moved", f.new.id)')
    BY DEF ProviderRequestDies, Overlap, At, Raced
<1> QED BY <1>1, <1>2, ProviderEnds

LEMMA ProvidersStart ==
    ASSUME ProvidersAtRest, backend \in Backends, co = [c \in Coros |-> Idle], raced = {}
    PROVE  ProvidersInv
<1>1. \A c \in Coros : co[c] = Idle
    OBVIOUS
<1>2. /\ providers \subseteq Provider
      /\ \A p, q \in providers : p # q => p.id # q.id /\ p.issuer # q.issuer /\ p.slug # q.slug
    BY CatalogsAssumption DEF ProvidersAtRest
<1>3. minted = {p.id : p \in providers} /\ minted \subseteq ProviderIds
    BY <1>2 DEF ProvidersAtRest, Provider
<1>4. ASSUME NEW i \in minted
      PROVE  returned[i] \in providers /\ {p \in providers : p.id = i} = {returned[i]}
    <2>1. \E p \in providers : p.id = i
        BY <1>3
    <2>2. returned[i] = CHOOSE p \in providers : p.id = i
        BY <1>3 DEF ProvidersAtRest
    <2>3. returned[i] \in providers /\ returned[i].id = i
        BY <2>1, <2>2
    <2> QED BY <1>2, <2>3
<1>5. \A i \in ProviderIds \ minted : returned[i] = None
    BY DEF ProvidersAtRest
<1>6. Registry
    <2>1. returned \in [ProviderIds -> Provider \cup {None}]
        BY <1>2, <1>4, <1>5 DEF ProvidersAtRest
    <2> QED BY <1>2, <1>3, <2>1 DEF Registry
<1>7. ProvidersDiffer /\ AsReturned /\ Strict
    BY <1>2, <1>4, <1>5 DEF ProvidersDiffer, AsReturned, Strict
<1>8. co \in [Coros -> ProviderFrames] /\ \A c \in Coros : Requested(co[c])
    BY <1>1, IdleRequest DEF ProviderFrames
<1>9. \A c, d \in Coros : Separate(co[c], co[d])
    BY <1>1 DEF Separate, Idle, Midway
<1> QED BY <1>6, <1>7, <1>8, <1>9 DEF ProvidersInv

LEMMA ProvidersStep ==
    ASSUME ProvidersInv, ProvidersNext
    PROVE  ProvidersInv' /\ area' = area
<1>1. ASSUME NEW c \in Coros, ProviderRequestDies(c) PROVE ProvidersInv' /\ area' = area
    BY <1>1, ProviderRequestDiesKeeps
<1>2. ASSUME NEW c \in Coros,
             \/ Save(c) \/ MemorySaveProvider(c) \/ SqlSaveProvider(c) \/ MongoSaveProvider(c)
             \/ MemoryUpdateProvider(c) \/ SqlUpdateProvider(c) \/ MongoUpdateProvider(c)
      PROVE  ProvidersInv' /\ area' = area
    BY <1>2, SaveKeeps, InsertProviderKeeps, MemoryUpdateProviderKeeps, WriteProviderKeeps
       DEF MemorySaveProvider, SqlSaveProvider, MongoSaveProvider, SqlUpdateProvider, MongoUpdateProvider
<1>3. ASSUME NEW c \in Coros,
             \/ DynamoScanProviders(c) \/ DynamoPutProvider(c) \/ SqlFindProvider(c) \/ MongoFindProvider(c)
             \/ DynamoFindProvider(c) \/ DynamoUpdateProvider(c) \/ DynamoMove(c) \/ DynamoDropOld(c)
      PROVE  ProvidersInv' /\ area' = area
    BY <1>3, DynamoScanProvidersKeeps, DynamoPutProviderKeeps, SqlFindProviderKeeps, DynamoFindProviderKeeps,
       DynamoUpdateProviderKeeps, DynamoMoveKeeps, DynamoDropOldKeeps
<1> QED BY <1>1, <1>2, <1>3 DEF ProvidersNext

LEMMA ProvidersSafe == ProvidersInv => ProvidersSound
BY DEF ProvidersInv, ProvidersSound, Registry, Strict

LEMMA ProvidersStill ==
    ASSUME ProvidersInv, UNCHANGED <<base, providerVars>>
    PROVE  ProvidersInv'
<1>1. UNCHANGED <<backend, co, raced, providers, minted, returned>>
    BY DEF base, providerVars
<1>2. \A j : Doubled(j) => Doubled(j)'
    BY <1>1 DEF Doubled, Moving, At, Raced
<1>3. Registry' /\ ProvidersDiffer' /\ AsReturned' /\ Strict'
    BY <1>1, <1>2, RegistryKept DEF ProvidersInv, Registry
<1>4. ASSUME NEW d \in Coros PROVE Requested(co[d])'
    <2> SUFFICES ASSUME NEW r, r = co[d] PROVE Requested(r)'
        BY <1>1, Zenon
           DEF Requested, Shaped, Fresh, Steady, Own, SlugClear, Midway, RowsOf, Dirty, Raced, Merged
    <2> QED BY <1>1, <1>2, ProviderCallFacts, RequestedKept
<1>5. ASSUME NEW d \in Coros, NEW e \in Coros, d # e PROVE Separate(co[d], co[e])'
    <2> SUFFICES ASSUME NEW r, NEW s, r = co[d], s = co[e] PROVE Separate(r, s)'
        BY <1>1 DEF Separate, Midway, Shares, Raced
    <2> QED BY <1>1, <1>5, SeparateKept DEF ProvidersInv
<1> QED BY <1>1, <1>3, <1>4, <1>5 DEF ProvidersInv

------------------------------------------------------------------------------
(* The authenticator app: its setup, its guesses and its backup codes.        *)

(* A request in flight: what it has read is of the user, and, unless a step it  *)
(* did not see came in between, still so.                                       *)
MfaRows == [enabled : BOOLEAN, secret : Nat, codes : SUBSET (Nat \X Batch)]
MfaCalls ==
    [op : {"setup", "confirm", "verify", "backup"},
     pc : {"offer", "budget", "turned", "peek", "compare", "drop", "update", "clear", "ttl"},
     copy : MfaRows, code : Nat \X (Batch \cup {0}), secret : Nat, id : Nat]
MfaFrames == {Idle} \cup MfaCalls

Placed(q) ==
    /\ q.op = "setup" <=> q.pc = "offer"
    /\ q.pc \in {"peek", "drop"} => q.op = "confirm"
    /\ q.pc = "update" => q.op \in {"confirm", "backup"}

(* A confirmation goes on with a secret that was offered, and that is still the *)
(* pending one, or gone.                                                        *)
Confirming(q) ==
    q.op = "confirm" /\ q.pc \in {"compare", "drop", "update"} =>
        /\ q.secret \in 1..secrets
        /\ q.pc # "update" => offered \in {NoSecret, q.secret} \/ Raced("pending", "user")

(* A backup code is looked for in the codes of the row as it is. *)
Backing(q) ==
    q.op = "backup" =>
        /\ q.copy.codes \subseteq (1..batches) \X Batch
        /\ q.code \in (1..batches) \X Batch
        /\ q.pc = "update" => q.code \in q.copy.codes
        /\ q.pc \in {"budget", "compare", "update"} => q.copy = row \/ Raced("codes", "user")

(* Who is past the check of the budget has a guess left. *)
Budgeted(q) == q.pc \in {"peek", "compare"} => attempts < MaxAttempts \/ Raced("budget", "user")

MfaCalled(q) == Placed(q) /\ Confirming(q) /\ Backing(q) /\ Budgeted(q)

(* The store and the history. *)
MfaTypes ==
    /\ offered \in 0..secrets /\ secrets \in Nat /\ batches \in Nat /\ attempts \in Nat
    /\ row \in MfaRows /\ row.secret \in 0..secrets
    /\ row.codes \subseteq (1..batches) \X Batch
    /\ row.enabled => row.secret # NoSecret
    /\ window \in BOOLEAN
    /\ spent \subseteq ((1..batches) \X Batch) \X Nat
    /\ flows \in Nat
Capped == attempts <= MaxAttempts \/ Raced("budget", "user")

MfaInv ==
    /\ MfaTypes /\ rejected = attempts /\ Capped
    /\ co \in [Coros -> MfaFrames]
    /\ \A c \in Coros : co[c] # Idle => MfaCalled(co[c])
    /\ CodesOnce /\ SetupsKept /\ CounterEnds

LEMMA MfaFrameFacts ==
    ASSUME NEW q \in MfaFrames
    PROVE  /\ q # Idle <=> q.pc # "idle"
           /\ q # Idle => /\ q \in MfaCalls
                          /\ \A step \in {"budget", "turned", "peek", "compare", "drop", "update", "clear", "ttl"} :
                                 [q EXCEPT !.pc = step] \in MfaCalls
                          /\ \A s \in Nat : [q EXCEPT !.pc = "compare", !.secret = s] \in MfaCalls
<1>1. CASE q = Idle
    BY <1>1 DEF Idle
<1>2. CASE q # Idle
    <2>1. q \in MfaCalls
        BY <1>2 DEF MfaFrames
    <2>2. q.pc # "idle"
        BY <2>1 DEF MfaCalls
    <2>3. ASSUME NEW step \in {"budget", "turned", "peek", "compare", "drop", "update", "clear", "ttl"}
          PROVE  [q EXCEPT !.pc = step] \in MfaCalls
        BY <2>1 DEF MfaCalls
    <2>4. ASSUME NEW s \in Nat PROVE [q EXCEPT !.pc = "compare", !.secret = s] \in MfaCalls
        BY <2>1 DEF MfaCalls
    <2> QED BY <1>2, <2>1, <2>2, <2>3, <2>4
<1> QED BY <1>1, <1>2

LEMMA MfaCallFacts ==
    ASSUME NEW q \in MfaCalls
    PROVE  /\ q # Idle /\ q \in MfaFrames
           /\ q.op \in {"setup", "confirm", "verify", "backup"}
           /\ q.copy \in MfaRows /\ q.copy.codes \subseteq Nat \X Batch
           /\ q.secret \in Nat /\ q.id \in Nat
           /\ q.pc \in {"offer", "budget", "turned", "peek", "compare", "drop", "update", "clear", "ttl"}
           /\ \A step : LET f == [q EXCEPT !.pc = step] IN
                  /\ f.pc = step /\ f.op = q.op /\ f.copy = q.copy /\ f.code = q.code
                  /\ f.secret = q.secret /\ f.id = q.id
           /\ \A s : LET f == [q EXCEPT !.pc = "compare", !.secret = s] IN
                  /\ f.pc = "compare" /\ f.op = q.op /\ f.copy = q.copy /\ f.code = q.code
                  /\ f.secret = s /\ f.id = q.id
BY DEF MfaCalls, MfaRows, MfaFrames, Idle

(* What a suspended request relies on, when another one takes a step. *)
LEMMA MfaCalledKept ==
    ASSUME NEW q \in MfaCalls, MfaCalled(q), raced \subseteq raced', MfaTypes,
           secrets' \in Nat, secrets <= secrets', batches' \in Nat, batches <= batches',
           attempts' \in Nat,
           \/ offered' \in {offered, NoSecret} \/ Raced("pending", "user")'
           \/ ~(q.op = "confirm" /\ q.pc \in {"compare", "drop"}),
           row' = row \/ Raced("codes", "user")' \/ q.op # "backup" \/ q.copy = row',
           attempts' <= attempts \/ Raced("budget", "user")' \/ q.pc \notin {"peek", "compare"}
    PROVE  MfaCalled(q)'
<1>1. Confirming(q)'
    <2> SUFFICES ASSUME q.op = "confirm", q.pc \in {"compare", "drop", "update"}
                 PROVE  /\ q.secret \in 1..secrets'
                        /\ q.pc # "update" => offered' \in {NoSecret, q.secret} \/ Raced("pending", "user")'
        BY DEF Confirming
    <2>1. q.secret \in 1..secrets /\ secrets \in Nat
        BY DEF MfaCalled, Confirming, MfaTypes
    <2>2. q.secret \in 1..secrets'
        BY <2>1
    <2>3. q.pc # "update" => offered \in {NoSecret, q.secret} \/ Raced("pending", "user")
        BY DEF MfaCalled, Confirming
    <2> QED BY <2>2, <2>3 DEF Raced
<1>2. Backing(q)'
    <2> SUFFICES ASSUME q.op = "backup" PROVE Backing(q)'
        BY DEF Backing
    <2>1. (1..batches) \X Batch \subseteq (1..batches') \X Batch
        BY DEF MfaTypes
    <2>2. /\ q.copy.codes \subseteq (1..batches') \X Batch
          /\ q.code \in (1..batches') \X Batch
          /\ q.pc = "update" => q.code \in q.copy.codes
        BY <2>1 DEF MfaCalled, Backing
    <2>3. q.pc \in {"budget", "compare", "update"} => q.copy = row' \/ Raced("codes", "user")'
        BY DEF MfaCalled, Backing, Raced
    <2> QED BY <2>2, <2>3 DEF Backing
<1>3. Budgeted(q)'
    <2>1. attempts \in Nat /\ attempts' \in Nat
        BY DEF MfaTypes
    <2> QED BY <2>1, MaxAttemptsAssumption DEF MfaCalled, Budgeted, Raced
<1>4. Placed(q)'
    BY DEF MfaCalled, Placed
<1> QED BY <1>1, <1>2, <1>3, <1>4 DEF MfaCalled

LEMMA MfaAssembled ==
    ASSUME MfaInv, NEW c \in Coros, NEW q \in MfaFrames, Become(c, q), q # Idle => MfaCalled(q)',
           \A d \in Coros \ {c}, r \in MfaCalls : r = co[d] => MfaCalled(r)',
           MfaTypes', rejected' = attempts', Capped', CodesOnce', SetupsKept', CounterEnds'
    PROVE  MfaInv'
<1>1. co' \in [Coros -> MfaFrames] /\ \A d \in Coros : co'[d] = IF d = c THEN q ELSE co[d]
    BY DEF MfaInv, Become
<1>2. ASSUME NEW d \in Coros, co'[d] # Idle PROVE MfaCalled(co[d])'
    <2> SUFFICES ASSUME NEW r, r = co'[d] PROVE MfaCalled(r)'
        BY DEF MfaCalled, Placed, Confirming, Backing, Budgeted, Raced
    <2>1. r = q \/ (d # c /\ r = co[d] /\ r \in MfaCalls)
        BY <1>1, <1>2, MfaFrameFacts DEF MfaInv
    <2> QED BY <1>1, <1>2, <2>1
<1> QED BY <1>1, <1>2 DEF MfaInv

LEMMA CounterKept ==
    ASSUME MfaInv, NEW c \in Coros, NEW q, Become(c, q), raced \subseteq raced',
           attempts' = attempts, window' = window,
           co[c].pc # "ttl" \/ Raced("died", "counter")'
    PROVE  CounterEnds'
<1>1. \A d \in Coros : d # c => co'[d] = co[d]
    BY DEF MfaInv, Become
<1> QED BY <1>1 DEF MfaInv, CounterEnds, At, Raced

(* A request begins, goes on or ends, and the store is as it was. *)
LEMMA MfaQuiet ==
    ASSUME MfaInv, NEW c \in Coros, NEW q \in MfaFrames, Become(c, q), q # Idle => MfaCalled(q)',
           UNCHANGED mfaVars, raced \subseteq raced', flows' \in Nat,
           co[c].pc # "ttl" \/ Raced("died", "counter")'
    PROVE  MfaInv'
<1>1. UNCHANGED <<offered, attempts, window, row, secrets, batches, rejected, spent, lostSetup>>
    BY DEF mfaVars, mfaCache, drawn, mfaHistory
<1>2. MfaTypes' /\ rejected' = attempts' /\ Capped' /\ CodesOnce' /\ SetupsKept'
    BY <1>1 DEF MfaInv, MfaTypes, Capped, CodesOnce, SetupsKept, Raced
<1>3. CounterEnds'
    BY <1>1, CounterKept
<1>4. ASSUME NEW d \in Coros \ {c}, NEW r \in MfaCalls, r = co[d] PROVE MfaCalled(r)'
    <2>1. MfaCalled(r)
        BY <1>4, MfaCallFacts DEF MfaInv
    <2> QED BY <1>1, <2>1, MfaCalledKept DEF MfaInv, MfaTypes
<1> QED BY <1>2, <1>3, <1>4, MfaAssembled

LEMMA MfaBegins ==
    ASSUME MfaInv, NEW c \in Coros, NEW kind, NEW step, NEW code,
           \/ kind = "setup" /\ step = "offer" /\ code = Totp(NoSecret)
           \/ kind \in {"confirm", "verify"} /\ step = "budget" /\ \E s \in 0..secrets : code = Totp(s)
           \/ kind = "backup" /\ step = "budget" /\ code \in (1..batches) \X Batch,
           Begin(c, ReadUser(kind, step, code)), UNCHANGED <<area, backend, raced, mfaVars>>
    PROVE  MfaInv' /\ area' = area
<1> SUFFICES ASSUME NEW q, q = ReadUser(kind, step, code) PROVE MfaInv' /\ area' = area
    OBVIOUS
<1>1. Become(c, q) /\ flows' = flows + 1 /\ co[c].pc = "idle"
    BY DEF Begin, MayBegin, At
<1>2. /\ q.op = kind /\ q.pc = step /\ q.copy = row /\ q.code = code
      /\ q = [op |-> kind, pc |-> step, copy |-> row, code |-> code, secret |-> NoSecret, id |-> flows]
    BY DEF ReadUser
<1>3. code \in Nat \X (Batch \cup {0}) /\ flows \in Nat /\ row \in MfaRows
    BY DEF Totp, NoSecret, MfaInv, MfaTypes
<1>4. q \in MfaCalls
    BY <1>2, <1>3 DEF MfaCalls, NoSecret
<1>5. MfaCalled(q)'
    <2>1. UNCHANGED <<row, batches>>
        BY DEF mfaVars, drawn
    <2> QED BY <1>2, <2>1 DEF MfaCalled, Placed, Confirming, Backing, Budgeted, MfaInv, MfaTypes
<1> QED BY <1>1, <1>3, <1>4, <1>5, MfaQuiet DEF MfaFrames

LEMMA MfaStart ==
    ASSUME MfaAtRest, co = [c \in Coros |-> Idle], flows = 0
    PROVE  MfaInv
<1>1. MfaTypes
    BY MaxAttemptsAssumption DEF MfaAtRest, MfaTypes, MfaRow, MfaRows, CodesOf, NoSecret
<1>2. rejected = attempts /\ Capped /\ SetupsKept
    BY MaxAttemptsAssumption DEF MfaAtRest, Capped, SetupsKept
<1>4. CounterEnds
    <2>1. window = (attempts > 0)
        BY DEF MfaAtRest
    <2>2. attempts > 0 => window
        BY <2>1
    <2> QED BY <2>2 DEF CounterEnds
<1>3. CodesOnce
    BY DEF MfaAtRest, CodesOnce, MfaRow
<1> QED BY <1>1, <1>2, <1>3, <1>4 DEF MfaInv, MfaFrames

LEMMA MfaStep ==
    ASSUME MfaInv, MfaNext
    PROVE  MfaInv' /\ area' = area
<1>1. ASSUME NEW c \in Coros, SetupMfa(c) PROVE MfaInv' /\ area' = area
    BY <1>1, MfaBegins DEF SetupMfa
<1>2. ASSUME NEW c \in Coros, ConfirmMfa(c) PROVE MfaInv' /\ area' = area
    BY <1>2, MfaBegins DEF ConfirmMfa
<1>3. ASSUME NEW c \in Coros, VerifyMfaCode(c) PROVE MfaInv' /\ area' = area
    BY <1>3, MfaBegins DEF VerifyMfaCode
<1>4. ASSUME NEW c \in Coros, UseBackupCode(c) PROVE MfaInv' /\ area' = area
    BY <1>4, MfaBegins DEF UseBackupCode
<1>5. ASSUME NEW c \in Coros, MfaDies(c) PROVE MfaInv' /\ area' = area
    <2>1. area' = area /\ flows' = flows /\ Become(c, Idle) /\ UNCHANGED mfaVars
        BY <1>5 DEF MfaDies, Continue, Return
    <2>2. raced \subseteq raced' /\ (co[c].pc # "ttl" \/ Raced("died", "counter")')
        BY <1>5 DEF MfaDies, Overlap, At, Raced
    <2> QED BY <2>1, <2>2, MfaQuiet DEF MfaFrames, MfaInv, MfaTypes
<1>6. ASSUME NEW c \in Coros, StorePending(c) PROVE MfaInv' /\ area' = area
    <2>1. /\ area' = area /\ flows' = flows /\ Become(c, Idle) /\ co[c].pc = "offer"
          /\ secrets' = secrets + 1 /\ offered' = secrets'
          /\ UNCHANGED <<attempts, window, row, batches, rejected, spent, lostSetup>>
        BY <1>6 DEF StorePending, Continue, Return, At, mfaHistory
    <2>2. raced \subseteq raced'
        BY <1>6 DEF StorePending, Overlap
    <2>3. secrets \in Nat /\ secrets' \in Nat /\ secrets <= secrets' /\ offered' \in 0..secrets'
        BY <2>1 DEF MfaInv, MfaTypes
    <2>4. MfaTypes' /\ rejected' = attempts' /\ Capped' /\ CodesOnce' /\ SetupsKept'
        BY <2>1, <2>2, <2>3 DEF MfaInv, MfaTypes, Capped, CodesOnce, SetupsKept, Raced
    <2>5. CounterEnds'
        BY <2>1, <2>2, CounterKept
    <2>6. ASSUME NEW d \in Coros \ {c}, NEW r \in MfaCalls, r = co[d] PROVE MfaCalled(r)'
        <3>1. MfaCalled(r) /\ r.pc # "idle"
            BY <2>6, MfaCallFacts DEF MfaInv
        <3>2. Raced("pending", "user")' \/ ~(r.op = "confirm" /\ r.pc \in {"compare", "drop"})
            BY <1>6, <2>6, <3>1 DEF StorePending, Overlap, Busy, At, Raced
        <3> QED BY <2>1, <2>2, <2>3, <3>1, <3>2, MfaCalledKept DEF MfaInv, MfaTypes
    <2> QED BY <2>1, <2>4, <2>5, <2>6, MfaAssembled DEF MfaFrames
<1>7. ASSUME NEW c \in Coros, CheckAttemptBudget(c) PROVE MfaInv' /\ area' = area
    <2>0. /\ co[c] \in MfaCalls /\ MfaCalled(co[c]) /\ co[c].pc = "budget"
        BY <1>7, MfaFrameFacts DEF CheckAttemptBudget, At, MfaInv
    <2>1. /\ area' = area /\ flows' = flows
          /\ UNCHANGED <<raced, offered, row, secrets, batches, spent, lostSetup>>
        BY <1>7 DEF CheckAttemptBudget, Continue, drawn
    <2> SUFFICES ASSUME NEW step \in {"peek", "compare", "turned"},
                        step = "peek" <=> step # "turned" /\ co[c].op = "confirm",
                        step # "turned" => attempts' < MaxAttempts,
                        NEW q, q = [co[c] EXCEPT !.pc = step], Become(c, q)
                 PROVE  MfaInv'
        BY <1>7, <2>1 DEF CheckAttemptBudget, Goto, WithinBudget
    <2>2. q \in MfaCalls /\ q.pc = step /\ q.op = co[c].op /\ q.copy = co[c].copy /\ q.code = co[c].code
        <3> SUFFICES ASSUME NEW f, f = co[c] PROVE /\ [f EXCEPT !.pc = step] \in MfaCalls
                                                 /\ LET g == [f EXCEPT !.pc = step]
                                                    IN  g.pc = step /\ g.op = f.op /\ g.copy = f.copy /\ g.code = f.code
            OBVIOUS
        <3>1. f \in MfaCalls
            BY <2>0
        <3>2. f # Idle /\ f \in MfaFrames
            BY <3>1, MfaCallFacts
        <3>3. [f EXCEPT !.pc = step] \in MfaCalls
            BY <3>2, MfaFrameFacts
        <3> QED BY <3>1, <3>3, MfaCallFacts
    <2>3. /\ attempts' \in Nat /\ attempts' <= attempts /\ rejected' = attempts' /\ window' \in BOOLEAN
          /\ (attempts' = attempts /\ window' = window) \/ attempts' = 0
        <3>1. attempts \in Nat /\ rejected = attempts /\ window \in BOOLEAN
            BY DEF MfaInv, MfaTypes
        <3>2. CASE WindowEnds
            <4>1. attempts' = 0 /\ rejected' = 0 /\ window' = FALSE
                BY <3>2 DEF WindowEnds
            <4>2. attempts' \in Nat /\ attempts' <= attempts /\ rejected' = attempts'
                BY <3>1, <4>1
            <4>3. window' \in BOOLEAN
                BY <4>1
            <4> QED BY <4>1, <4>2, <4>3
        <3>3. CASE WindowLasts
            BY <3>1, <3>3 DEF WindowLasts
        <3> QED BY <1>7, <3>2, <3>3 DEF CheckAttemptBudget
    <2>4. MfaCalled(q)'
        <3>1. Placed(q)' /\ Budgeted(q)'
            BY <2>0, <2>2 DEF MfaCalled, Placed, Budgeted
        <3>2. Confirming(q)'
            <4>1. CASE q.op = "confirm"
                BY <2>2, <4>1 DEF Confirming
            <4>2. CASE q.op # "confirm"
                BY <4>2 DEF Confirming
            <4> QED BY <4>1, <4>2
        <3>3. Backing(q)'
            BY <2>0, <2>1, <2>2 DEF MfaCalled, Backing, Raced
        <3> QED BY <3>1, <3>2, <3>3 DEF MfaCalled
    <2>5. MfaTypes' /\ Capped' /\ CodesOnce' /\ SetupsKept'
        BY <2>1, <2>3, MaxAttemptsAssumption DEF MfaInv, MfaTypes, Capped, CodesOnce, SetupsKept, Raced
    <2>6. CounterEnds'
        <3>1. CASE attempts' = attempts /\ window' = window
            BY <2>0, <2>1, <3>1, CounterKept
        <3>2. CASE attempts' = 0
            BY <3>2 DEF CounterEnds
        <3> QED BY <2>3, <3>1, <3>2
    <2>7. ASSUME NEW d \in Coros \ {c}, NEW r \in MfaCalls, r = co[d] PROVE MfaCalled(r)'
        <3>1. MfaCalled(r)
            BY <2>7, MfaCallFacts DEF MfaInv
        <3> QED BY <2>1, <2>3, <3>1, MfaCalledKept DEF MfaInv, MfaTypes
    <2> QED BY <2>1, <2>2, <2>3, <2>4, <2>5, <2>6, <2>7, MfaAssembled DEF MfaFrames
<1>8. ASSUME NEW c \in Coros, TurnAway(c) PROVE MfaInv' /\ area' = area
    <2>0. co[c].pc = "turned"
        BY <1>8 DEF TurnAway, At
    <2>1. /\ area' = area /\ flows' = flows /\ Become(c, Idle)
          /\ UNCHANGED <<raced, offered, attempts, row, secrets, batches, rejected, spent, lostSetup>>
        BY <1>8 DEF TurnAway, Continue, Return, drawn, mfaHistory
    <2>2. (attempts' > 0 => window') /\ window' \in BOOLEAN
        <3>1. window' = (attempts' > 0)
            BY <1>8, <2>1 DEF TurnAway
        <3>2. attempts' > 0 => window'
            BY <3>1
        <3>3. window' \in BOOLEAN
            BY <3>1
        <3> QED BY <3>2, <3>3
    <2>3. MfaTypes' /\ rejected' = attempts' /\ Capped' /\ CodesOnce' /\ SetupsKept'
        BY <2>1, <2>2 DEF MfaInv, MfaTypes, Capped, CodesOnce, SetupsKept, Raced
    <2>4. CounterEnds'
        BY <2>2 DEF CounterEnds
    <2>5. ASSUME NEW d \in Coros \ {c}, NEW r \in MfaCalls, r = co[d] PROVE MfaCalled(r)'
        BY <2>1, <2>5, MfaCallFacts, MfaCalledKept DEF MfaInv, MfaTypes
    <2> QED BY <2>1, <2>3, <2>4, <2>5, MfaAssembled DEF MfaFrames
<1>9. ASSUME NEW c \in Coros, ExpireCounter(c) PROVE MfaInv' /\ area' = area
    <2>1. /\ area' = area /\ flows' = flows /\ Become(c, Idle)
          /\ UNCHANGED <<raced, offered, attempts, row, secrets, batches, rejected, spent, lostSetup>>
        BY <1>9 DEF ExpireCounter, Continue, Return, drawn, mfaHistory
    <2>2. (attempts' > 0 => window') /\ window' \in BOOLEAN
        <3>1. window' = (attempts' > 0)
            BY <1>9, <2>1 DEF ExpireCounter
        <3>2. attempts' > 0 => window'
            BY <3>1
        <3>3. window' \in BOOLEAN
            BY <3>1
        <3> QED BY <3>2, <3>3
    <2>3. MfaTypes' /\ rejected' = attempts' /\ Capped' /\ CodesOnce' /\ SetupsKept'
        BY <2>1, <2>2 DEF MfaInv, MfaTypes, Capped, CodesOnce, SetupsKept, Raced
    <2>4. CounterEnds'
        BY <2>2 DEF CounterEnds
    <2>5. ASSUME NEW d \in Coros \ {c}, NEW r \in MfaCalls, r = co[d] PROVE MfaCalled(r)'
        BY <2>1, <2>5, MfaCallFacts, MfaCalledKept DEF MfaInv, MfaTypes
    <2> QED BY <2>1, <2>3, <2>4, <2>5, MfaAssembled DEF MfaFrames
<1>10. ASSUME NEW c \in Coros, ClearAttempts(c) PROVE MfaInv' /\ area' = area
    <2>1. /\ area' = area /\ flows' = flows /\ Become(c, Idle)
          /\ attempts' = 0 /\ window' = FALSE /\ rejected' = 0
          /\ UNCHANGED <<raced, offered, row, secrets, batches, spent, lostSetup>>
        BY <1>10 DEF ClearAttempts, Continue, Return, drawn
    <2>2. attempts \in Nat /\ attempts' <= attempts
        BY <2>1 DEF MfaInv, MfaTypes
    <2>3. MfaTypes' /\ rejected' = attempts' /\ Capped' /\ CodesOnce' /\ SetupsKept'
        <3>1. MfaTypes'
            BY <2>1 DEF MfaInv, MfaTypes
        <3>2. rejected' = attempts' /\ Capped'
            BY <2>1, MaxAttemptsAssumption DEF Capped
        <3>3. CodesOnce' /\ SetupsKept'
            BY <2>1 DEF MfaInv, CodesOnce, SetupsKept, Raced
        <3> QED BY <3>1, <3>2, <3>3
    <2>4. CounterEnds'
        BY <2>1 DEF CounterEnds
    <2>5. ASSUME NEW d \in Coros \ {c}, NEW r \in MfaCalls, r = co[d] PROVE MfaCalled(r)'
        BY <2>1, <2>2, <2>5, MfaCallFacts, MfaCalledKept DEF MfaInv, MfaTypes
    <2> QED BY <2>1, <2>3, <2>4, <2>5, MfaAssembled DEF MfaFrames
<1>11. ASSUME NEW c \in Coros, PeekPending(c) PROVE MfaInv' /\ area' = area
    <2>0. /\ co[c] \in MfaCalls /\ MfaCalled(co[c]) /\ co[c].pc = "peek"
        BY <1>11, MfaFrameFacts DEF PeekPending, At, MfaInv
    <2>1. /\ area' = area /\ flows' = flows
          /\ UNCHANGED <<raced, attempts, window, row, secrets, batches, rejected, spent, lostSetup>>
        BY <1>11 DEF PeekPending, Continue, drawn, mfaHistory
    <2>2. CASE /\ offered # NoSecret /\ UNCHANGED offered
               /\ Become(c, [co[c] EXCEPT !.pc = "compare", !.secret = offered])
        <3> SUFFICES ASSUME NEW f, f = co[c], NEW q, q = [f EXCEPT !.pc = "compare", !.secret = offered],
                            Become(c, q)
                     PROVE  MfaInv'
            BY <2>1, <2>2
        <3>1. offered \in Nat /\ offered \in 1..secrets
            BY <2>2 DEF MfaInv, MfaTypes, NoSecret
        <3>2. f \in MfaCalls /\ MfaCalled(f) /\ f.pc = "peek"
            BY <2>0
        <3>3. q \in MfaCalls
            BY <3>1, <3>2, MfaCallFacts, MfaFrameFacts
        <3>4. q.pc = "compare" /\ q.op = f.op /\ q.secret = offered
            BY <3>2, MfaCallFacts
        <3>5. MfaCalled(q)'
            BY <2>1, <2>2, <3>1, <3>2, <3>4 DEF MfaCalled, Placed, Confirming, Backing, Budgeted, Raced
        <3> QED BY <2>0, <2>1, <2>2, <3>3, <3>5, MfaQuiet
               DEF MfaFrames, MfaInv, MfaTypes, mfaVars, mfaCache, drawn, mfaHistory
    <2>3. CASE offered' = NoSecret /\ Become(c, Idle)
        <3>1. MfaTypes' /\ rejected' = attempts' /\ Capped' /\ CodesOnce' /\ SetupsKept'
            BY <2>1, <2>3 DEF MfaInv, MfaTypes, Capped, CodesOnce, SetupsKept, Raced, NoSecret
        <3>2. CounterEnds'
            BY <2>0, <2>1, <2>3, CounterKept
        <3>3. ASSUME NEW d \in Coros \ {c}, NEW r \in MfaCalls, r = co[d] PROVE MfaCalled(r)'
            BY <2>1, <2>3, <3>3, MfaCallFacts, MfaCalledKept DEF MfaInv, MfaTypes
        <3> QED BY <2>1, <2>3, <3>1, <3>2, <3>3, MfaAssembled DEF MfaFrames
    <2> QED BY <1>11, <2>1, <2>2, <2>3 DEF PeekPending, Return
<1>12. ASSUME NEW c \in Coros, DropPending(c) PROVE MfaInv' /\ area' = area
    <2>0. /\ co[c] \in MfaCalls /\ MfaCalled(co[c]) /\ co[c].pc = "drop"
        BY <1>12, MfaFrameFacts DEF DropPending, At, MfaInv
    <2> SUFFICES ASSUME NEW f, f = co[c], NEW q, q = [f EXCEPT !.pc = "update"], Become(c, q)
                 PROVE  MfaInv' /\ area' = area
        BY <1>12 DEF DropPending, Goto
    <2>1. /\ area' = area /\ flows' = flows /\ offered' = NoSecret
          /\ lostSetup' = lostSetup \cup ({offered} \ {f.secret, NoSecret})
          /\ UNCHANGED <<raced, attempts, window, row, secrets, batches, rejected, spent>>
        BY <1>12 DEF DropPending, Continue, drawn
    <2>2. f \in MfaCalls /\ MfaCalled(f) /\ f.pc = "drop" /\ f.op = "confirm"
        BY <2>0 DEF MfaCalled, Placed
    <2>3. q \in MfaCalls
        BY <2>2, MfaCallFacts, MfaFrameFacts
    <2>4. q.pc = "update" /\ q.op = f.op /\ q.secret = f.secret
        BY <2>2, MfaCallFacts
    <2>5. f.secret \in 1..secrets /\ (offered \in {NoSecret, f.secret} \/ Raced("pending", "user"))
        BY <2>2 DEF MfaCalled, Confirming
    <2>6. MfaCalled(q)'
        BY <2>1, <2>2, <2>4, <2>5 DEF MfaCalled, Placed, Confirming, Backing, Budgeted
    <2>7. MfaTypes' /\ rejected' = attempts' /\ Capped' /\ CodesOnce'
        BY <2>1 DEF MfaInv, MfaTypes, Capped, CodesOnce, Raced, NoSecret
    <2>8. SetupsKept'
        BY <2>1, <2>5 DEF MfaInv, SetupsKept, Raced
    <2>9. CounterEnds'
        BY <2>1, <2>2, CounterKept
    <2>10. ASSUME NEW d \in Coros \ {c}, NEW r \in MfaCalls, r = co[d] PROVE MfaCalled(r)'
        BY <2>1, <2>10, MfaCallFacts, MfaCalledKept DEF MfaInv, MfaTypes
    <2> QED BY <2>1, <2>3, <2>6, <2>7, <2>8, <2>9, <2>10, MfaAssembled DEF MfaFrames
<1>13. ASSUME NEW c \in Coros, Compare(c) PROVE MfaInv' /\ area' = area
    <2>0. /\ co[c] \in MfaCalls /\ MfaCalled(co[c]) /\ co[c].pc = "compare"
        BY <1>13, MfaFrameFacts DEF Compare, At, MfaInv
    <2>1. /\ area' = area /\ flows' = flows
          /\ UNCHANGED <<offered, window, row, secrets, batches, spent, lostSetup>>
        BY <1>13 DEF Compare, Continue, drawn
    <2> SUFFICES ASSUME NEW f, f = co[c], f \in MfaCalls, MfaCalled(f), f.pc = "compare"
                 PROVE  MfaInv'
        BY <2>0, <2>1
    <2>2. f.op \in {"confirm", "verify", "backup"}
        BY MfaCallFacts DEF MfaCalled, Placed
    <2>3. CASE CodeMatches(f)
        <3>1. PICK step \in {"drop", "clear", "update"} :
                  /\ step = (CASE f.op = "confirm" -> "drop" [] f.op = "verify" -> "clear" [] f.op = "backup" -> "update")
                  /\ Become(c, [f EXCEPT !.pc = step])
            BY <1>13, <2>2, <2>3 DEF Compare, Goto
        <3>2. /\ step = "drop" <=> f.op = "confirm"
              /\ step = "update" <=> f.op = "backup"
            BY <2>2, <3>1
        <3>3. UNCHANGED <<attempts, rejected, raced>>
            BY <1>13, <2>3 DEF Compare
        <3> SUFFICES ASSUME NEW q, q = [f EXCEPT !.pc = step], Become(c, q) PROVE MfaInv'
            BY <3>1
        <3>4. q \in MfaCalls
            BY MfaCallFacts, MfaFrameFacts
        <3>5. q.pc = step /\ q.op = f.op /\ q.copy = f.copy /\ q.code = f.code /\ q.secret = f.secret
            BY MfaCallFacts
        <3>6. f.op = "backup" => f.code \in f.copy.codes
            BY <2>3 DEF CodeMatches
        <3>7. Placed(q)' /\ Budgeted(q)'
            BY <3>2, <3>5, MfaCallFacts DEF MfaCalled, Placed, Budgeted
        <3>8. Confirming(q)'
            BY <2>1, <3>3, <3>5 DEF MfaCalled, Confirming, Raced
        <3>9. Backing(q)'
            BY <2>1, <3>3, <3>5, <3>6 DEF MfaCalled, Backing, Raced
        <3> QED BY <2>1, <3>3, <3>4, <3>7, <3>8, <3>9, MfaQuiet
               DEF MfaCalled, MfaFrames, MfaInv, MfaTypes, mfaVars, mfaCache, drawn, mfaHistory
    <2>4. CASE ~CodeMatches(f)
        <3>1. /\ attempts' = attempts + 1 /\ rejected' = rejected + 1
              /\ Become(c, [f EXCEPT !.pc = "ttl"])
              /\ Overlap("budget", "user", {d \in Busy(c) : co[d].pc \in {"peek", "compare"}})
            BY <1>13, <2>4 DEF Compare, Goto
        <3> SUFFICES ASSUME NEW q, q = [f EXCEPT !.pc = "ttl"], Become(c, q) PROVE MfaInv'
            BY <3>1
        <3>2. q \in MfaCalls
            BY MfaCallFacts, MfaFrameFacts
        <3>3. q.pc = "ttl" /\ q.op = f.op /\ q.copy = f.copy /\ q.code = f.code
            BY MfaCallFacts
        <3>4. raced \subseteq raced' /\ attempts \in Nat /\ attempts' \in Nat /\ rejected' = attempts'
            BY <3>1 DEF Overlap, MfaInv, MfaTypes
        <3>5. MfaCalled(q)'
            BY <2>1, <3>3 DEF MfaCalled, Placed, Confirming, Backing, Budgeted
        <3>6. MfaTypes' /\ CodesOnce' /\ SetupsKept'
            BY <2>1, <3>4 DEF MfaInv, MfaTypes, CodesOnce, SetupsKept, Raced
        <3>7. Capped'
            BY <3>1, <3>4, MaxAttemptsAssumption DEF MfaCalled, Budgeted, Capped, Raced
        <3>8. CounterEnds'
            <4>1. co'[c] = q
                BY DEF Become, MfaInv
            <4> QED BY <3>3, <4>1 DEF CounterEnds, At
        <3>9. ASSUME NEW d \in Coros \ {c}, NEW r \in MfaCalls, r = co[d] PROVE MfaCalled(r)'
            <4>1. MfaCalled(r) /\ r.pc # "idle"
                BY <3>9, MfaCallFacts DEF MfaInv
            <4>2. Raced("budget", "user")' \/ r.pc \notin {"peek", "compare"}
                BY <3>1, <3>9, <4>1 DEF Overlap, Busy, At, Raced
            <4> QED BY <2>1, <3>4, <4>1, <4>2, MfaCalledKept DEF MfaInv, MfaTypes
        <3> QED BY <3>2, <3>4, <3>5, <3>6, <3>7, <3>8, <3>9, MfaAssembled DEF MfaFrames
    <2> QED BY <2>3, <2>4
<1>14. ASSUME NEW c \in Coros, UpdateUser(c) PROVE MfaInv' /\ area' = area
    <2>0. /\ co[c] \in MfaCalls /\ MfaCalled(co[c]) /\ co[c].pc = "update"
        BY <1>14, MfaFrameFacts DEF UpdateUser, At, MfaInv
    <2>1. /\ area' = area /\ flows' = flows
          /\ UNCHANGED <<offered, attempts, window, secrets, rejected, lostSetup>>
        BY <1>14 DEF UpdateUser, Continue, mfaCache
    <2> SUFFICES ASSUME NEW f, f = co[c], f \in MfaCalls, MfaCalled(f), f.pc = "update"
                 PROVE  MfaInv'
        BY <2>0, <2>1
    <2>2. f.op \in {"confirm", "backup"}
        BY DEF MfaCalled, Placed
    <2>3. CASE RefusesMfaFields
        <3>1. Become(c, Idle) /\ UNCHANGED <<row, batches, spent, raced>>
            BY <1>14, <2>3 DEF UpdateUser, Return
        <3> QED BY <2>1, <3>1, MfaQuiet DEF MfaFrames, MfaInv, MfaTypes, mfaVars, mfaCache, drawn, mfaHistory
    <2>4. CASE ~RefusesMfaFields
        <3>1. /\ row' = Updated(f)
              /\ batches' = IF f.op = "confirm" THEN batches + 1 ELSE batches
              /\ spent' = IF f.op = "backup" THEN spent \cup {<<f.code, f.id>>} ELSE spent
              /\ Overlap("codes", "user", {d \in Busy(c) : co[d].op = "backup" /\ co[d].copy # row'})
              /\ Become(c, [f EXCEPT !.pc = "clear"])
            BY <1>14, <2>4 DEF UpdateUser, Goto
        <3> SUFFICES ASSUME NEW q, q = [f EXCEPT !.pc = "clear"], Become(c, q) PROVE MfaInv'
            BY <3>1
        <3>2. q \in MfaCalls
            BY MfaCallFacts, MfaFrameFacts
        <3>3. q.pc = "clear" /\ q.op = f.op /\ q.copy = f.copy /\ q.code = f.code
            BY MfaCallFacts
        <3>4. raced \subseteq raced' /\ batches \in Nat /\ batches' \in Nat /\ batches <= batches'
            BY <2>2, <3>1 DEF Overlap, MfaInv, MfaTypes
        <3>5. (1..batches) \X Batch \subseteq (1..batches') \X Batch
            BY <3>4
        <3>6. f.id \in Nat /\ f.secret \in Nat /\ row \in MfaRows
            BY MfaCallFacts DEF MfaInv, MfaTypes
        <3>7. MfaTypes' /\ CodesOnce'
            <4>1. CASE f.op = "confirm"
                <5>1. row' = [enabled |-> TRUE, secret |-> f.secret, codes |-> {batches + 1} \X Batch]
                    BY <3>1, <4>1 DEF Updated, MfaRow, CodesOf
                <5>2. f.secret \in 1..secrets /\ batches' = batches + 1 /\ spent' = spent
                    BY <3>1, <4>1 DEF MfaCalled, Confirming
                <5>3. row'.codes = {batches'} \X Batch /\ row'.secret = f.secret /\ row'.enabled
                    BY <5>1, <5>2
                <5>4. row' \in MfaRows
                    BY <3>4, <3>6, <5>1, <5>2 DEF MfaRows
                <5>5. row'.codes \subseteq (1..batches') \X Batch
                    BY <3>4, <5>2, <5>3
                <5>6. spent' \subseteq ((1..batches') \X Batch) \X Nat
                    BY <3>5, <5>2 DEF MfaInv, MfaTypes
                <5>7. MfaTypes'
                    BY <2>1, <3>4, <5>2, <5>3, <5>4, <5>5, <5>6 DEF MfaInv, MfaTypes, NoSecret
                <5>8. \A x \in spent' : x[1] \notin row'.codes
                    <6>1. SUFFICES ASSUME NEW x \in spent, x[1] \in {batches + 1} \X Batch PROVE FALSE
                        BY <5>2, <5>3
                    <6>2. x \in ((1..batches) \X Batch) \X Nat
                        BY DEF MfaInv, MfaTypes
                    <6> QED BY <3>4, <6>1, <6>2
                <5>9. CodesOnce'
                    BY <3>4, <5>2, <5>3, <5>8 DEF MfaInv, CodesOnce, CodesOf, Raced
                <5> QED BY <5>7, <5>9
            <4>2. CASE f.op = "backup"
                <5>1. /\ row' = [row EXCEPT !.codes = f.copy.codes \ {f.code}]
                      /\ batches' = batches /\ spent' = spent \cup {<<f.code, f.id>>}
                    BY <3>1, <4>2 DEF Updated, Remaining
                <5>2. /\ f.copy.codes \subseteq (1..batches) \X Batch
                      /\ f.code \in f.copy.codes
                      /\ f.copy = row \/ Raced("codes", "user")
                    BY <4>2 DEF MfaCalled, Backing
                <5>3. /\ row'.codes = f.copy.codes \ {f.code}
                      /\ row'.secret = row.secret /\ row'.enabled = row.enabled
                    BY <3>6, <5>1 DEF MfaRows
                <5>4. f.copy.codes \subseteq Nat \X Batch
                    BY MfaCallFacts
                <5>5. row' \in MfaRows
                    BY <3>6, <5>1, <5>4 DEF MfaRows
                <5>6. spent' \subseteq ((1..batches') \X Batch) \X Nat
                    BY <3>6, <5>1, <5>2 DEF MfaInv, MfaTypes
                <5>7. MfaTypes'
                    BY <2>1, <3>4, <5>1, <5>2, <5>3, <5>5, <5>6 DEF MfaInv, MfaTypes
                <5>8. CASE Raced("codes", "user")
                    BY <3>4, <5>7, <5>8 DEF CodesOnce, Raced
                <5>9. CASE ~Raced("codes", "user")
                    <6>1. /\ f.copy = row
                          /\ \A x, y \in spent : x[1] = y[1] => x = y
                          /\ \A x \in spent : x[1] \notin row.codes
                          /\ row.codes \subseteq CodesOf(batches)
                        BY <5>2, <5>9 DEF MfaInv, CodesOnce
                    <6>2. \A x \in spent : x[1] # f.code
                        BY <5>2, <6>1
                    <6>3. \A x, y \in spent' : x[1] = y[1] => x = y
                        BY <5>1, <6>1, <6>2
                    <6>4. \A x \in spent' : x[1] \notin row'.codes
                        BY <5>1, <5>3, <6>1
                    <6>5. row'.codes \subseteq CodesOf(batches')
                        BY <5>1, <5>3, <6>1 DEF CodesOf
                    <6> QED BY <5>7, <6>3, <6>4, <6>5 DEF CodesOnce
                <5> QED BY <5>8, <5>9
            <4> QED BY <2>2, <4>1, <4>2
        <3>8. rejected' = attempts' /\ Capped' /\ SetupsKept'
            BY <2>1, <3>4 DEF MfaInv, Capped, SetupsKept, Raced
        <3>9. MfaCalled(q)'
            <4>1. Placed(q)' /\ Confirming(q)' /\ Budgeted(q)'
                BY <2>2, <3>3 DEF Placed, Confirming, Budgeted
            <4>2. Backing(q)'
                BY <3>3, <3>5 DEF MfaCalled, Backing
            <4> QED BY <4>1, <4>2 DEF MfaCalled
        <3>10. CounterEnds'
            BY <2>1, <3>4, CounterKept
        <3>11. ASSUME NEW d \in Coros \ {c}, NEW r \in MfaCalls, r = co[d] PROVE MfaCalled(r)'
            <4>1. MfaCalled(r) /\ r.pc # "idle"
                BY <3>11, MfaCallFacts DEF MfaInv
            <4>2. Raced("codes", "user")' \/ r.op # "backup" \/ r.copy = row'
                BY <3>1, <3>11, <4>1 DEF Overlap, Busy, At, Raced
            <4> QED BY <2>1, <3>4, <4>1, <4>2, MfaCalledKept DEF MfaInv, MfaTypes
        <3> QED BY <3>2, <3>7, <3>8, <3>9, <3>10, <3>11, MfaAssembled DEF MfaFrames
    <2> QED BY <2>3, <2>4
<1> QED BY <1>1, <1>2, <1>3, <1>4, <1>5, <1>6, <1>7, <1>8, <1>9, <1>10, <1>11, <1>12, <1>13, <1>14 DEF MfaNext

LEMMA MfaStill ==
    ASSUME MfaInv, UNCHANGED <<base, mfaVars>>
    PROVE  MfaInv'
<1>1. UNCHANGED <<co, flows, raced, offered, attempts, window, row, secrets, batches, rejected, spent, lostSetup>>
    BY DEF base, mfaVars, mfaCache, drawn, mfaHistory
<1>2. MfaTypes' /\ rejected' = attempts' /\ Capped' /\ CodesOnce' /\ SetupsKept' /\ CounterEnds'
    BY <1>1 DEF MfaInv, MfaTypes, Capped, CodesOnce, SetupsKept, CounterEnds, At, Raced
<1>3. \A c \in Coros : co'[c] # Idle => MfaCalled(co[c])'
    BY <1>1 DEF MfaInv, MfaCalled, Placed, Confirming, Backing, Budgeted, Raced
<1> QED BY <1>1, <1>2, <1>3 DEF MfaInv

LEMMA MfaSafe == MfaInv => MfaSound
<1> SUFFICES ASSUME MfaInv PROVE MfaSound
    OBVIOUS
<1>1. GuessesCapped
    BY MaxAttemptsAssumption DEF MfaInv, MfaTypes, GuessesCapped, Capped
<1>2. offered \in 0..secrets /\ row.secret \in 0..secrets /\ (row.enabled => row.secret # NoSecret)
    BY DEF MfaInv, MfaTypes
<1>3. row.codes \subseteq (1..batches) \X Batch
    BY DEF MfaInv, MfaTypes
<1> QED BY <1>1, <1>2, <1>3 DEF MfaInv, MfaSound

------------------------------------------------------------------------------
(* Passkeys: challenges, credentials, their counters and their list.          *)

PasskeyCalls ==
    [op : {"register", "assert", "delete"},
     pc : {"challenge", "consume", "fetch", "save", "gone", "remove", "list", "relist"},
     challenge : Nat, key : Authenticators, count : Nat, copy : Nat,
     list : SUBSET Authenticators]
PasskeyFrames == {Idle} \cup PasskeyCalls

Answering(q) == q.op = "assert" /\ q.pc \in {"consume", "fetch", "save"}
Unanswered(n) == \A i \in DOMAIN accepted : accepted[i][1] # n
Exceeds(k, n) == \A i \in DOMAIN accepted : accepted[i][2] = k => accepted[i][3] < n
CountLost(k) == Raced("counter", k) \/ Raced("revived", k)

Positioned(q) ==
    /\ q.pc \in {"gone", "remove"} => q.op = "delete"
    /\ q.pc \in {"list", "relist"} => q.op # "assert"
    /\ q.pc \in {"challenge", "consume", "save"} => q.op # "delete"
    /\ q.pc = "fetch" => q.op = "assert"
    /\ q.op # "register" => q.key \in registered
    /\ q.op = "assert" => q.challenge \in 1..handedOut

(* An answer: its challenge is gone, and no other answer to it was accepted. *)
Answers(q) ==
    Answering(q) => Raced("challenge", q.challenge) \/
        /\ Unanswered(q.challenge)
        /\ q.pc # "consume" => q.challenge \notin challenges

(* A verified answer counts on from those accepted. *)
Counts(q) == q.op = "assert" /\ q.pc = "save" => Exceeds(q.key, q.count) \/ CountLost(q.key)

(* The row of a deletion is gone, and the list is the one that was read. *)
Relists(q) ==
    /\ q.op = "delete" /\ q.pc \in Unlisted => rows[q.key] = NoRow \/ Raced("revived", q.key)
    /\ q.pc = "relist" => q.list = listed \/ Raced("list", "user")

PasskeyCalled(q) == Positioned(q) /\ Answers(q) /\ Counts(q) /\ Relists(q)

(* Two calls: one answer to a challenge, one that is to write the list. *)
Disjoined(q, r) ==
    /\ Answering(q) /\ Answering(r) /\ q.challenge = r.challenge => Raced("challenge", q.challenge)
    /\ q.pc = "relist" /\ r.pc = "relist" => Raced("list", "user")

PasskeyTypes ==
    /\ handedOut \in Nat /\ regChallenge \in Nat /\ challenges \subseteq 1..handedOut
    /\ rows \in [Authenticators -> Nat] /\ listed \subseteq Authenticators
    /\ counter \in [Authenticators -> Nat]
    /\ registered \subseteq Authenticators /\ deleted \subseteq registered
    /\ accepted \in Seq(Nat \X Authenticators \X Nat)

(* What was accepted: a challenge that is gone, and a count the row has reached. *)
AcceptedPast ==
    \A i \in DOMAIN accepted :
        LET n == accepted[i][1]
            k == accepted[i][2]
        IN /\ n \in 1..handedOut /\ k \in registered
           /\ n \notin challenges \/ Raced("challenge", n)
           /\ rows[k] = NoRow \/ accepted[i][3] <= rows[k] \/ CountLost(k)

MemoryCalm == backend = "memory" => \A x \in raced : x[1] \notin {"list", "died"}

PasskeysInv ==
    /\ PasskeyTypes /\ AcceptedPast
    /\ co \in [Coros -> PasskeyFrames]
    /\ \A c \in Coros : co[c] # Idle => PasskeyCalled(co[c])
    /\ \A c, d \in Coros : c # d /\ co[c] # Idle /\ co[d] # Idle => Disjoined(co[c], co[d])
    /\ AssertionsFresh /\ DeletedStaysDeleted /\ ListComplete /\ MemoryCalm

LEMMA PasskeyFrameFacts ==
    ASSUME NEW q \in PasskeyFrames
    PROVE  /\ q # Idle <=> q.pc # "idle"
           /\ q # Idle => /\ q \in PasskeyCalls
                          /\ \A step \in {"fetch", "save", "list"} : [q EXCEPT !.pc = step] \in PasskeyCalls
                          /\ \A n \in Nat : [q EXCEPT !.pc = "consume", !.copy = n] \in PasskeyCalls
                          /\ \A l \in SUBSET Authenticators :
                                 [q EXCEPT !.pc = "relist", !.list = l] \in PasskeyCalls
<1>1. CASE q = Idle
    BY <1>1 DEF Idle
<1>2. CASE q # Idle
    <2>1. q \in PasskeyCalls
        BY <1>2 DEF PasskeyFrames
    <2>2. q.pc # "idle"
        BY <2>1 DEF PasskeyCalls
    <2>3. ASSUME NEW step \in {"fetch", "save", "list"} PROVE [q EXCEPT !.pc = step] \in PasskeyCalls
        BY <2>1 DEF PasskeyCalls
    <2>4. ASSUME NEW n \in Nat PROVE [q EXCEPT !.pc = "consume", !.copy = n] \in PasskeyCalls
        BY <2>1 DEF PasskeyCalls
    <2>5. ASSUME NEW l \in SUBSET Authenticators PROVE [q EXCEPT !.pc = "relist", !.list = l] \in PasskeyCalls
        BY <2>1 DEF PasskeyCalls
    <2> QED BY <1>2, <2>1, <2>2, <2>3, <2>4, <2>5
<1> QED BY <1>1, <1>2

LEMMA PasskeyCallFacts ==
    ASSUME NEW q \in PasskeyCalls
    PROVE  /\ q # Idle /\ q \in PasskeyFrames
           /\ q.op \in {"register", "assert", "delete"}
           /\ q.pc \in {"challenge", "consume", "fetch", "save", "gone", "remove", "list", "relist"}
           /\ q.challenge \in Nat /\ q.key \in Authenticators /\ q.count \in Nat
           /\ q.list \subseteq Authenticators
           /\ \A step : LET f == [q EXCEPT !.pc = step] IN
                  /\ f.pc = step /\ f.op = q.op /\ f.challenge = q.challenge /\ f.key = q.key
                  /\ f.count = q.count /\ f.list = q.list
           /\ \A n : LET f == [q EXCEPT !.pc = "consume", !.copy = n] IN
                  /\ f.pc = "consume" /\ f.op = q.op /\ f.challenge = q.challenge /\ f.key = q.key
                  /\ f.count = q.count /\ f.list = q.list
           /\ \A l : LET f == [q EXCEPT !.pc = "relist", !.list = l] IN
                  /\ f.pc = "relist" /\ f.op = q.op /\ f.challenge = q.challenge /\ f.key = q.key
                  /\ f.count = q.count /\ f.list = l
BY DEF PasskeyCalls, PasskeyFrames, Idle

LEMMA PasskeyAssembled ==
    ASSUME PasskeysInv, NEW c \in Coros, NEW q \in PasskeyFrames, Become(c, q), raced \subseteq raced',
           q # Idle => PasskeyCalled(q)',
           \A d \in Coros \ {c}, r \in PasskeyCalls : r = co[d] =>
               /\ PasskeyCalled(r)'
               /\ q # Idle => Disjoined(q, r)' /\ Disjoined(r, q)',
           PasskeyTypes', AcceptedPast', AssertionsFresh', DeletedStaysDeleted', ListComplete', MemoryCalm'
    PROVE  PasskeysInv'
<1>1. co' \in [Coros -> PasskeyFrames] /\ \A d \in Coros : co'[d] = IF d = c THEN q ELSE co[d]
    BY DEF PasskeysInv, Become
<1>2. ASSUME NEW d \in Coros, co'[d] # Idle PROVE PasskeyCalled(co[d])'
    <2> SUFFICES ASSUME NEW r, r = co'[d] PROVE PasskeyCalled(r)'
        BY DEF PasskeyCalled, Positioned, Answers, Answering, Unanswered, Counts, Exceeds, CountLost, Relists, Raced
    <2>1. r = q \/ (d # c /\ r = co[d] /\ r \in PasskeyCalls)
        BY <1>1, <1>2, PasskeyFrameFacts DEF PasskeysInv
    <2> QED BY <1>1, <1>2, <2>1
<1>3. ASSUME NEW d \in Coros, NEW e \in Coros, d # e, co'[d] # Idle, co'[e] # Idle
      PROVE  Disjoined(co[d], co[e])'
    <2> SUFFICES ASSUME NEW r, NEW s, r = co'[d], s = co'[e] PROVE Disjoined(r, s)'
        BY DEF Disjoined, Answering, Raced
    <2>1. CASE d # c /\ e # c
        <3>1. Disjoined(r, s)
            BY <1>1, <1>3, <2>1 DEF PasskeysInv
        <3> QED BY <3>1 DEF Disjoined, Answering, Raced
    <2>2. CASE d = c
        <3>1. r = q /\ s = co[e] /\ s \in PasskeyCalls
            BY <1>1, <1>3, <2>2, PasskeyFrameFacts DEF PasskeysInv
        <3> QED BY <1>1, <1>3, <2>2, <3>1
    <2>3. CASE e = c
        <3>1. s = q /\ r = co[d] /\ r \in PasskeyCalls
            BY <1>1, <1>3, <2>3, PasskeyFrameFacts DEF PasskeysInv
        <3> QED BY <1>1, <1>3, <2>3, <3>1
    <2> QED BY <2>1, <2>2, <2>3
<1> QED BY <1>1, <1>2, <1>3 DEF PasskeysInv

(* What a suspended call relies on. *)
LEMMA PositionedKept ==
    ASSUME NEW q \in PasskeyCalls, Positioned(q), registered \subseteq registered',
           handedOut \in Nat, handedOut' \in Nat, handedOut <= handedOut'
    PROVE  Positioned(q)'
BY DEF Positioned

LEMMA AnswersKept ==
    ASSUME NEW q \in PasskeyCalls, Positioned(q), Answers(q), raced \subseteq raced',
           Answering(q) /\ Unanswered(q.challenge) =>
               Unanswered(q.challenge)' \/ <<"challenge", q.challenge>> \in raced',
           \A n \in 1..handedOut : n \notin challenges => n \notin challenges'
    PROVE  Answers(q)'
BY DEF Positioned, Answers, Answering, Raced

LEMMA CountsKept ==
    ASSUME NEW q \in PasskeyCalls, Counts(q), raced \subseteq raced',
           q.op = "assert" /\ q.pc = "save" /\ Exceeds(q.key, q.count) =>
               Exceeds(q.key, q.count)' \/ CountLost(q.key)'
    PROVE  Counts(q)'
BY DEF Counts, CountLost, Raced

LEMMA RelistsKept ==
    ASSUME NEW q \in PasskeyCalls, Relists(q), raced \subseteq raced',
           q.pc = "relist" => listed' = listed \/ <<"list", "user">> \in raced',
           q.op = "delete" /\ rows[q.key] = NoRow => rows'[q.key] = NoRow \/ <<"revived", q.key>> \in raced'
    PROVE  Relists(q)'
BY DEF Relists, Raced

(* What the list misses. *)
LEMMA ListKept ==
    ASSUME PasskeysInv, NEW c \in Coros, NEW q, Become(c, q), raced \subseteq raced',
           registered' = registered, deleted' = deleted, listed' = listed,
           \A k \in Authenticators : rows'[k] # NoRow =>
               rows[k] # NoRow \/ Raced("revived", k)' \/ (q.pc \in Unlisted /\ q.key = k),
           \/ co[c].pc \notin Unlisted \/ <<"died", co[c].key>> \in raced'
           \/ q.pc \in Unlisted /\ q.key = co[c].key
    PROVE  ListComplete'
<1>1. co'[c] = q /\ \A d \in Coros : d # c => co'[d] = co[d]
    BY DEF PasskeysInv, Become
<1>2. CASE Raced("list", "user")
    BY <1>2 DEF ListComplete, Raced
<1>3. CASE ~Raced("list", "user")
    <2>1. registered' \ deleted' \subseteq listed'
        BY <1>3 DEF PasskeysInv, ListComplete
    <2>2. ASSUME NEW k \in Authenticators, rows'[k] # NoRow
          PROVE  k \in listed' \/ Listing(k)' \/ Raced("died", k)' \/ Raced("revived", k)'
        <3>1. CASE q.pc \in Unlisted /\ q.key = k
            BY <1>1, <3>1 DEF Listing
        <3>2. CASE rows[k] # NoRow
            <4>1. k \in listed \/ Listing(k) \/ Raced("died", k) \/ Raced("revived", k)
                BY <1>3, <3>2 DEF PasskeysInv, ListComplete
            <4>2. CASE Listing(k)
                <5>1. PICK d \in Coros : co[d].pc \in Unlisted /\ co[d].key = k
                    BY <4>2 DEF Listing
                <5>2. CASE d = c
                    <6>1. Raced("died", k)' \/ (q.pc \in Unlisted /\ q.key = k)
                        BY <5>1, <5>2 DEF Raced
                    <6>2. q.pc \in Unlisted /\ q.key = k => Listing(k)'
                        BY <1>1 DEF Listing
                    <6> QED BY <6>1, <6>2
                <5>3. CASE d # c
                    BY <1>1, <5>1, <5>3 DEF Listing
                <5> QED BY <5>2, <5>3
            <4> QED BY <4>1, <4>2 DEF Raced
        <3> QED BY <2>2, <3>1, <3>2
    <2> QED BY <2>1, <2>2 DEF ListComplete
<1> QED BY <1>2, <1>3

(* A call moves on, challenges come and go, and the credentials stay. *)
LEMMA PasskeyQuiet ==
    ASSUME PasskeysInv, NEW c \in Coros, NEW q \in PasskeyFrames, Become(c, q), raced \subseteq raced',
           handedOut' \in Nat, handedOut <= handedOut', regChallenge' \in Nat,
           challenges' \subseteq challenges \cup ((handedOut + 1)..handedOut'),
           counter' \in [Authenticators -> Nat],
           UNCHANGED <<rows, listed, registered, deleted, accepted>>,
           q # Idle => PasskeyCalled(q)',
           \A d \in Coros \ {c}, r \in PasskeyCalls : r = co[d] /\ q # Idle =>
               Disjoined(q, r)' /\ Disjoined(r, q)',
           \/ co[c].pc \notin Unlisted \/ <<"died", co[c].key>> \in raced'
           \/ q.pc \in Unlisted /\ q.key = co[c].key,
           MemoryCalm'
    PROVE  PasskeysInv'
<1>1. handedOut \in Nat /\ challenges \subseteq 1..handedOut
    BY DEF PasskeysInv, PasskeyTypes
<1>2. \A n \in 1..handedOut : n \notin challenges => n \notin challenges'
    BY <1>1
<1>3. challenges' \subseteq 1..handedOut'
    BY <1>1
<1>4. PasskeyTypes'
    BY <1>3 DEF PasskeysInv, PasskeyTypes
<1>5. AcceptedPast'
    <2>1. 1..handedOut \subseteq 1..handedOut'
        BY <1>1
    <2> QED BY <1>2, <2>1 DEF PasskeysInv, AcceptedPast, CountLost, Raced
<1>6. AssertionsFresh' /\ DeletedStaysDeleted'
    BY DEF PasskeysInv, AssertionsFresh, DeletedStaysDeleted, Raced
<1>7. ListComplete'
    BY ListKept
<1>8. ASSUME NEW d \in Coros \ {c}, NEW r \in PasskeyCalls, r = co[d] PROVE PasskeyCalled(r)'
    <2>1. PasskeyCalled(r)
        BY <1>8, PasskeyCallFacts DEF PasskeysInv
    <2>2. /\ \A n : Unanswered(n) => Unanswered(n)'
          /\ \A k, n : Exceeds(k, n) => Exceeds(k, n)'
        BY DEF Unanswered, Exceeds
    <2>3. Positioned(r)' /\ Answers(r)'
        BY <1>1, <1>2, <2>1, <2>2, PositionedKept, AnswersKept DEF PasskeyCalled
    <2>4. Counts(r)' /\ Relists(r)'
        BY <2>1, <2>2, CountsKept, RelistsKept DEF PasskeyCalled
    <2> QED BY <2>3, <2>4 DEF PasskeyCalled
<1> QED BY <1>4, <1>5, <1>6, <1>7, <1>8, PasskeyAssembled

(* Frames that answer nothing and list nothing. *)
LEMMA PasskeyBegins ==
    ASSUME PasskeysInv, NEW c \in Coros, NEW kind, NEW step, NEW n \in Nat, NEW k \in Authenticators,
           NEW count \in Nat,
           \/ kind = "register" /\ step = "challenge"
           \/ kind = "assert" /\ step = "challenge" /\ k \in registered /\ n \in 1..handedOut
           \/ kind = "delete" /\ step \in {"gone", "remove"} /\ k \in registered,
           PasskeyCall(c, PasskeyFrame(kind, step, n, k, count)),
           counter' \in [Authenticators -> Nat], UNCHANGED <<challengeVars, store, keyHistory>>
    PROVE  PasskeysInv' /\ area' = area
<1> SUFFICES ASSUME NEW q, q = PasskeyFrame(kind, step, n, k, count) PROVE PasskeysInv' /\ area' = area
    OBVIOUS
<1>1. Become(c, q) /\ co[c].pc = "idle" /\ UNCHANGED <<area, backend, raced>>
    BY DEF PasskeyCall, Begin, MayBegin, At
<1>2. UNCHANGED <<regChallenge, challenges, handedOut, rows, listed, registered, deleted, accepted>>
    BY DEF challengeVars, store, keyHistory
<1>3. q = [op |-> kind, pc |-> step, challenge |-> n, key |-> k, count |-> count, copy |-> 0, list |-> {}]
    BY DEF PasskeyFrame, NoRow
<1>4. q \in PasskeyCalls
    BY <1>3 DEF PasskeyCalls
<1>5. q.op = kind /\ q.pc = step /\ q.key = k /\ q.challenge = n
    BY <1>3
<1>6. PasskeyCalled(q)'
    BY <1>2, <1>5 DEF PasskeyCalled, Positioned, Answers, Answering, Counts, Relists, Unlisted
<1>7. \A r : Disjoined(q, r)' /\ Disjoined(r, q)'
    BY <1>5 DEF Disjoined, Answering
<1>8. handedOut \in Nat /\ handedOut' = handedOut /\ regChallenge' \in Nat
    BY <1>2 DEF PasskeysInv, PasskeyTypes
<1>9. MemoryCalm'
    BY <1>1 DEF PasskeysInv, MemoryCalm
<1>10. co[c].pc \notin Unlisted /\ raced \subseteq raced' /\ q \in PasskeyFrames
    BY <1>1, <1>4 DEF PasskeyFrames, Unlisted
<1>11. challenges' \subseteq challenges \cup ((handedOut + 1)..handedOut')
    BY <1>2
<1>12. \A d \in Coros \ {c}, r \in PasskeyCalls : r = co[d] /\ q # Idle =>
          Disjoined(q, r)' /\ Disjoined(r, q)'
    BY <1>7
<1>13. handedOut' \in Nat /\ handedOut <= handedOut'
    BY <1>8
<1> QED BY <1>1, <1>2, <1>6, <1>8, <1>9, <1>10, <1>11, <1>12, <1>13, PasskeyQuiet

(* A call returns, and the store is as it was. *)
LEMMA PasskeyReturns ==
    ASSUME PasskeysInv, NEW c \in Coros, Return(c), Continue, raced \subseteq raced', UNCHANGED passkeyVars,
           co[c].pc \notin Unlisted \/ <<"died", co[c].key>> \in raced', MemoryCalm'
    PROVE  PasskeysInv' /\ area' = area
<1>1. Become(c, Idle) /\ area' = area
    BY DEF Return, Continue
<1>2. UNCHANGED <<regChallenge, challenges, handedOut, rows, listed, counter, registered, deleted, accepted>>
    BY DEF passkeyVars, challengeVars, store, keyHistory
<1>3. handedOut \in Nat /\ regChallenge \in Nat /\ counter \in [Authenticators -> Nat]
    BY DEF PasskeysInv, PasskeyTypes
<1> QED BY <1>1, <1>2, <1>3, PasskeyQuiet DEF PasskeyFrames

LEMMA PasskeysStart ==
    ASSUME PasskeysAtRest, co = [c \in Coros |-> Idle], raced = {}
    PROVE  PasskeysInv
<1>1. PICK k \in Authenticators :
          /\ registered = {k} /\ listed = {k}
          /\ rows = [x \in Authenticators |-> IF x = k THEN 1 ELSE NoRow]
    BY DEF PasskeysAtRest
<1>2. PasskeyTypes /\ DeletedStaysDeleted
    BY <1>1 DEF PasskeysAtRest, PasskeyTypes, NoRow, DeletedStaysDeleted
<1>3. AcceptedPast /\ AssertionsFresh /\ MemoryCalm
    BY DEF PasskeysAtRest, AcceptedPast, AssertionsFresh, MemoryCalm
<1>4. ListComplete
    BY <1>1 DEF PasskeysAtRest, ListComplete, NoRow
<1> QED BY <1>2, <1>3, <1>4 DEF PasskeysInv, PasskeyFrames

(* Challenges. *)
LEMMA RegisterStartSteps ==
    ASSUME PasskeysInv, NEW c \in Coros, RegisterStart(c)
    PROVE  PasskeysInv' /\ area' = area
<1>1. co' = co /\ raced' = raced /\ handedOut' = handedOut + 1 /\ regChallenge' = handedOut'
      /\ UNCHANGED <<area, backend, challenges, rows, listed, counter, registered, deleted, accepted>>
    BY DEF RegisterStart, store, keyHistory
<1>2. co[c].pc = "idle" /\ co[c] = Idle
    BY PasskeyFrameFacts DEF RegisterStart, At, PasskeysInv
<1>3. Become(c, Idle) /\ Idle \in PasskeyFrames
    BY <1>1, <1>2 DEF Become, PasskeysInv, PasskeyFrames
<1>4. handedOut \in Nat /\ counter \in [Authenticators -> Nat]
    BY DEF PasskeysInv, PasskeyTypes
<1>5. MemoryCalm'
    BY <1>1 DEF PasskeysInv, MemoryCalm
<1>6. handedOut' \in Nat /\ handedOut <= handedOut' /\ regChallenge' \in Nat
    BY <1>1, <1>4
<1>7. co[c].pc \notin Unlisted
    BY <1>2 DEF Unlisted
<1> QED BY <1>1, <1>3, <1>4, <1>5, <1>6, <1>7, PasskeyQuiet

LEMMA AuthenticateStartSteps ==
    ASSUME PasskeysInv, NEW c \in Coros, AuthenticateStart(c)
    PROVE  PasskeysInv' /\ area' = area
<1>1. co' = co /\ raced' = raced /\ handedOut' = handedOut + 1 /\ challenges' = challenges \cup {handedOut'}
      /\ UNCHANGED <<area, backend, regChallenge, rows, listed, counter, registered, deleted, accepted>>
    BY DEF AuthenticateStart, store, keyHistory
<1>2. co[c].pc = "idle" /\ co[c] = Idle
    BY PasskeyFrameFacts DEF AuthenticateStart, At, PasskeysInv
<1>3. Become(c, Idle) /\ Idle \in PasskeyFrames
    BY <1>1, <1>2 DEF Become, PasskeysInv, PasskeyFrames
<1>4. handedOut \in Nat /\ counter \in [Authenticators -> Nat] /\ regChallenge \in Nat
    BY DEF PasskeysInv, PasskeyTypes
<1>5. MemoryCalm'
    BY <1>1 DEF PasskeysInv, MemoryCalm
<1>6. handedOut' \in Nat /\ handedOut <= handedOut' /\ handedOut' \in (handedOut + 1)..handedOut'
    BY <1>1, <1>4
<1>7. co[c].pc \notin Unlisted
    BY <1>2 DEF Unlisted
<1>8. challenges' \subseteq challenges \cup ((handedOut + 1)..handedOut')
    BY <1>1, <1>6
<1> QED BY <1>1, <1>3, <1>4, <1>5, <1>6, <1>7, <1>8, PasskeyQuiet

LEMMA RegisterCompleteSteps ==
    ASSUME PasskeysInv, NEW c \in Coros, RegisterComplete(c)
    PROVE  PasskeysInv' /\ area' = area
<1>1. PICK k \in Authenticators, n \in 1..handedOut :
          /\ PasskeyCall(c, PasskeyFrame("register", "challenge", n, k, counter[k]))
          /\ UNCHANGED passkeyVars
    BY DEF RegisterComplete
<1>2. handedOut \in Nat /\ counter \in [Authenticators -> Nat]
    BY DEF PasskeysInv, PasskeyTypes
<1>3. n \in Nat /\ counter[k] \in Nat
    BY <1>2
<1>4. counter' = counter /\ UNCHANGED <<challengeVars, store, keyHistory>>
    BY <1>1 DEF passkeyVars
<1> QED BY <1>1, <1>2, <1>3, <1>4, PasskeyBegins

LEMMA AuthenticateCompleteSteps ==
    ASSUME PasskeysInv, NEW c \in Coros, AuthenticateComplete(c)
    PROVE  PasskeysInv' /\ area' = area
<1>1. PICK k \in registered, n \in 1..handedOut :
          /\ counter' = [counter EXCEPT ![k] = @ + 1] \/ counter' = counter
          /\ PasskeyCall(c, PasskeyFrame("assert", "challenge", n, k, counter'[k]))
          /\ UNCHANGED <<challengeVars, store, keyHistory>>
    BY DEF AuthenticateComplete
<1>2. handedOut \in Nat /\ counter \in [Authenticators -> Nat] /\ registered \subseteq Authenticators
    BY DEF PasskeysInv, PasskeyTypes
<1>3. counter' \in [Authenticators -> Nat]
    BY <1>1, <1>2
<1>4. n \in Nat /\ k \in Authenticators /\ counter'[k] \in Nat
    BY <1>2, <1>3
<1> SUFFICES ASSUME NEW count \in Nat, count = counter'[k] PROVE PasskeysInv' /\ area' = area
    BY <1>4
<1>5. PasskeyCall(c, PasskeyFrame("assert", "challenge", n, k, count))
    BY <1>1
<1> QED BY <1>1, <1>3, <1>4, <1>5, PasskeyBegins

LEMMA ReadChallengeSteps ==
    ASSUME PasskeysInv, NEW c \in Coros, ReadChallenge(c)
    PROVE  PasskeysInv' /\ area' = area
<1> SUFFICES ASSUME NEW f, f = co[c] PROVE PasskeysInv' /\ area' = area
    OBVIOUS
<1>1. /\ f.pc = "challenge" /\ f \in PasskeyCalls /\ PasskeyCalled(f)
    BY PasskeyFrameFacts DEF ReadChallenge, At, PasskeysInv
<1>2. raced' = (IF Consuming(c) = {} THEN raced ELSE raced \cup {<<"challenge", f.challenge>>})
    BY DEF ReadChallenge, Overlap
<1>3. raced \subseteq raced' /\ Continue /\ UNCHANGED passkeyVars /\ area' = area /\ backend' = backend
    BY <1>2 DEF ReadChallenge, Continue
<1>4. MemoryCalm'
    <2>1. \A x \in raced' : x \in raced \/ x[1] = "challenge"
        BY <1>2
    <2> QED BY <1>3, <2>1 DEF PasskeysInv, MemoryCalm
<1>5. f.pc \notin Unlisted
    BY <1>1 DEF Unlisted
<1>6. CASE Return(c)
    BY <1>3, <1>4, <1>5, <1>6, PasskeyReturns
<1>7. CASE /\ Live(f)
           /\ Become(c, [f EXCEPT !.pc = "consume",
                                  !.copy = IF f.op = "register" THEN regChallenge ELSE NoRow])
    <2>1. /\ regChallenge \in Nat /\ NoRow \in Nat /\ handedOut \in Nat
          /\ counter \in [Authenticators -> Nat] /\ challenges \subseteq 1..handedOut
        BY DEF PasskeysInv, PasskeyTypes, NoRow
    <2>2. PICK n \in Nat : Become(c, [f EXCEPT !.pc = "consume", !.copy = n])
        BY <1>7, <2>1
    <2> SUFFICES ASSUME NEW q, q = [f EXCEPT !.pc = "consume", !.copy = n] PROVE PasskeysInv' /\ area' = area
        OBVIOUS
    <2>3. q \in PasskeyCalls
        BY <1>1, PasskeyFrameFacts, PasskeyCallFacts
    <2>4. q.pc = "consume" /\ q.op = f.op /\ q.challenge = f.challenge /\ q.key = f.key
        BY <1>1, PasskeyCallFacts
    <2>5. UNCHANGED <<regChallenge, challenges, handedOut, rows, listed, counter, registered, deleted, accepted>>
        BY <1>3 DEF passkeyVars, challengeVars, store, keyHistory
    <2>6. q.op = "assert" => q.challenge \in challenges
        BY <1>7, <2>4, PasskeyCallFacts, <1>1 DEF Live
    <2>7. Positioned(q)'
        BY <1>1, <2>4, <2>5 DEF PasskeyCalled, Positioned
    <2>8. Answers(q)'
        <3>1. q.op = "assert" => Raced("challenge", q.challenge) \/ Unanswered(q.challenge)
            BY <2>6 DEF PasskeysInv, AcceptedPast, Unanswered
        <3> QED BY <1>3, <2>4, <2>5, <3>1 DEF Answers, Answering, Unanswered, Raced
    <2>9. Counts(q)' /\ Relists(q)'
        BY <2>4 DEF Counts, Relists, Unlisted
    <2>10. ASSUME NEW d \in Coros \ {c}, NEW r \in PasskeyCalls, r = co[d]
           PROVE  Disjoined(q, r)' /\ Disjoined(r, q)'
        <3>1. PasskeyCalled(r) /\ r.pc # "idle"
            BY <2>10, PasskeyCallFacts DEF PasskeysInv
        <3>2. ASSUME Answering(q), Answering(r), q.challenge = r.challenge
              PROVE  <<"challenge", q.challenge>> \in raced'
            <4>1. CASE r.pc = "consume"
                <5>1. d \in Consuming(c)
                    BY <2>4, <2>10, <3>1, <3>2, <4>1 DEF Consuming, Busy, At, Answering
                <5> QED BY <1>2, <2>4, <5>1
            <4>2. CASE r.pc # "consume"
                BY <1>3, <2>6, <3>1, <3>2, <4>2 DEF PasskeyCalled, Answers, Raced, Answering
            <4> QED BY <4>1, <4>2
        <3> QED BY <2>4, <3>2 DEF Disjoined, Answering, Raced
    <2>11. PasskeyCalled(q)'
        BY <2>7, <2>8, <2>9 DEF PasskeyCalled
    <2>12. /\ q \in PasskeyFrames /\ handedOut' \in Nat /\ handedOut <= handedOut' /\ regChallenge' \in Nat
           /\ counter' \in [Authenticators -> Nat]
           /\ challenges' \subseteq challenges \cup ((handedOut + 1)..handedOut')
        BY <2>1, <2>3, <2>5 DEF PasskeyFrames
    <2>13. Become(c, q) /\ UNCHANGED <<rows, listed, registered, deleted, accepted>>
        BY <2>2, <2>5
    <2> QED BY <1>3, <1>4, <1>5, <2>10, <2>11, <2>12, <2>13, PasskeyQuiet
<1> QED BY <1>6, <1>7 DEF ReadChallenge

LEMMA ConsumeChallengeSteps ==
    ASSUME PasskeysInv, NEW c \in Coros, ConsumeChallenge(c)
    PROVE  PasskeysInv' /\ area' = area
<1> SUFFICES ASSUME NEW f, f = co[c] PROVE PasskeysInv' /\ area' = area
    OBVIOUS
<1>1. f.pc = "consume" /\ f \in PasskeyCalls /\ PasskeyCalled(f)
    BY PasskeyFrameFacts DEF ConsumeChallenge, At, PasskeysInv
<1>2. /\ raced' = raced /\ area' = area /\ backend' = backend
      /\ UNCHANGED <<handedOut, rows, listed, counter, registered, deleted, accepted>>
    BY DEF ConsumeChallenge, Continue, store, keyHistory
<1>3. MemoryCalm' /\ f.pc \notin Unlisted
    BY <1>1, <1>2 DEF PasskeysInv, MemoryCalm, Unlisted
<1>4. /\ regChallenge \in Nat /\ handedOut \in Nat /\ challenges \subseteq 1..handedOut
      /\ counter \in [Authenticators -> Nat]
    BY DEF PasskeysInv, PasskeyTypes
<1>5. regChallenge' \in Nat /\ challenges' \subseteq challenges /\ handedOut' \in Nat
      /\ counter' \in [Authenticators -> Nat] /\ handedOut <= handedOut'
    BY <1>2, <1>4 DEF ConsumeChallenge, WithoutChallenge, NoRow
<1>6. challenges' \subseteq challenges \cup ((handedOut + 1)..handedOut')
    BY <1>5
<1>7. CASE Return(c)
    <2>1. Become(c, Idle) /\ Idle \in PasskeyFrames
        BY <1>7 DEF Return, PasskeyFrames
    <2> QED BY <1>2, <1>3, <1>5, <1>6, <2>1, PasskeyQuiet
<1>8. CASE f.op = "register" /\ Goto(c, "save")
    <2> SUFFICES ASSUME NEW q, q = [f EXCEPT !.pc = "save"] PROVE PasskeysInv' /\ area' = area
        OBVIOUS
    <2>1. q \in PasskeyCalls /\ q \in PasskeyFrames
        BY <1>1, PasskeyFrameFacts, PasskeyCallFacts
    <2>2. q.pc = "save" /\ q.op = "register" /\ q.challenge = f.challenge /\ q.key = f.key
        BY <1>1, <1>8, PasskeyCallFacts
    <2>3. PasskeyCalled(q)'
        BY <2>2 DEF PasskeyCalled, Positioned, Answers, Answering, Counts, Relists, Unlisted
    <2>4. \A r : Disjoined(q, r)' /\ Disjoined(r, q)'
        BY <2>2 DEF Disjoined, Answering
    <2>5. Become(c, q)
        BY <1>8 DEF Goto
    <2>6. \A d \in Coros \ {c}, r \in PasskeyCalls : r = co[d] /\ q # Idle =>
              Disjoined(q, r)' /\ Disjoined(r, q)'
        BY <2>4
    <2> QED BY <1>2, <1>3, <1>5, <1>6, <2>1, <2>3, <2>5, <2>6, PasskeyQuiet
<1>9. CASE f.op = "assert" /\ challenges' = challenges \ {f.challenge} /\ Goto(c, "fetch")
    <2> SUFFICES ASSUME NEW q, q = [f EXCEPT !.pc = "fetch"] PROVE PasskeysInv' /\ area' = area
        OBVIOUS
    <2>1. q \in PasskeyCalls /\ q \in PasskeyFrames
        BY <1>1, PasskeyFrameFacts, PasskeyCallFacts
    <2>2. q.pc = "fetch" /\ q.op = "assert" /\ q.challenge = f.challenge /\ q.key = f.key
        BY <1>1, <1>9, PasskeyCallFacts
    <2>3. Positioned(q)'
        BY <1>1, <1>2, <1>9, <2>2 DEF PasskeyCalled, Positioned
    <2>4. Answers(q)'
        BY <1>1, <1>2, <1>9, <2>2 DEF PasskeyCalled, Answers, Answering, Unanswered, Raced
    <2>5. PasskeyCalled(q)'
        BY <2>2, <2>3, <2>4 DEF PasskeyCalled, Counts, Relists, Unlisted
    <2>6. Become(c, q)
        BY <1>9 DEF Goto
    <2>7. ASSUME NEW d \in Coros \ {c}, NEW r \in PasskeyCalls, r = co[d]
          PROVE  Disjoined(q, r)' /\ Disjoined(r, q)'
        <3>1. r # Idle /\ f # Idle
            BY <1>1, PasskeyCallFacts
        <3>2. Disjoined(f, r) /\ Disjoined(r, f)
            BY <2>7, <3>1 DEF PasskeysInv
        <3> QED BY <1>1, <1>2, <1>9, <2>2, <3>2 DEF Disjoined, Answering, Raced
    <2> QED BY <1>2, <1>3, <1>5, <1>6, <2>1, <2>5, <2>6, <2>7, PasskeyQuiet
<1>10. f.op \in {"register", "assert", "delete"} /\ f.op # "delete"
    BY <1>1, PasskeyCallFacts DEF PasskeyCalled, Positioned
<1>11. CASE f.op = "register"
    BY <1>7, <1>8, <1>11 DEF ConsumeChallenge
<1>12. CASE f.op = "assert"
    BY <1>9, <1>12 DEF ConsumeChallenge, WithoutChallenge
<1> QED BY <1>10, <1>11, <1>12

(* A verified answer is to be written. *)
LEMMA FetchCredentialSteps ==
    ASSUME PasskeysInv, NEW c \in Coros, FetchCredential(c)
    PROVE  PasskeysInv' /\ area' = area
<1> SUFFICES ASSUME NEW f, f = co[c] PROVE PasskeysInv' /\ area' = area
    OBVIOUS
<1>1. f.pc = "fetch" /\ f \in PasskeyCalls /\ PasskeyCalled(f)
    BY PasskeyFrameFacts DEF FetchCredential, At, PasskeysInv
<1>2. raced' = raced /\ area' = area /\ backend' = backend /\ Continue /\ UNCHANGED passkeyVars
    BY DEF FetchCredential, Continue
<1>3. MemoryCalm' /\ f.pc \notin Unlisted
    BY <1>1, <1>2 DEF PasskeysInv, MemoryCalm, Unlisted
<1>4. CASE Return(c)
    BY <1>2, <1>3, <1>4, PasskeyReturns
<1>5. CASE rows[f.key] # NoRow /\ f.count > rows[f.key] /\ Goto(c, "save")
    <2> SUFFICES ASSUME NEW q, q = [f EXCEPT !.pc = "save"] PROVE PasskeysInv' /\ area' = area
        OBVIOUS
    <2>1. q \in PasskeyCalls /\ q \in PasskeyFrames
        BY <1>1, PasskeyFrameFacts, PasskeyCallFacts
    <2>2. q.pc = "save" /\ q.op = f.op /\ q.challenge = f.challenge /\ q.key = f.key /\ q.count = f.count
        BY <1>1, PasskeyCallFacts
    <2>3. f.op = "assert" /\ f.key \in Authenticators /\ f.count \in Nat
        BY <1>1, PasskeyCallFacts DEF PasskeyCalled, Positioned
    <2>4. UNCHANGED <<regChallenge, challenges, handedOut, rows, listed, counter, registered, deleted, accepted>>
        BY <1>2 DEF passkeyVars, challengeVars, store, keyHistory
    <2>5. Positioned(q)'
        BY <1>1, <2>2, <2>3, <2>4 DEF PasskeyCalled, Positioned
    <2>6. Answers(q)'
        BY <1>1, <1>2, <2>2, <2>3, <2>4 DEF PasskeyCalled, Answers, Answering, Unanswered, Raced
    <2>7. Exceeds(f.key, f.count) \/ CountLost(f.key)
        <3> SUFFICES ASSUME ~CountLost(f.key), NEW i \in DOMAIN accepted, accepted[i][2] = f.key
                     PROVE  accepted[i][3] < f.count
            BY DEF Exceeds
        <3>1. accepted[i][3] <= rows[f.key]
            BY <1>5 DEF PasskeysInv, AcceptedPast
        <3>2. rows \in [Authenticators -> Nat] /\ accepted \in Seq(Nat \X Authenticators \X Nat)
            BY DEF PasskeysInv, PasskeyTypes
        <3>3. accepted[i] \in Nat \X Authenticators \X Nat
            BY <3>2
        <3>4. accepted[i][3] \in Nat /\ rows[f.key] \in Nat
            BY <2>3, <3>2, <3>3
        <3> QED BY <1>5, <2>3, <3>1, <3>4
    <2>8. Counts(q)'
        <3>1. (Exceeds(f.key, f.count) => Exceeds(f.key, f.count)') /\ (CountLost(f.key) => CountLost(f.key)')
            BY <1>2, <2>4 DEF Exceeds, CountLost, Raced
        <3> QED BY <2>2, <2>7, <3>1 DEF Counts
    <2>9. PasskeyCalled(q)'
        BY <2>2, <2>5, <2>6, <2>8 DEF PasskeyCalled, Relists, Unlisted
    <2>10. Become(c, q)
        BY <1>5 DEF Goto
    <2>11. ASSUME NEW d \in Coros \ {c}, NEW r \in PasskeyCalls, r = co[d]
          PROVE  Disjoined(q, r)' /\ Disjoined(r, q)'
        <3>1. r # Idle /\ f # Idle
            BY <1>1, PasskeyCallFacts
        <3>2. Disjoined(f, r) /\ Disjoined(r, f)
            BY <2>11, <3>1 DEF PasskeysInv
        <3> QED BY <1>1, <1>2, <2>2, <2>3, <3>2 DEF Disjoined, Answering, Raced
    <2>12. /\ handedOut' \in Nat /\ handedOut <= handedOut' /\ regChallenge' \in Nat
           /\ counter' \in [Authenticators -> Nat]
           /\ challenges' \subseteq challenges \cup ((handedOut + 1)..handedOut')
        BY <2>4 DEF PasskeysInv, PasskeyTypes
    <2>13. UNCHANGED <<rows, listed, registered, deleted, accepted>> /\ raced \subseteq raced'
        BY <1>2, <2>4
    <2> QED BY <1>2, <1>3, <2>1, <2>9, <2>10, <2>11, <2>12, <2>13, PasskeyQuiet
<1> QED BY <1>4, <1>5 DEF FetchCredential

LEMMA DeletePasskeySteps ==
    ASSUME PasskeysInv, NEW c \in Coros, DeletePasskey(c)
    PROVE  PasskeysInv' /\ area' = area
<1>1. PICK k \in registered :
          /\ PasskeyCall(c, PasskeyFrame("delete", IF rows[k] = NoRow THEN "gone" ELSE "remove",
                                         NoRow, k, NoRow))
          /\ UNCHANGED passkeyVars
    BY DEF DeletePasskey
<1>2. PICK step \in {"gone", "remove"} : PasskeyCall(c, PasskeyFrame("delete", step, NoRow, k, NoRow))
    BY <1>1
<1>3. counter \in [Authenticators -> Nat] /\ k \in Authenticators /\ NoRow \in Nat
    BY DEF PasskeysInv, PasskeyTypes, NoRow
<1>4. counter' = counter /\ UNCHANGED <<challengeVars, store, keyHistory>>
    BY <1>1 DEF passkeyVars
<1> QED BY <1>2, <1>3, <1>4, PasskeyBegins

LEMMA NotThereSteps ==
    ASSUME PasskeysInv, NEW c \in Coros, NotThere(c)
    PROVE  PasskeysInv' /\ area' = area
<1>1. Return(c) /\ Continue /\ raced' = raced /\ UNCHANGED passkeyVars /\ backend' = backend
    BY DEF NotThere, Continue
<1>2. MemoryCalm' /\ co[c].pc \notin Unlisted
    BY <1>1 DEF PasskeysInv, MemoryCalm, NotThere, At, Unlisted
<1> QED BY <1>1, <1>2, PasskeyReturns

LEMMA PasskeyDiesSteps ==
    ASSUME PasskeysInv, NEW c \in Coros, PasskeyDies(c)
    PROVE  PasskeysInv' /\ area' = area
<1>1. Return(c) /\ Continue /\ UNCHANGED passkeyVars /\ backend' = backend
    BY DEF PasskeyDies, Continue
<1>2. raced \subseteq raced' /\ (co[c].pc \notin Unlisted \/ <<"died", co[c].key>> \in raced')
    BY DEF PasskeyDies
<1>3. MemoryCalm'
    BY <1>1 DEF PasskeysInv, MemoryCalm, PasskeyDies
<1> QED BY <1>1, <1>2, <1>3, PasskeyReturns

(* The rows. *)
LEMMA RemoveCredentialSteps ==
    ASSUME PasskeysInv, NEW c \in Coros, RemoveCredential(c)
    PROVE  PasskeysInv' /\ area' = area
<1> SUFFICES ASSUME NEW f, f = co[c] PROVE PasskeysInv' /\ area' = area
    OBVIOUS
<1>1. f.pc = "remove" /\ f \in PasskeyCalls /\ PasskeyCalled(f)
    BY PasskeyFrameFacts DEF RemoveCredential, At, PasskeysInv
<1>2. f.op = "delete" /\ f.key \in Authenticators
    BY <1>1, PasskeyCallFacts DEF PasskeyCalled, Positioned
<1>3. /\ rows' = [rows EXCEPT ![f.key] = NoRow] /\ Goto(c, "list") /\ area' = area /\ backend' = backend
      /\ raced' \in {raced, raced \cup {<<"revived", f.key>>}}
    BY DEF RemoveCredential, Continue, Overlap
<1>4. UNCHANGED <<regChallenge, challenges, handedOut, listed, counter, registered, deleted, accepted>>
    BY DEF RemoveCredential, challengeVars, keyHistory
<1>5. raced \subseteq raced' /\ rows \in [Authenticators -> Nat] /\ rows' \in [Authenticators -> Nat]
    BY <1>3 DEF PasskeysInv, PasskeyTypes, NoRow
<1>6. \A k \in Authenticators : rows'[k] = IF k = f.key THEN NoRow ELSE rows[k]
    BY <1>3, <1>5
<1> SUFFICES ASSUME NEW q, q = [f EXCEPT !.pc = "list"] PROVE PasskeysInv' /\ area' = area
    OBVIOUS
<1>7. q \in PasskeyCalls /\ q \in PasskeyFrames
    BY <1>1, PasskeyFrameFacts, PasskeyCallFacts
<1>8. q.pc = "list" /\ q.op = "delete" /\ q.key = f.key
    BY <1>1, <1>2, PasskeyCallFacts
<1>9. Become(c, q)
    BY <1>3 DEF Goto
<1>10. PasskeyCalled(q)'
    <2>1. Positioned(q)'
        BY <1>1, <1>2, <1>4, <1>8 DEF PasskeyCalled, Positioned
    <2>2. Relists(q)'
        BY <1>2, <1>6, <1>8 DEF Relists
    <2> QED BY <1>8, <2>1, <2>2 DEF PasskeyCalled, Answers, Answering, Counts
<1>11. \A r : Disjoined(q, r)' /\ Disjoined(r, q)'
    BY <1>8 DEF Disjoined, Answering
<1>12. ASSUME NEW d \in Coros \ {c}, NEW r \in PasskeyCalls, r = co[d] PROVE PasskeyCalled(r)'
    <2>1. PasskeyCalled(r) /\ r.key \in Authenticators
        BY <1>12, PasskeyCallFacts DEF PasskeysInv
    <2>2. /\ \A n : Unanswered(n) => Unanswered(n)'
          /\ \A k, n : Exceeds(k, n) => Exceeds(k, n)'
        BY <1>4 DEF Unanswered, Exceeds
    <2>3. handedOut \in Nat
        BY DEF PasskeysInv, PasskeyTypes
    <2>4. Positioned(r)'
        BY <1>4, <2>1, <2>3, PositionedKept DEF PasskeyCalled
    <2>5. Answers(r)'
        BY <1>4, <1>5, <2>1, <2>2, AnswersKept DEF PasskeyCalled
    <2>6. Counts(r)'
        BY <1>5, <2>1, <2>2, CountsKept DEF PasskeyCalled
    <2>7. Relists(r)'
        BY <1>4, <1>5, <1>6, <2>1, RelistsKept DEF PasskeyCalled
    <2> QED BY <2>4, <2>5, <2>6, <2>7 DEF PasskeyCalled
<1>13. PasskeyTypes'
    BY <1>4, <1>5 DEF PasskeysInv, PasskeyTypes
<1>14. AcceptedPast'
    <2>1. AcceptedPast /\ registered \subseteq Authenticators
        BY DEF PasskeysInv, PasskeyTypes
    <2> QED BY <1>4, <1>5, <1>6, <2>1 DEF AcceptedPast, CountLost, Raced
<1>15. AssertionsFresh'
    BY <1>4, <1>5 DEF PasskeysInv, AssertionsFresh, Raced
<1>16. DeletedStaysDeleted'
    <2>1. DeletedStaysDeleted /\ deleted \subseteq Authenticators
        BY DEF PasskeysInv, PasskeyTypes
    <2> QED BY <1>4, <1>5, <1>6, <2>1 DEF DeletedStaysDeleted, Raced
<1>17. ListComplete'
    BY <1>1, <1>4, <1>5, <1>6, <1>8, <1>9, ListKept DEF Unlisted
<1>18. MemoryCalm'
    <2>1. \A x \in raced' : x \in raced \/ x[1] = "revived"
        BY <1>3
    <2> QED BY <1>3, <2>1 DEF PasskeysInv, MemoryCalm
<1> QED BY <1>3, <1>5, <1>7, <1>9, <1>10, <1>11, <1>12, <1>13, <1>14, <1>15, <1>16, <1>17, <1>18, PasskeyAssembled

(* A row is written: what both saves do to the others. *)
LEMMA PasskeySaveKeeps ==
    ASSUME PasskeysInv, NEW c \in Coros, NEW f, f = co[c], SaveCredential(c)
    PROVE  /\ f \in PasskeyCalls /\ PasskeyCalled(f) /\ f.pc = "save"
           /\ f.op \in {"register", "assert"} /\ f.key \in Authenticators /\ f.count \in Nat
           /\ f.op = "assert" => f.key \in registered
           /\ raced \subseteq raced' /\ area' = area /\ backend' = backend
           /\ UNCHANGED <<regChallenge, challenges, handedOut, listed, counter, registered, deleted>>
           /\ rows' \in [Authenticators -> Nat] /\ rows' = [rows EXCEPT ![f.key] = f.count]
           /\ rows[f.key] = NoRow /\ f.key \in registered => <<"revived", f.key>> \in raced'
           /\ Stale(c, f.key) => <<"counter", f.key>> \in raced'
           /\ MemoryCalm' /\ DeletedStaysDeleted'
           /\ \A d \in Coros \ {c}, r \in PasskeyCalls : r = co[d] => Positioned(r)' /\ Relists(r)'
<1>1. f.pc = "save" /\ f \in PasskeyCalls /\ PasskeyCalled(f)
    BY PasskeyFrameFacts DEF SaveCredential, At, PasskeysInv
<1>2. /\ f.op \in {"register", "assert"} /\ f.key \in Authenticators /\ f.count \in Nat
      /\ f.op = "assert" => f.key \in registered
    BY <1>1, PasskeyCallFacts DEF PasskeyCalled, Positioned
<1>3. /\ rows' = [rows EXCEPT ![f.key] = f.count] /\ area' = area /\ backend' = backend
      /\ raced' = raced \cup (IF Stale(c, f.key) THEN {<<"counter", f.key>>} ELSE {})
                       \cup (IF rows[f.key] = NoRow /\ f.key \in registered THEN {<<"revived", f.key>>} ELSE {})
    BY DEF SaveCredential, Continue
<1>4. UNCHANGED <<regChallenge, challenges, handedOut, listed, counter, registered, deleted>>
    BY DEF SaveCredential, challengeVars
<1>5. /\ raced \subseteq raced' /\ (Stale(c, f.key) => <<"counter", f.key>> \in raced')
      /\ rows[f.key] = NoRow /\ f.key \in registered => <<"revived", f.key>> \in raced'
    BY <1>3
<1>6. rows \in [Authenticators -> Nat] /\ rows' \in [Authenticators -> Nat]
    BY <1>2, <1>3 DEF PasskeysInv, PasskeyTypes
<1>7. \A k \in Authenticators : rows'[k] = IF k = f.key THEN f.count ELSE rows[k]
    BY <1>3, <1>6
<1>8. MemoryCalm'
    <2>1. \A x \in raced' : x \in raced \/ x[1] \in {"counter", "revived"}
        BY <1>3
    <2> QED BY <1>3, <2>1 DEF PasskeysInv, MemoryCalm
<1>9. DeletedStaysDeleted'
    <2>1. DeletedStaysDeleted /\ deleted \subseteq registered /\ registered \subseteq Authenticators
        BY DEF PasskeysInv, PasskeyTypes
    <2> QED BY <1>4, <1>5, <1>7, <2>1 DEF DeletedStaysDeleted, Raced
<1>10. ASSUME NEW d \in Coros \ {c}, NEW r \in PasskeyCalls, r = co[d] PROVE Positioned(r)' /\ Relists(r)'
    <2>1. PasskeyCalled(r) /\ r.key \in Authenticators
        BY <1>10, PasskeyCallFacts DEF PasskeysInv
    <2>2. handedOut \in Nat
        BY DEF PasskeysInv, PasskeyTypes
    <2>3. Positioned(r)'
        BY <1>4, <2>1, <2>2, PositionedKept DEF PasskeyCalled
    <2>4. r.op = "delete" => r.key \in registered
        BY <2>1 DEF PasskeyCalled, Positioned
    <2>5. r.op = "delete" /\ rows[r.key] = NoRow => rows'[r.key] = NoRow \/ <<"revived", r.key>> \in raced'
        BY <1>5, <1>7, <2>1, <2>4
    <2> QED BY <1>4, <1>5, <2>1, <2>3, <2>5, RelistsKept DEF PasskeyCalled
<1> QED BY <1>1, <1>2, <1>3, <1>4, <1>5, <1>6, <1>8, <1>9, <1>10

(* A new credential is stored, and is to be listed. *)
LEMMA SaveRegistration ==
    ASSUME PasskeysInv, NEW c \in Coros, NEW f, f = co[c], f.op = "register", SaveCredential(c)
    PROVE  PasskeysInv' /\ area' = area
<1> SUFFICES ASSUME NEW q, q = [f EXCEPT !.pc = "list"] PROVE PasskeysInv' /\ area' = area
    OBVIOUS
<1>1. /\ f \in PasskeyCalls /\ f.key \in Authenticators /\ f.count \in Nat /\ f.pc = "save"
      /\ raced \subseteq raced' /\ area' = area
      /\ UNCHANGED <<regChallenge, challenges, handedOut, listed, counter, registered, deleted>>
      /\ rows' \in [Authenticators -> Nat] /\ rows' = [rows EXCEPT ![f.key] = f.count]
      /\ rows[f.key] = NoRow /\ f.key \in registered => <<"revived", f.key>> \in raced'
      /\ Stale(c, f.key) => <<"counter", f.key>> \in raced'
      /\ MemoryCalm' /\ DeletedStaysDeleted'
    BY PasskeySaveKeeps
<1>2. Become(c, q) /\ accepted' = accepted
    BY DEF SaveCredential, Goto
<1>3. q \in PasskeyCalls /\ q \in PasskeyFrames
    BY <1>1, PasskeyFrameFacts, PasskeyCallFacts
<1>4. q.pc = "list" /\ q.op = "register" /\ q.key = f.key
    BY <1>1, PasskeyCallFacts
<1>5. PasskeyCalled(q)'
    BY <1>4 DEF PasskeyCalled, Positioned, Answers, Answering, Counts, Relists
<1>6. \A r : Disjoined(q, r)' /\ Disjoined(r, q)'
    BY <1>4 DEF Disjoined, Answering
<1>7. rows \in [Authenticators -> Nat] /\ registered \subseteq Authenticators /\ handedOut \in Nat
    BY DEF PasskeysInv, PasskeyTypes
<1>8. \A k \in Authenticators : rows'[k] = IF k = f.key THEN f.count ELSE rows[k]
    BY <1>1, <1>7
<1>9. rows[f.key] # NoRow => <<"counter", f.key>> \in raced'
    BY <1>1 DEF Stale
<1>10. PasskeyTypes'
    BY <1>1, <1>2 DEF PasskeysInv, PasskeyTypes
<1>11. AcceptedPast'
    <2>1. AcceptedPast
        BY DEF PasskeysInv
    <2> SUFFICES ASSUME NEW i \in DOMAIN accepted, NEW n, NEW k, n = accepted[i][1], k = accepted[i][2]
                 PROVE  /\ n \in 1..handedOut' /\ k \in registered'
                        /\ n \notin challenges' \/ Raced("challenge", n)'
                        /\ rows'[k] = NoRow \/ accepted[i][3] <= rows'[k] \/ CountLost(k)'
        BY <1>2 DEF AcceptedPast
    <2>2. /\ n \in 1..handedOut /\ k \in registered
          /\ n \notin challenges \/ Raced("challenge", n)
          /\ rows[k] = NoRow \/ accepted[i][3] <= rows[k] \/ CountLost(k)
        BY <2>1 DEF AcceptedPast
    <2>3. CASE k = f.key
        BY <1>1, <1>9, <2>2, <2>3 DEF CountLost, Raced
    <2>4. CASE k # f.key
        BY <1>1, <1>7, <1>8, <2>2, <2>4 DEF CountLost, Raced
    <2> QED BY <1>1, <2>2, <2>3, <2>4 DEF Raced
<1>12. AssertionsFresh'
    BY <1>1, <1>2 DEF PasskeysInv, AssertionsFresh, Raced
<1>13. ListComplete'
    BY <1>1, <1>2, <1>4, <1>8, ListKept DEF Unlisted
<1>14. ASSUME NEW d \in Coros \ {c}, NEW r \in PasskeyCalls, r = co[d] PROVE PasskeyCalled(r)'
    <2>1. PasskeyCalled(r)
        BY <1>14, PasskeyCallFacts DEF PasskeysInv
    <2>2. /\ \A n : Unanswered(n) => Unanswered(n)'
          /\ \A k, n : Exceeds(k, n) => Exceeds(k, n)'
        BY <1>2 DEF Unanswered, Exceeds
    <2>3. Answers(r)' /\ Counts(r)'
        BY <1>1, <2>1, <2>2, AnswersKept, CountsKept DEF PasskeyCalled
    <2>4. Positioned(r)' /\ Relists(r)'
        BY <1>14, PasskeySaveKeeps
    <2> QED BY <2>3, <2>4 DEF PasskeyCalled
<1> QED BY <1>1, <1>2, <1>3, <1>5, <1>6, <1>10, <1>11, <1>12, <1>13, <1>14, PasskeyAssembled

(* An assertion is accepted, with the count of its answer. *)
LEMMA SaveAssertion ==
    ASSUME PasskeysInv, NEW c \in Coros, NEW f, f = co[c], f.op = "assert", SaveCredential(c)
    PROVE  PasskeysInv' /\ area' = area
<1> SUFFICES ASSUME NEW n, NEW k, NEW m, n = f.challenge, k = f.key, m = f.count PROVE PasskeysInv' /\ area' = area
    OBVIOUS
<1>1. /\ f \in PasskeyCalls /\ k \in Authenticators /\ m \in Nat /\ f.pc = "save" /\ k \in registered
      /\ raced \subseteq raced' /\ area' = area /\ PasskeyCalled(f)
      /\ UNCHANGED <<regChallenge, challenges, handedOut, listed, counter, registered, deleted>>
      /\ rows' \in [Authenticators -> Nat] /\ rows' = [rows EXCEPT ![k] = m]
      /\ rows[k] = NoRow => <<"revived", k>> \in raced'
      /\ Stale(c, k) => <<"counter", k>> \in raced'
      /\ MemoryCalm' /\ DeletedStaysDeleted'
    BY PasskeySaveKeeps
<1>2. Become(c, Idle) /\ accepted' = Append(accepted, <<n, k, m>>) /\ Idle \in PasskeyFrames
    BY DEF SaveCredential, Return, PasskeyFrames
<1>3. /\ n \in 1..handedOut /\ (Raced("challenge", n) \/ (Unanswered(n) /\ n \notin challenges))
      /\ Exceeds(k, m) \/ CountLost(k)
    BY <1>1 DEF PasskeyCalled, Positioned, Answers, Answering, Counts
<1>4. /\ rows \in [Authenticators -> Nat] /\ registered \subseteq Authenticators /\ handedOut \in Nat
      /\ accepted \in Seq(Nat \X Authenticators \X Nat) /\ n \in Nat
    BY <1>3 DEF PasskeysInv, PasskeyTypes
<1>5. \A j \in Authenticators : rows'[j] = IF j = k THEN m ELSE rows[j]
    BY <1>1, <1>4
<1>6. <<n, k, m>> \in Nat \X Authenticators \X Nat
    BY <1>1, <1>4
<1>7. /\ Len(accepted) \in Nat /\ DOMAIN accepted = 1..Len(accepted) /\ DOMAIN accepted' = 1..(Len(accepted) + 1)
      /\ \A i \in 1..Len(accepted) : accepted'[i] = accepted[i]
      /\ accepted'[Len(accepted) + 1] = <<n, k, m>>
      /\ accepted' \in Seq(Nat \X Authenticators \X Nat)
    BY <1>2, <1>4, <1>6
<1> SUFFICES ASSUME NEW L \in Nat, L = Len(accepted) PROVE PasskeysInv' /\ area' = area
    BY <1>7
<1>8. PasskeyTypes'
    BY <1>1, <1>7 DEF PasskeysInv, PasskeyTypes
<1>9. \A i \in DOMAIN accepted : accepted[i][2] = k => accepted[i][3] < m \/ CountLost(k)
    BY <1>3 DEF Exceeds
<1>10. AcceptedPast'
    <2>1. AcceptedPast
        BY DEF PasskeysInv
    <2>2. ASSUME NEW i \in 1..L, NEW a, NEW j, a = accepted[i][1], j = accepted[i][2]
          PROVE  /\ a \in 1..handedOut' /\ j \in registered'
                 /\ a \notin challenges' \/ Raced("challenge", a)'
                 /\ rows'[j] = NoRow \/ accepted[i][3] <= rows'[j] \/ CountLost(j)'
        <3>1. /\ a \in 1..handedOut /\ j \in registered
              /\ a \notin challenges \/ Raced("challenge", a)
              /\ rows[j] = NoRow \/ accepted[i][3] <= rows[j] \/ CountLost(j)
            BY <1>7, <2>1, <2>2 DEF AcceptedPast
        <3>2. CASE j = k
            <4>1. accepted[i][3] < m \/ CountLost(k)
                BY <1>7, <1>9, <2>2, <3>2
            <4>2. accepted[i][3] \in Nat
                BY <1>4, <1>7
            <4>3. accepted[i][3] <= rows'[j] \/ CountLost(k)'
                BY <1>1, <1>5, <3>2, <4>1, <4>2 DEF CountLost, Raced
            <4> QED BY <1>1, <3>1, <3>2, <4>3 DEF Raced
        <3>3. CASE j # k
            BY <1>1, <1>4, <1>5, <3>1, <3>3 DEF CountLost, Raced
        <3> QED BY <3>2, <3>3
    <2>3. /\ n \in 1..handedOut' /\ k \in registered'
          /\ n \notin challenges' \/ Raced("challenge", n)'
          /\ m <= rows'[k]
        BY <1>1, <1>3, <1>5 DEF Raced
    <2>4. ASSUME NEW i \in DOMAIN accepted', NEW a, NEW j, a = accepted'[i][1], j = accepted'[i][2]
          PROVE  /\ a \in 1..handedOut' /\ j \in registered'
                 /\ a \notin challenges' \/ Raced("challenge", a)'
                 /\ rows'[j] = NoRow \/ accepted'[i][3] <= rows'[j] \/ CountLost(j)'
        <3>1. i \in 1..L \/ i = L + 1
            BY <1>7
        <3>2. CASE i \in 1..L
            BY <1>7, <2>2, <2>4, <3>2
        <3>3. CASE i = L + 1
            <4>1. a = n /\ j = k /\ accepted'[i][3] = m
                BY <1>7, <2>4, <3>3
            <4> QED BY <2>3, <4>1
        <3> QED BY <3>1, <3>2, <3>3
    <2> QED BY <2>4 DEF AcceptedPast
<1>11. AssertionsFresh'
    <2>1. ASSUME NEW i \in 1..L, NEW j \in 1..L, NEW p, NEW q, p = accepted[i], q = accepted[j], i < j
          PROVE  /\ p[1] = q[1] => Raced("challenge", p[1])'
                 /\ p[2] = q[2] /\ p[3] >= q[3] => Raced("counter", p[2])' \/ Raced("revived", p[2])'
        <3>1. /\ p[1] = q[1] => Raced("challenge", p[1])
              /\ p[2] = q[2] /\ p[3] >= q[3] => Raced("counter", p[2]) \/ Raced("revived", p[2])
            BY <1>7, <2>1 DEF PasskeysInv, AssertionsFresh
        <3> QED BY <1>1, <3>1 DEF Raced
    <2>2. ASSUME NEW i \in 1..L, NEW p, p = accepted[i]
          PROVE  /\ p[1] = n => Raced("challenge", p[1])'
                 /\ p[2] = k /\ p[3] >= m => Raced("counter", p[2])' \/ Raced("revived", p[2])'
        <3>1. p[3] \in Nat
            BY <1>4, <1>7, <2>2
        <3>2. p[1] = n => Raced("challenge", n)
            BY <1>3, <1>7, <2>2 DEF Unanswered
        <3>3. p[2] = k => p[3] < m \/ CountLost(k)
            BY <1>7, <1>9, <2>2
        <3>4. p[2] = k /\ p[3] >= m => CountLost(k)
            BY <1>1, <3>1, <3>3
        <3> QED BY <1>1, <3>2, <3>4 DEF Raced, CountLost
    <2>3. ASSUME NEW i \in DOMAIN accepted', NEW j \in DOMAIN accepted', i < j, NEW p, NEW q,
                 p = accepted'[i], q = accepted'[j]
          PROVE  /\ p[1] = q[1] => Raced("challenge", p[1])'
                 /\ p[2] = q[2] /\ p[3] >= q[3] => Raced("counter", p[2])' \/ Raced("revived", p[2])'
        <3>0. i \in 1..(L + 1) /\ j \in 1..(L + 1)
            BY <1>7
        <3>1. i \in 1..L /\ (j \in 1..L \/ j = L + 1)
            BY <2>3, <3>0
        <3>2. p = accepted[i] /\ (j \in 1..L => q = accepted[j]) /\ (j = L + 1 => q = <<n, k, m>>)
            BY <1>7, <2>3, <3>1
        <3>3. CASE j \in 1..L
            BY <2>1, <2>3, <3>1, <3>2, <3>3
        <3>4. CASE j = L + 1
            <4>1. q[1] = n /\ q[2] = k /\ q[3] = m
                BY <3>2, <3>4
            <4> QED BY <2>2, <3>1, <3>2, <4>1
        <3> QED BY <3>1, <3>3, <3>4
    <2> QED BY <2>3 DEF AssertionsFresh
<1>12. ListComplete'
    BY <1>1, <1>2, <1>5, ListKept DEF Unlisted, Raced
<1>13. ASSUME NEW d \in Coros \ {c}, NEW r \in PasskeyCalls, r = co[d] PROVE PasskeyCalled(r)'
    <2>1. PasskeyCalled(r) /\ Disjoined(f, r) /\ r.pc # "idle"
        BY <1>1, <1>13, PasskeyCallFacts DEF PasskeysInv
    <2>2. Answering(r) /\ Unanswered(r.challenge) =>
              Unanswered(r.challenge)' \/ <<"challenge", r.challenge>> \in raced'
        <3>1. CASE r.challenge = n
            BY <1>1, <2>1, <3>1 DEF Disjoined, Answering, Raced
        <3>2. CASE r.challenge # n
            <4> SUFFICES ASSUME Unanswered(r.challenge), NEW i \in DOMAIN accepted'
                         PROVE  accepted'[i][1] # r.challenge
                BY DEF Unanswered
            <4>1. i \in 1..L \/ i = L + 1
                BY <1>7
            <4> QED BY <1>7, <3>2, <4>1 DEF Unanswered
        <3> QED BY <3>1, <3>2
    <2>3. r.op = "assert" /\ r.pc = "save" /\ Exceeds(r.key, r.count) =>
              Exceeds(r.key, r.count)' \/ CountLost(r.key)'
        <3>1. CASE r.key = k
            <4> SUFFICES ASSUME r.op = "assert", r.pc = "save" PROVE CountLost(r.key)'
                OBVIOUS
            <4>1. d \in With(c, k, {"save"})
                BY <1>13, <2>1, <3>1 DEF With, Busy, At
            <4>2. Stale(c, k)
                BY <1>13, <4>1 DEF Stale
            <4> QED BY <1>1, <3>1, <4>2 DEF CountLost, Raced
        <3>2. CASE r.key # k
            <4> SUFFICES ASSUME Exceeds(r.key, r.count), NEW i \in DOMAIN accepted', accepted'[i][2] = r.key
                         PROVE  accepted'[i][3] < r.count
                BY DEF Exceeds
            <4>1. i \in 1..L
                BY <1>7, <3>2
            <4> QED BY <1>7, <4>1 DEF Exceeds
        <3> QED BY <3>1, <3>2
    <2>4. Answers(r)' /\ Counts(r)'
        BY <1>1, <2>1, <2>2, <2>3, AnswersKept, CountsKept DEF PasskeyCalled
    <2>5. Positioned(r)' /\ Relists(r)'
        BY <1>13, PasskeySaveKeeps
    <2> QED BY <2>4, <2>5 DEF PasskeyCalled
<1> QED BY <1>1, <1>2, <1>8, <1>10, <1>11, <1>12, <1>13, PasskeyAssembled

LEMMA SaveCredentialSteps ==
    ASSUME PasskeysInv, NEW c \in Coros, SaveCredential(c)
    PROVE  PasskeysInv' /\ area' = area
<1>1. co[c].op \in {"register", "assert"}
    BY PasskeySaveKeeps
<1> QED BY <1>1, SaveRegistration, SaveAssertion

(* The list. *)
LEMMA ReadListSteps ==
    ASSUME PasskeysInv, NEW c \in Coros, ReadList(c), MayStep(c)
    PROVE  PasskeysInv' /\ area' = area
<1> SUFFICES ASSUME NEW f, f = co[c] PROVE PasskeysInv' /\ area' = area
    OBVIOUS
<1> SUFFICES ASSUME NEW q, q = [f EXCEPT !.pc = "relist", !.list = listed] PROVE PasskeysInv' /\ area' = area
    OBVIOUS
<1>1. f.pc = "list" /\ f \in PasskeyCalls /\ PasskeyCalled(f)
    BY PasskeyFrameFacts DEF ReadList, At, PasskeysInv
<1>2. /\ raced' = (IF Relisting(c) = {} THEN raced ELSE raced \cup {<<"list", "user">>})
      /\ Become(c, q) /\ area' = area /\ backend' = backend /\ UNCHANGED passkeyVars
    BY DEF ReadList, Overlap, Continue
<1>3. UNCHANGED <<regChallenge, challenges, handedOut, rows, listed, counter, registered, deleted, accepted>>
    BY <1>2 DEF passkeyVars, challengeVars, store, keyHistory
<1>4. raced \subseteq raced' /\ listed \subseteq Authenticators /\ handedOut \in Nat /\ regChallenge \in Nat
      /\ counter \in [Authenticators -> Nat]
    BY <1>2 DEF PasskeysInv, PasskeyTypes
<1>5. MemoryCalm'
    <2>1. backend = "memory" => Relisting(c) = {}
        BY DEF MayStep, Relisting, At, Unlisted
    <2> QED BY <1>2, <2>1 DEF PasskeysInv, MemoryCalm
<1>6. q \in PasskeyCalls /\ q \in PasskeyFrames
    BY <1>1, <1>4, PasskeyFrameFacts, PasskeyCallFacts
<1>7. q.pc = "relist" /\ q.op = f.op /\ q.key = f.key /\ q.challenge = f.challenge /\ q.list = listed
    BY <1>1, PasskeyCallFacts
<1>8. PasskeyCalled(q)'
    <2>1. Positioned(q)'
        BY <1>1, <1>3, <1>7 DEF PasskeyCalled, Positioned
    <2>2. Relists(q)'
        BY <1>1, <1>3, <1>4, <1>7 DEF PasskeyCalled, Relists, Unlisted, Raced
    <2> QED BY <1>7, <2>1, <2>2 DEF PasskeyCalled, Answers, Answering, Counts
<1>9. ASSUME NEW d \in Coros \ {c}, NEW r \in PasskeyCalls, r = co[d]
      PROVE  Disjoined(q, r)' /\ Disjoined(r, q)'
    <2>1. r.pc = "relist" => d \in Relisting(c)
        BY <1>9 DEF Relisting, Busy, At
    <2>2. r.pc = "relist" => <<"list", "user">> \in raced'
        BY <1>2, <2>1
    <2> QED BY <1>7, <2>2 DEF Disjoined, Answering, Raced
<1>10. challenges' \subseteq challenges \cup ((handedOut + 1)..handedOut') /\ handedOut' \in Nat
       /\ handedOut <= handedOut' /\ regChallenge' \in Nat /\ counter' \in [Authenticators -> Nat]
    BY <1>3, <1>4
<1>11. q.pc \in Unlisted /\ q.key = co[c].key /\ UNCHANGED <<rows, listed, registered, deleted, accepted>>
    BY <1>3, <1>7 DEF Unlisted
<1> QED BY <1>2, <1>4, <1>5, <1>6, <1>8, <1>9, <1>10, <1>11, PasskeyQuiet

LEMMA WriteListSteps ==
    ASSUME PasskeysInv, NEW c \in Coros, WriteList(c)
    PROVE  PasskeysInv' /\ area' = area
<1> SUFFICES ASSUME NEW f, f = co[c], NEW k, k = f.key PROVE PasskeysInv' /\ area' = area
    OBVIOUS
<1>1. f.pc = "relist" /\ f \in PasskeyCalls /\ PasskeyCalled(f)
    BY PasskeyFrameFacts DEF WriteList, At, PasskeysInv
<1>2. f.list \subseteq Authenticators /\ k \in Authenticators /\ f.op \in {"register", "delete"}
      /\ (f.op = "delete" => k \in registered /\ (rows[k] = NoRow \/ Raced("revived", k)))
      /\ (f.list = listed \/ Raced("list", "user"))
    BY <1>1, PasskeyCallFacts DEF PasskeyCalled, Positioned, Relists, Unlisted
<1>3. /\ Become(c, Idle) /\ area' = area /\ backend' = backend /\ raced' = raced
      /\ UNCHANGED <<regChallenge, challenges, handedOut, rows, counter, accepted>>
      /\ Idle \in PasskeyFrames
    BY DEF WriteList, Return, Continue, challengeVars, PasskeyFrames
<1>4. f.op = "register" =>
          listed' = f.list \cup {k} /\ registered' = registered \cup {k} /\ deleted' = deleted
    BY DEF WriteList
<1>5. f.op = "delete" =>
          listed' = f.list \ {k} /\ deleted' = deleted \cup {k} /\ registered' = registered
    BY DEF WriteList
<1>6. PasskeyTypes /\ registered \subseteq registered' /\ handedOut \in Nat
    BY <1>2, <1>4, <1>5 DEF PasskeysInv, PasskeyTypes
<1>7. listed' \subseteq Authenticators /\ registered' \subseteq Authenticators /\ deleted' \subseteq registered'
    BY <1>2, <1>4, <1>5, <1>6 DEF PasskeyTypes
<1>8. PasskeyTypes'
    BY <1>3, <1>6, <1>7 DEF PasskeyTypes
<1>9. AcceptedPast' /\ AssertionsFresh' /\ MemoryCalm'
    <2>1. AcceptedPast /\ AssertionsFresh /\ MemoryCalm
        BY DEF PasskeysInv
    <2>2. AcceptedPast'
        BY <1>3, <1>6, <2>1 DEF AcceptedPast, CountLost, Raced
    <2>3. AssertionsFresh' /\ MemoryCalm'
        BY <1>3, <2>1 DEF AssertionsFresh, MemoryCalm, Raced
    <2> QED BY <2>2, <2>3
<1>10. DeletedStaysDeleted'
    <2>1. DeletedStaysDeleted
        BY DEF PasskeysInv
    <2> QED BY <1>2, <1>3, <1>4, <1>5, <2>1 DEF DeletedStaysDeleted, Raced
<1>11. ListComplete'
    <2>1. CASE Raced("list", "user")
        BY <1>3, <2>1 DEF ListComplete, Raced
    <2>2. CASE ~Raced("list", "user")
        <3>1. f.list = listed /\ registered \ deleted \subseteq listed
            BY <1>2, <2>2 DEF PasskeysInv, ListComplete
        <3>2. registered' \ deleted' \subseteq listed'
            BY <1>2, <1>4, <1>5, <3>1
        <3>3. ASSUME NEW j \in Authenticators, rows'[j] # NoRow
              PROVE  j \in listed' \/ Listing(j)' \/ Raced("died", j)' \/ Raced("revived", j)'
            <4>1. j \in listed \/ Listing(j) \/ Raced("died", j) \/ Raced("revived", j)
                BY <1>3, <2>2, <3>3 DEF PasskeysInv, ListComplete
            <4>2. CASE j = k
                BY <1>2, <1>3, <1>4, <3>3, <4>2 DEF Raced
            <4>3. CASE j # k
                <5>1. j \in listed => j \in listed'
                    BY <1>2, <1>4, <1>5, <3>1, <4>3
                <5>2. Listing(j) => Listing(j)'
                    <6> SUFFICES ASSUME NEW d \in Coros, co[d].pc \in Unlisted, co[d].key = j PROVE Listing(j)'
                        BY DEF Listing
                    <6>1. d # c
                        BY <4>3
                    <6>2. co'[d] = co[d]
                        BY <1>3, <6>1 DEF Become, PasskeysInv
                    <6> QED BY <6>2 DEF Listing
                <5> QED BY <1>3, <4>1, <5>1, <5>2 DEF Raced
            <4> QED BY <4>2, <4>3
        <3> QED BY <3>2, <3>3 DEF ListComplete
    <2> QED BY <2>1, <2>2
<1>12. ASSUME NEW d \in Coros \ {c}, NEW r \in PasskeyCalls, r = co[d] PROVE PasskeyCalled(r)'
    <2>1. PasskeyCalled(r) /\ Disjoined(f, r)
        BY <1>1, <1>12, PasskeyCallFacts DEF PasskeysInv
    <2>2. /\ \A n : Unanswered(n) => Unanswered(n)'
          /\ \A j, n : Exceeds(j, n) => Exceeds(j, n)'
        BY <1>3 DEF Unanswered, Exceeds
    <2>3. Positioned(r)'
        BY <1>3, <1>6, <2>1, PositionedKept DEF PasskeyCalled
    <2>4. Answers(r)'
        BY <1>3, <2>1, <2>2, AnswersKept DEF PasskeyCalled
    <2>5. Counts(r)'
        BY <1>3, <2>1, <2>2, CountsKept DEF PasskeyCalled
    <2>6. r.pc = "relist" => <<"list", "user">> \in raced'
        BY <1>1, <1>3, <2>1 DEF Disjoined, Raced
    <2>7. Relists(r)'
        BY <1>3, <2>1, <2>6, RelistsKept DEF PasskeyCalled
    <2> QED BY <2>3, <2>4, <2>5, <2>7 DEF PasskeyCalled
<1> QED BY <1>3, <1>8, <1>9, <1>10, <1>11, <1>12, PasskeyAssembled

LEMMA PasskeysStep ==
    ASSUME PasskeysInv, PasskeysNext
    PROVE  PasskeysInv' /\ area' = area
<1>1. PICK c \in Coros :
          /\ MayStep(c)
          /\ \/ RegisterStart(c) \/ AuthenticateStart(c) \/ RegisterComplete(c)
             \/ AuthenticateComplete(c) \/ ReadChallenge(c) \/ ConsumeChallenge(c)
             \/ FetchCredential(c) \/ SaveCredential(c) \/ DeletePasskey(c) \/ NotThere(c)
             \/ RemoveCredential(c) \/ ReadList(c) \/ WriteList(c) \/ PasskeyDies(c)
    BY DEF PasskeysNext
<1> QED BY <1>1, RegisterStartSteps, AuthenticateStartSteps, RegisterCompleteSteps, AuthenticateCompleteSteps,
       ReadChallengeSteps, ConsumeChallengeSteps, FetchCredentialSteps, SaveCredentialSteps, DeletePasskeySteps,
       NotThereSteps, RemoveCredentialSteps, ReadListSteps, WriteListSteps, PasskeyDiesSteps

LEMMA PasskeysStill ==
    ASSUME PasskeysInv, UNCHANGED <<base, passkeyVars>>
    PROVE  PasskeysInv'
<1>1. UNCHANGED <<backend, co, raced, regChallenge, challenges, handedOut, rows, listed, counter, registered,
                  deleted, accepted>>
    BY DEF base, passkeyVars, challengeVars, store, keyHistory
<1>2. PasskeyTypes' /\ AcceptedPast' /\ co' \in [Coros -> PasskeyFrames]
    BY <1>1 DEF PasskeysInv, PasskeyTypes, AcceptedPast, CountLost, Raced
<1>3. AssertionsFresh' /\ DeletedStaysDeleted' /\ ListComplete' /\ MemoryCalm'
    BY <1>1 DEF PasskeysInv, AssertionsFresh, DeletedStaysDeleted, ListComplete, Listing, MemoryCalm, Raced
<1>4. \A c \in Coros : co'[c] # Idle => PasskeyCalled(co[c])'
    BY <1>1 DEF PasskeysInv, PasskeyCalled, Positioned, Answers, Answering, Unanswered, Counts, Exceeds, CountLost,
       Relists, Raced
<1>5. \A c, d \in Coros : c # d /\ co'[c] # Idle /\ co'[d] # Idle => Disjoined(co[c], co[d])'
    BY <1>1 DEF PasskeysInv, Disjoined, Answering, Raced
<1> QED BY <1>2, <1>3, <1>4, <1>5 DEF PasskeysInv

LEMMA PasskeysSafe == PasskeysInv => PasskeysSound
BY DEF PasskeysInv, PasskeyTypes, PasskeysSound, MemoryCalm

==============================================================================
