----------------------------- MODULE SigningKeys -----------------------------
(* The identity providers' signing keys: the JWKS document each client keeps    *)
(* for an hour, shared by the coroutines of its process, and the search for the *)
(* key of an id token.  The OIDC client asks once more for a key it does not    *)
(* know; the Apple client does not.                                             *)
EXTENDS Coroutines

CONSTANT MaxKey    \* bound on the keys the provider publishes, one after another

ASSUME MaxKeyAssumption == MaxKey \in Nat \ {0}

VARIABLES
    client,      \* "oidc" or "apple"
    published,   \* the newest key: the provider publishes it and the one before
    document,    \* the newest key of the document in the cache, or None
    recent,      \* whether the cached document is less than an hour old
    denied       \* history: <<key, document searched>> of published keys refused

keyRingVars == <<client, published, document, recent, denied>>

Lists(doc, kid) == doc # None /\ kid \in {doc - 1, doc}

Rotate ==
    /\ published < MaxKey
    /\ published' = published + 1
    /\ UNCHANGED <<base, client, document, recent, denied>>

HourPasses ==
    /\ recent
    /\ recent' = FALSE
    /\ UNCHANGED <<base, client, published, document, denied>>

(* An id token arrives, signed with a key that is or was published. *)
TokenArrives(c) ==
    \E kid \in 1..published :
        /\ Begin(c, [op |-> "token", pc |-> "look", kid |-> kid, doc |-> None, again |-> FALSE])
        /\ UNCHANGED <<area, backend, raced, keyRingVars>>

Deny(c) ==
    /\ denied' = IF Lists(published, co[c].kid) THEN denied \cup {<<co[c].kid, document>>} ELSE denied
    /\ Return(c)

(* Mutant: an unknown key is not asked for again. *)
NeverAgain(c) == FALSE
MayAskAgain(c) == client = "oidc" /\ ~co[c].again

(* _find_jwk, get_user_info: the document is searched; a miss is a refusal, or  *)
(* one more fetch.                                                              *)
Search(c) ==
    IF Lists(document, co[c].kid) THEN Return(c) /\ UNCHANGED denied
    ELSE IF MayAskAgain(c)
    THEN Become(c, [co[c] EXCEPT !.pc = "fetch", !.again = TRUE]) /\ UNCHANGED denied
    ELSE Deny(c)

LookInCache(c) ==
    /\ At(c, "look")
    /\ IF recent /\ document # None THEN Search(c) ELSE Goto(c, "fetch") /\ UNCHANGED denied
    /\ Continue /\ UNCHANGED <<raced, client, published, document, recent>>

(* The provider answers with what it publishes now, or the request fails. *)
Fetch(c) ==
    /\ At(c, "fetch")
    /\ \/ Become(c, [co[c] EXCEPT !.pc = "store", !.doc = published])
       \/ Return(c)
    /\ Continue /\ UNCHANGED <<raced, keyRingVars>>

(* The document is stored; what get_jwks returns is read from the cache when   *)
(* the connection has been closed.                                              *)
Store(c) ==
    /\ At(c, "store")
    /\ document' = co[c].doc /\ recent' = TRUE
    /\ Goto(c, "search")
    /\ Overlap("fetch", client, {d \in Busy(c) : co[d].pc \in {"store", "search"}})
    /\ Continue /\ UNCHANGED <<client, published, denied>>

SearchStored(c) ==
    /\ At(c, "search")
    /\ Search(c)
    /\ Continue /\ UNCHANGED <<raced, client, published, document, recent>>

KeysAtRest ==
    /\ client \in {"oidc", "apple"} /\ backend = "memory"
    /\ published = 1
    /\ \E d \in {None, 1} : document = d /\ recent = (d = 1)
    /\ denied = {}

KeysNext ==
    \/ Rotate \/ HourPasses
    \/ \E c \in Coros :
         TokenArrives(c) \/ LookInCache(c) \/ Fetch(c) \/ Store(c) \/ SearchStored(c)

------------------------------------------------------------------------------
(* Properties. *)

(* A token whose key is published when it is validated is refused only if       *)
(* another coroutine's older document replaced the one just fetched or, at      *)
(* Apple, if the cached document is from before the key: up to an hour after a  *)
(* rotation.                                                                     *)
PublishedKeysFound ==
    \A d \in denied :
        \/ Raced("fetch", client)
        \/ client = "apple" /\ d[2] < d[1]

KeysSound == area = "keys" =>
    /\ published \in 1..MaxKey /\ document \in {None} \cup 1..published
    /\ PublishedKeysFound
==============================================================================
