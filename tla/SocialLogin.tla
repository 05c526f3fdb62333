----------------------------- MODULE SocialLogin -----------------------------
(* Social login.  The Google client keeps the flow of the last authorization in *)
(* one attribute, which exchanges running in threads share; the other clients   *)
(* exchange a code by itself.  Provider tokens are kept in the cache under the  *)
(* user and the provider until logout.  The account itself is Directory's.      *)
EXTENDS Coroutines, Sequences

CONSTANTS
    People,     \* those who sign in; each has an account
    Clients,    \* the providers that are configured
    MaxOpened   \* bound on the Google flows opened

ASSUME OpenedAssumption == MaxOpened \in Nat

VARIABLES
    flow,      \* GoogleManager._flow: the flow opened last
    held,      \* the token each flow object keeps
    issued,    \* the person and the provider of each access token issued (external)
    revoked,   \* tokens revoked at the provider (external)
    vault,     \* tessera:social:{provider}:{user}: the stored token
    cleared,   \* history: tokens that a logout removed from the vault
    entered    \* history: <<who authorized, whose session>> of the logins

google == <<flow, held>>
world == <<issued, revoked>>
histories == <<cleared, entered>>
socialVars == <<google, world, vault, histories>>

NoToken == 0       \* no token, and no flow
Refreshing == {"google", "apple"}
Revoking == {"apple", "facebook"}
Vaults == People \X Clients

SocialFrame(kind, step, p, k) ==
    [op |-> kind, pc |-> step, by |-> p, person |-> p, client |-> k,
     object |-> NoToken, token |-> NoToken]

VaultOf(c) == <<co[c].person, co[c].client>>
Owner(c) == issued[co[c].token][1]

(* The provider issues a token to the person c acts for. *)
Issue(c, step) ==
    /\ issued' = Append(issued, VaultOf(c))
    /\ Become(c, [co[c] EXCEPT !.pc = step, !.token = Len(issued'),
                               !.object = IF co[c].client = "google" THEN flow ELSE NoToken])

SocialCall(c, kind, step) ==
    \E p \in People, k \in Clients :
        /\ kind = "refresh" => k \in Refreshing
        /\ Begin(c, SocialFrame(kind, step, p, k))
        /\ UNCHANGED <<area, backend, raced, socialVars>>

------------------------------------------------------------------------------
(* Signing in. *)

(* GoogleManager.create_authorization_url *)
OpenFlow(c) ==
    /\ At(c, "idle") /\ Len(held) < MaxOpened
    /\ held' = Append(held, NoToken)
    /\ flow' = Len(held')
    /\ UNCHANGED <<base, world, vault, histories>>

(* A person comes back from a provider with a code. *)
SocialCallback(c) == SocialCall(c, "login", "exchange")

(* The code is exchanged without anything kept in the manager. *)
ExchangeCode(c) ==
    /\ At(c, "exchange") /\ co[c].client # "google"
    /\ Issue(c, "profile")
    /\ Continue /\ UNCHANGED <<raced, google, revoked, vault, histories>>

(* GoogleManager.exchange_code: fetch_token on the flow that is there now.      *)
(* Google may refuse a code of another flow, and this process may have no flow. *)
FetchToken(c) ==
    /\ At(c, "exchange") /\ co[c].client = "google"
    /\ \/ flow # NoToken /\ Issue(c, "keep")
       \/ Return(c) /\ UNCHANGED issued
    /\ Continue /\ UNCHANGED <<raced, google, revoked, vault, histories>>

(* The answer is stored in the flow object. *)
KeepToken(c) ==
    /\ At(c, "keep")
    /\ held' = [held EXCEPT ![co[c].object] = co[c].token]
    /\ Goto(c, "credentials")
    /\ Overlap("flow", "google", {d \in Busy(c) : co[d].pc \in {"keep", "credentials"}})
    /\ Continue /\ UNCHANGED <<flow, world, vault, histories>>

(* The credentials of the flow that is there by then. *)
ReadCredentials(c) ==
    /\ At(c, "credentials")
    /\ IF held[flow] = NoToken THEN Return(c)
       ELSE Become(c, [co[c] EXCEPT !.pc = "profile", !.token = held[flow]])
    /\ Continue /\ UNCHANGED <<raced, socialVars>>

(* The profile is the token owner's; an unverified address is refused. *)
ReadProfile(c) ==
    /\ At(c, "profile")
    /\ \/ Become(c, [co[c] EXCEPT !.pc = "store", !.person = Owner(c)])
       \/ Return(c)
    /\ Continue /\ UNCHANGED <<raced, socialVars>>

OpenSession(c) ==
    /\ At(c, "session")
    /\ entered' = entered \cup {<<co[c].by, co[c].person>>}
    /\ Return(c)
    /\ Continue /\ UNCHANGED <<raced, google, world, vault, cleared>>

------------------------------------------------------------------------------
(* The stored token. *)

(* refresh_access_token: a new token, which is stored when the answer is here. *)
RefreshCall(c) == SocialCall(c, "refresh", "ask")

AskToken(c) ==
    /\ At(c, "ask")
    /\ Issue(c, "store") \/ (Return(c) /\ UNCHANGED issued)
    /\ Continue /\ UNCHANGED <<raced, google, revoked, vault, histories>>

LoggingOut(c) == {d \in Busy(c) : co[d].op = "logout" /\ VaultOf(d) = VaultOf(c)}

StoreToken(c) ==
    /\ At(c, "store")
    /\ vault' = [vault EXCEPT ![VaultOf(c)] = co[c].token]
    /\ Overlap("logout", VaultOf(c), LoggingOut(c))
    /\ IF co[c].op = "login" THEN Goto(c, "session") ELSE Return(c)
    /\ Continue /\ UNCHANGED <<google, world, histories>>

(* logout: peek, revoke where the provider supports it, clear. *)
LogoutCall(c) == SocialCall(c, "logout", "peek")

PeekToken(c) ==
    /\ At(c, "peek")
    /\ LET t == vault[VaultOf(c)]
           revokes == co[c].client \in Revoking /\ t # NoToken
       IN Become(c, [co[c] EXCEPT !.pc = IF revokes THEN "revoke" ELSE "clear", !.token = t])
    /\ Continue /\ UNCHANGED <<raced, socialVars>>

(* The provider may answer with an error, or not answer. *)
RevokeToken(c) ==
    /\ At(c, "revoke")
    /\ \/ revoked' = revoked \cup {co[c].token} /\ Goto(c, "clear")
       \/ Return(c) /\ UNCHANGED revoked
    /\ Continue /\ UNCHANGED <<raced, google, issued, vault, histories>>

(* Mutant: the entry is kept when its token has been revoked. *)
ClearRevoked(c) == IF co[c].token \in revoked THEN vault[VaultOf(c)] ELSE NoToken
Clear(c) == NoToken

ClearToken(c) ==
    /\ At(c, "clear")
    /\ vault' = [vault EXCEPT ![VaultOf(c)] = Clear(c)]
    /\ cleared' = cleared \cup {<<co[c].client, vault[VaultOf(c)]>>}
    /\ Return(c)
    /\ Continue /\ UNCHANGED <<raced, google, world, entered>>

(* A request is cancelled, or its process ends. *)
SocialDies(c) ==
    /\ ~At(c, "idle")
    /\ Overlap("died", VaultOf(c), IF At(c, "clear") THEN {c} ELSE {})
    /\ Return(c)
    /\ Continue /\ UNCHANGED socialVars

SocialAtRest ==
    /\ backend = "memory"     \* the adapter plays no part
    /\ flow = NoToken /\ held = <<>>
    /\ \E p \in People, k \in Clients :
           issued = <<<<p, k>>>> /\ vault = [v \in Vaults |-> IF v = <<p, k>> THEN 1 ELSE NoToken]
    /\ revoked = {} /\ cleared = {} /\ entered = {}

SocialNext ==
    \E c \in Coros :
        \/ OpenFlow(c) \/ SocialCallback(c) \/ ExchangeCode(c) \/ FetchToken(c)
        \/ KeepToken(c) \/ ReadCredentials(c) \/ ReadProfile(c) \/ OpenSession(c)
        \/ RefreshCall(c) \/ AskToken(c) \/ StoreToken(c)
        \/ LogoutCall(c) \/ PeekToken(c) \/ RevokeToken(c) \/ ClearToken(c) \/ SocialDies(c)

------------------------------------------------------------------------------
(* Properties. *)

(* A session is opened for whoever authorized at the provider, unless two       *)
(* exchanges were in the shared flow at once.                                   *)
OwnSession == \A e \in entered : e[1] = e[2] \/ Raced("flow", "google")

(* The token that is stored has not been revoked by a logout that is over, and  *)
(* what a logout removes it has revoked, unless a login or a refresh stored a   *)
(* token during the logout, or the logout died before it cleared the entry.     *)
LogoutTakesToken ==
    /\ \A v \in Vaults : vault[v] \in revoked =>
           \/ \E c \in Coros : co[c].op = "logout" /\ VaultOf(c) = v /\ At(c, "clear")
           \/ Raced("logout", v) \/ Raced("died", v)
    /\ \A x \in cleared : x[1] \in Revoking /\ x[2] # NoToken =>
           \/ x[2] \in revoked
           \/ \E p \in People : Raced("logout", <<p, x[1]>>)

SocialSound == area = "social" =>
    /\ vault \in [Vaults -> 0..Len(issued)] /\ revoked \subseteq 1..Len(issued)
    /\ OwnSession /\ LogoutTakesToken
==============================================================================
