-------------------------------- MODULE Access --------------------------------
(* The parts that hang around the core: roles, the platform (administration,   *)
(* imports, migrations, route guards, password policy, the receiver of         *)
(* webhooks, bot protection), federated login, and the second factors.  They    *)
(* share the coroutines and no state, so a behaviour is about one of them, and   *)
(* the variables of the others stay unset.                                        *)
EXTENDS
    Roles, Enterprise, Migrations, Imports, Guards, PasswordChecks,
    Saml, Providers, SigningKeys, OidcLogin, SocialLogin,
    Mfa, Passkeys, SmsCodes, BotProtection, Receipts

platform == <<enterpriseVars, migrationVars, importVars, guardVars, passwordVars,
              receiptVars, botVars>>
federation == <<samlVars, providerVars, keyRingVars, oidcVars, socialVars>>
factors == <<mfaVars, passkeyVars, smsVars>>
accessVars == <<base, roleVars, platform, federation, factors>>

NoRoles ==
    /\ roles = None /\ born = None /\ gone = None /\ grants = None /\ cache = None
    /\ loaded = None /\ behind = None

NoEnterprise ==
    /\ keys = None /\ keyIndex = None /\ expired = None /\ admin = None
    /\ granted = None /\ stored = None /\ index = None /\ oldIndex = None
    /\ used = None /\ done = None

NoMigrations ==
    /\ disk = None /\ journal = None /\ effects = None

NoImports ==
    /\ provider = None /\ source = None /\ credentials = None
    /\ doubled = None /\ password = None /\ stranded = None /\ missed = None
    /\ letIn = None /\ shutOut = None

NoGuards ==
    /\ threaded = None /\ orgs = None /\ holder = None /\ membership = None
    /\ hits = None /\ timed = None /\ life = None /\ passed = None /\ orphaned = None

NoPasswords ==
    /\ minimum = None /\ failClosed = None /\ breaches = None /\ kept = None
    /\ verdict = None

NoReceipts ==
    /\ moment = None /\ stamp = None /\ seen = None /\ answered = None

NoSaml ==
    /\ requests = None /\ ledger = None /\ accounts = None /\ jit = None
    /\ logins = None /\ turned = None

NoProviders ==
    /\ providers = None /\ minted = None /\ returned = None

NoKeys ==
    /\ client = None /\ published = None /\ document = None /\ recent = None
    /\ denied = None

NoOidc ==
    /\ viaCache = None /\ pkce = None /\ pending = None /\ redeemed = None
    /\ signedIn = None

NoSocial ==
    /\ flow = None /\ held = None /\ issued = None /\ revoked = None /\ vault = None
    /\ cleared = None /\ entered = None

NoMfa ==
    /\ offered = None /\ row = None /\ attempts = None /\ window = None
    /\ secrets = None /\ batches = None /\ rejected = None /\ spent = None
    /\ lostSetup = None

NoPasskeys ==
    /\ regChallenge = None /\ challenges = None /\ handedOut = None /\ rows = None
    /\ listed = None /\ counter = None /\ registered = None /\ deleted = None
    /\ accepted = None

NoSms ==
    /\ sends = None /\ sendWindow = None /\ record = None /\ generated = None
    /\ outdated = None /\ admitted = None /\ wrong = None /\ verified = None
    /\ dead = None

NoBot ==
    /\ lists = None /\ stamped = None /\ old = None /\ actions = None

------------------------------------------------------------------------------
Areas ==
    {"roles",
     "enterprise", "migrations", "imports", "guards", "passwords", "receipts", "bot",
     "saml", "providers", "keys", "oidc", "social",
     "mfa", "passkeys", "sms"}

Init ==
    /\ \E a \in Areas : BaseInit(a)
    /\ IF area = "roles" THEN RolesAtRest ELSE NoRoles
    /\ IF area = "enterprise" THEN EnterpriseAtRest ELSE NoEnterprise
    /\ IF area = "migrations" THEN MigrationsAtRest ELSE NoMigrations
    /\ IF area = "imports" THEN ImportsAtRest ELSE NoImports
    /\ IF area = "guards" THEN GuardsAtRest ELSE NoGuards
    /\ IF area = "passwords" THEN PasswordsAtRest ELSE NoPasswords
    /\ IF area = "receipts" THEN ReceiptsAtRest ELSE NoReceipts
    /\ IF area = "saml" THEN SamlAtRest ELSE NoSaml
    /\ IF area = "providers" THEN ProvidersAtRest ELSE NoProviders
    /\ IF area = "keys" THEN KeysAtRest ELSE NoKeys
    /\ IF area = "oidc" THEN OidcAtRest ELSE NoOidc
    /\ IF area = "social" THEN SocialAtRest ELSE NoSocial
    /\ IF area = "mfa" THEN MfaAtRest ELSE NoMfa
    /\ IF area = "passkeys" THEN PasskeysAtRest ELSE NoPasskeys
    /\ IF area = "sms" THEN SmsAtRest ELSE NoSms
    /\ IF area = "bot" THEN BotAtRest ELSE NoBot

Next ==
    \/ area = "roles" /\ RolesNext
       /\ UNCHANGED <<platform, federation, factors>>
    \/ area = "enterprise" /\ EnterpriseNext
       /\ UNCHANGED <<roleVars, migrationVars, importVars, guardVars, passwordVars,
                      receiptVars, botVars, federation, factors>>
    \/ area = "migrations" /\ MigrationsNext
       /\ UNCHANGED <<roleVars, enterpriseVars, importVars, guardVars,
                      passwordVars, receiptVars, botVars, federation, factors>>
    \/ area = "imports" /\ ImportsNext
       /\ UNCHANGED <<roleVars, enterpriseVars, migrationVars, guardVars,
                      passwordVars, receiptVars, botVars, federation, factors>>
    \/ area = "guards" /\ GuardsNext
       /\ UNCHANGED <<roleVars, enterpriseVars, migrationVars, importVars,
                      passwordVars, receiptVars, botVars, federation, factors>>
    \/ area = "passwords" /\ PasswordsNext
       /\ UNCHANGED <<roleVars, enterpriseVars, migrationVars, importVars,
                      guardVars, receiptVars, botVars, federation, factors>>
    \/ area = "receipts" /\ ReceiptsNext
       /\ UNCHANGED <<roleVars, enterpriseVars, migrationVars, importVars,
                      guardVars, passwordVars, botVars, federation, factors>>
    \/ area = "bot" /\ BotNext
       /\ UNCHANGED <<roleVars, enterpriseVars, migrationVars, importVars,
                      guardVars, passwordVars, receiptVars, federation, factors>>
    \/ area = "saml" /\ SamlNext
       /\ UNCHANGED <<providerVars, keyRingVars, oidcVars, socialVars, roleVars,
                      platform, factors>>
    \/ area = "providers" /\ ProvidersNext
       /\ UNCHANGED <<samlVars, keyRingVars, oidcVars, socialVars, roleVars,
                      platform, factors>>
    \/ area = "keys" /\ KeysNext
       /\ UNCHANGED <<samlVars, providerVars, oidcVars, socialVars, roleVars,
                      platform, factors>>
    \/ area = "oidc" /\ OidcNext
       /\ UNCHANGED <<samlVars, providerVars, keyRingVars, socialVars, roleVars,
                      platform, factors>>
    \/ area = "social" /\ SocialNext
       /\ UNCHANGED <<samlVars, providerVars, keyRingVars, oidcVars, roleVars,
                      platform, factors>>
    \/ area = "mfa" /\ MfaNext
       /\ UNCHANGED <<passkeyVars, smsVars, roleVars, platform, federation>>
    \/ area = "passkeys" /\ PasskeysNext
       /\ UNCHANGED <<mfaVars, smsVars, roleVars, platform, federation>>
    \/ area = "sms" /\ SmsNext
       /\ UNCHANGED <<mfaVars, passkeyVars, roleVars, platform, federation>>

Spec == Init /\ [][Next]_accessVars

------------------------------------------------------------------------------
(* Properties. *)

(* The platform: keys are charged and index entries kept as they should be, the   *)
(* journal of the migrations is true, imported users log in with the password they *)
(* have, guards turn away who may not enter, no accepted password was found         *)
(* compromised, a receiver accepts a delivery once, and the lists of the bot        *)
(* protection lose no entry.                                                          *)
PlatformSound ==
    /\ EnterpriseSound /\ MigrationsSound /\ ImportsSound
    /\ GuardsSound /\ PasswordsSound /\ ReceiptsSound /\ BotSound

(* Federated login: a SAML answer opens one session and its login finds the one  *)
(* account of its subject, providers differ, a published signing key is found,   *)
(* a code signs in for its own attempt, and a social login opens the session of  *)
(* whoever authorized it.                                                        *)
FederationSound == SamlSound /\ ProvidersSound /\ KeysSound /\ OidcSound /\ SocialSound

(* Second factors: a code, a challenge and a text message admit once, guesses     *)
(* and requests are capped, and no passkey leaves the list of its user.           *)
SecondFactorSound == MfaSound /\ PasskeysSound /\ SmsSound
==============================================================================
