-------------------------------- MODULE Imports --------------------------------
(* Users taken over from another provider, and their first logins: the importers *)
(* page through the source while users leave it, and a password is verified      *)
(* against the imported hash and stored anew, while the user may be resetting     *)
(* it.  A person has one password at the source, "old", and resets it to "new".   *)
(* The Django importer never gets that far, and the others bring no hash that a    *)
(* login verifies: the imported hashes are those an application stored itself.     *)
EXTENDS Coroutines, FiniteSetsExt, Sequences

CONSTANT Migrants    \* users of the source, numbered in its order

VARIABLES
    provider,     \* "firebase" or "auth0"
    source,       \* the users it has
    credentials,  \* what the row of each migrant says of the password, or None
    doubled,      \* migrants with two rows
    password,     \* the password each person has now
    stranded,     \* history: migrants who reset a password that was not stored anew
    missed,       \* history: users of the source that a finished import left out
    letIn,        \* history: migrants let in with a password that was not theirs
    shutOut       \* history: <<migrant, credentials>> at which theirs was refused

directory == <<credentials, doubled, password>>
importHistory == <<stranded, missed, letIn, shutOut>>
importVars == <<provider, source, directory, importHistory>>

(* hashed_password, the hash inside legacy_password_hash, and password_algorithm. *)
Credentials ==
    [hash : {"none", "old", "new"}, legacy : {"none", "old"},
     algorithm : {"none", "pbkdf2", "bcrypt"}]
Stored(hash, legacy, algorithm) == [hash |-> hash, legacy |-> legacy, algorithm |-> algorithm]

ImportCall(c, frame) == Begin(c, frame) /\ UNCHANGED <<area, backend, raced, importVars>>
For(c, m) == {d \in Busy(c) : co[d].who = m}

------------------------------------------------------------------------------
(* fetch_users, one user to a page: Firebase goes on after the last one, Auth0   *)
(* counts.  connect of the Django importer reflects the table on an asynchronous *)
(* connection, which SQLAlchemy refuses: migrate raises, and nothing is imported. *)

Migrate(c) ==
    /\ flows < MaxFlows     \* the longer behaviours end with a login
    /\ \E strategy \in {"full", "lazy"} :
           ImportCall(c, [op |-> "import", pc |-> "page", strategy |-> strategy,
                          who |-> 0, at |-> 0])

FirebasePage(f) == LET rest == {m \in source : m > f.who} IN IF rest = {} THEN {} ELSE {Min(rest)}
Auth0Page(f) == {m \in source : Cardinality({k \in source : k < m}) = f.at}
Page(f) == IF provider = "firebase" THEN FirebasePage(f) ELSE Auth0Page(f)

FetchUsers(c) ==
    /\ At(c, "page")
    /\ \/ \E m \in Page(co[c]) :
             co' = [co EXCEPT ![c].pc = "lookup", ![c].who = m, ![c].at = @ + 1]
             /\ UNCHANGED missed
       \/ /\ Page(co[c]) = {}
          /\ missed' = missed \cup {m \in source : credentials[m] = None}
          /\ Return(c)
       \/ Return(c) /\ UNCHANGED missed     \* the provider does not answer
    /\ Continue /\ UNCHANGED <<raced, provider, source, directory, stranded, letIn, shutOut>>

LeavesSource ==
    \E m \in source :
        /\ \E c \in Coros : co[c].op = "import"
        /\ source' = source \ {m}
        /\ raced' = raced \cup {<<"left", "source">>}
        /\ UNCHANGED <<area, backend, co, flows, provider, directory, importHistory>>

------------------------------------------------------------------------------
(* _migrate_user: who has an account is skipped. *)

LookUp(c) ==
    /\ At(c, "lookup")
    /\ Goto(c, IF credentials[co[c].who] = None THEN "create" ELSE "page")
    /\ Continue /\ UNCHANGED <<raced, importVars>>

(* Somebody registers with the e-mail address. *)
Registers(c) ==
    \E m \in Migrants :
        /\ flows < MaxFlows /\ credentials[m] = None
        /\ ImportCall(c, [op |-> "register", pc |-> "create", who |-> m])

(* The password: the export of Firebase names no algorithm, and so is kept with  *)
(* the lazy strategy and dropped with the other; that of Auth0 has no hash.       *)
Imported(f) ==
    Stored("none", IF provider = "firebase" /\ f.strategy = "lazy" THEN "old" ELSE "none", "none")

StoreMigrant(c) ==
    LET f == co[c] IN
    /\ credentials' = [credentials EXCEPT ![f.who] =
           IF f.op = "register" THEN Stored("old", "none", "none") ELSE Imported(f)]
    /\ UNCHANGED doubled

Ends(c) == IF co[c].op = "import" THEN Goto(c, "page") ELSE Return(c)

(* create_user; an address that is taken is an error of this user only. *)
CreateMigrant(c) ==
    /\ backend # "dynamodb" /\ At(c, "create")
    /\ IF credentials[co[c].who] = None THEN StoreMigrant(c) ELSE UNCHANGED <<credentials, doubled>>
    /\ Ends(c)
    /\ Continue /\ UNCHANGED <<raced, provider, source, password, importHistory>>

DynamoFindMigrant(c) ==
    /\ backend = "dynamodb" /\ At(c, "create")
    /\ IF credentials[co[c].who] = None THEN Goto(c, "put") ELSE Ends(c)
    /\ Overlap("first", co[c].who, {d \in For(c, co[c].who) : At(d, "put")})
    /\ Continue /\ UNCHANGED importVars

(* A second row for the address leaves the first one where it is. *)
DynamoPutMigrant(c) ==
    /\ At(c, "put")
    /\ IF credentials[co[c].who] = None THEN StoreMigrant(c)
       ELSE doubled' = doubled \cup {co[c].who} /\ UNCHANGED credentials
    /\ Ends(c)
    /\ Continue /\ UNCHANGED <<raced, provider, source, password, importHistory>>

------------------------------------------------------------------------------
(* login_user and reset_password for somebody who has an account. *)

LogIn(c) ==
    \E m \in Migrants, typed \in {"old", "new"} :
        /\ credentials[m] # None
        /\ ImportCall(c, [op |-> "login", pc |-> "verify", who |-> m, typed |-> typed,
                          right |-> FALSE, seen |-> None])

LetIn(c, right) ==
    /\ letIn' = letIn \cup (IF right THEN {} ELSE {co[c].who})
    /\ Return(c) /\ UNCHANGED shutOut

ShutOut(c, right, row) ==
    /\ shutOut' = shutOut \cup (IF right THEN {<<co[c].who, row>>} ELSE {})
    /\ Return(c) /\ UNCHANGED letIn

(* _resolve_legacy: an algorithm other than bcrypt and argon2 is an imported hash. *)
IsLegacy(row) == row.algorithm = "pbkdf2"

(* The row is read and the password compared with what it says. *)
VerifyPassword(c) ==
    LET f == co[c]
        row == credentials[f.who]
        right == f.typed = password[f.who]
    IN
    /\ At(c, "verify")
    /\ IF IsLegacy(row) /\ row.legacy = f.typed
       THEN /\ co' = [co EXCEPT ![c].pc = "upgrade", ![c].seen = row, ![c].right = right]
            /\ UNCHANGED <<letIn, shutOut>>
       ELSE IF ~IsLegacy(row) /\ row.hash = f.typed THEN LetIn(c, right)
       ELSE ShutOut(c, right, row)
    /\ Continue /\ UNCHANGED <<raced, provider, source, directory, stranded, missed>>

(* Mutant: the algorithm is not updated with the hash. *)
SameAlgorithm(f) == Stored(f.typed, "none", "pbkdf2")
Upgraded(f) == Stored(f.typed, "none", "bcrypt")

(* verify_and_upgrade_legacy_hash: the MongoDB adapter refuses such an update. *)
UpgradeHash(c) ==
    LET f == co[c] IN
    /\ At(c, "upgrade")
    /\ IF backend = "mongodb" THEN ShutOut(c, f.right, f.seen) /\ UNCHANGED <<raced, credentials>>
       ELSE /\ credentials' = [credentials EXCEPT ![f.who] = Upgraded(f)]
            /\ raced' = IF credentials[f.who] # f.seen
                        THEN raced \cup {<<"upgrade", f.who>>} ELSE raced
            /\ LetIn(c, f.right)
    /\ Continue /\ UNCHANGED <<provider, source, doubled, password, stranded, missed>>

(* reset_password writes hashed_password and leaves the algorithm; its          *)
(* updated_at is no field the MongoDB adapter updates.                            *)
ResetPassword ==
    \E m \in Migrants :
        LET row == credentials[m] IN
        /\ row # None /\ password[m] = "old" /\ backend # "mongodb"
        /\ credentials' = [credentials EXCEPT ![m] = [row EXCEPT !.hash = "new"]]
        /\ password' = [password EXCEPT ![m] = "new"]
        /\ stranded' = IF IsLegacy(row) THEN stranded \cup {m} ELSE stranded
        /\ UNCHANGED <<base, provider, source, doubled, missed, letIn, shutOut>>

ImportDies(c) ==
    /\ ~At(c, "idle")
    /\ Return(c)
    /\ Continue /\ UNCHANGED <<raced, importVars>>

ImportsAtRest ==
    /\ provider \in {"firebase", "auth0"}
    /\ source = Migrants
    /\ backend # "memory"     \* what is imported there is gone with the process
    /\ \E earlier \in SUBSET {Min(Migrants)} :     \* stored with the hash of a Django user
           credentials = [m \in Migrants |->
               IF m \in earlier THEN Stored("none", "old", "pbkdf2") ELSE None]
    /\ doubled = {}
    /\ password = [m \in Migrants |-> "old"]
    /\ stranded = {} /\ missed = {} /\ letIn = {} /\ shutOut = {}

ImportsNext ==
    \/ LeavesSource \/ ResetPassword
    \/ \E c \in Coros :
         \/ Migrate(c) \/ FetchUsers(c) \/ LookUp(c) \/ Registers(c)
         \/ CreateMigrant(c) \/ DynamoFindMigrant(c) \/ DynamoPutMigrant(c)
         \/ LogIn(c) \/ VerifyPassword(c) \/ UpgradeHash(c)
         \/ ImportDies(c)

------------------------------------------------------------------------------
(* Properties. *)

ImportTypes ==
    /\ \A m \in Migrants : credentials[m] \in Credentials \cup {None}
    /\ source \subseteq Migrants

(* Everybody the source still has is imported, once: only if users of Auth0 left *)
(* it between two pages is somebody left out, and only in DynamoDB do two calls   *)
(* that cross give one person two rows.                                            *)
EveryoneImported ==
    /\ missed # {} => provider = "auth0" /\ Raced("left", "source")
    /\ \A m \in doubled : backend = "dynamodb" /\ Raced("first", m)

(* A password that was replaced lets nobody in, unless it was replaced while the *)
(* account still had its imported hash, or while a login was storing that anew.   *)
ReplacedIsRefused == \A m \in letIn : m \in stranded \/ Raced("upgrade", m)

(* Nobody's own password is refused, except by those two, by the MongoDB adapter  *)
(* where the hash is still the imported one, and where the import brought none    *)
(* that a login verifies.                                                         *)
OwnIsAccepted ==
    \A s \in shutOut :
        \/ s[1] \in stranded \/ Raced("upgrade", s[1])
        \/ IsLegacy(s[2]) /\ backend = "mongodb"
        \/ ~IsLegacy(s[2]) /\ s[2].hash = "none"

ImportsSound == area = "imports" =>
    ImportTypes /\ EveryoneImported /\ ReplacedIsRefused /\ OwnIsAccepted
==============================================================================
