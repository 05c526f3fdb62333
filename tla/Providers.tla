------------------------------ MODULE Providers ------------------------------
(* The registry of OIDC providers: rows with a unique issuer and a unique slug, *)
(* saved and updated through the four adapters.  DynamoDB keys a row by its     *)
(* issuer, and moves the row when the issuer changes.                           *)
EXTENDS Coroutines

CONSTANTS
    ProviderIds,
    Issuers, Slugs,
    Catalogs        \* sets of rows there may be at the start

VARIABLES
    providers,   \* rows
    minted,      \* ids handed out
    returned     \* history: what the last call on a provider that succeeded returned

providerVars == <<providers, minted, returned>>

Provider == [id : ProviderIds, issuer : Issuers, slug : Slugs]

ASSUME CatalogsAssumption ==
    \A catalog \in Catalogs :
        /\ catalog \subseteq Provider
        /\ \A p, q \in catalog : p # q =>
               p.id # q.id /\ p.issuer # q.issuer /\ p.slug # q.slug

(* The whitelisted fields of a request: None is left out. *)
Updates == [issuer : Issuers \cup {None}, slug : Slugs \cup {None}]
Merged(row, upd) ==
    [row EXCEPT !.issuer = IF upd.issuer = None THEN @ ELSE upd.issuer,
                !.slug   = IF upd.slug = None THEN @ ELSE upd.slug]

IssuerTaken(row) == \E p \in providers : p.id # row.id /\ p.issuer = row.issuer
SlugTaken(row) == \E p \in providers : p.id # row.id /\ p.slug = row.slug
HasAnother(row) == IssuerTaken(row) \/ SlugTaken(row)

Replace(row) == providers' = {p \in providers : p.id # row.id} \cup {row}
Returns(c, row) ==
    /\ returned' = [returned EXCEPT ![row.id] = row]
    /\ Return(c)

(* Other requests that have checked and not yet written: for the same slug, for *)
(* the same provider, or, in DynamoDB, for an item under the same issuer.       *)
Underway(c) == {d \in Busy(c) : co[d].pc \in {"write", "put", "move", "drop"}}
Keys(f) == IF backend = "dynamodb" THEN {f.old.issuer, f.new.issuer} ELSE {}
SameSlug(c, new) == {d \in Underway(c) : co[d].new.slug = new.slug /\ co[d].new.id # new.id}
SameItem(c, f) == {d \in Underway(c) : co[d].new.id = f.new.id \/ Keys(co[d]) \cap Keys(f) # {}}

Crossed(c, f) == raced' = raced
    \cup {<<"slug", f.new.slug>> : d \in SameSlug(c, f.new)}
    \cup {<<"update", f.new.id>> : d \in SameItem(c, f)}
    \cup {<<"update", co[d].new.id>> : d \in SameItem(c, f)}

------------------------------------------------------------------------------
(* save_oidc_provider *)

Save(c) ==
    \E i \in ProviderIds \ minted, iss \in Issuers, s \in Slugs :
        LET new == [id |-> i, issuer |-> iss, slug |-> s] IN
        /\ Begin(c, [op |-> "save", pc |-> "save", old |-> new, new |-> new])
        /\ minted' = minted \cup {i}
        /\ UNCHANGED <<area, backend, raced, providers, returned>>

(* The dicts, the unique columns and the unique indexes decide. *)
InsertProvider(c) ==
    LET new == co[c].new IN
    /\ At(c, "save")
    /\ IF HasAnother(new) THEN Return(c) /\ UNCHANGED <<providers, returned>>
       ELSE providers' = providers \cup {new} /\ Returns(c, new)
    /\ Continue /\ UNCHANGED <<raced, minted>>

MemorySaveProvider(c) == backend = "memory" /\ InsertProvider(c)
SqlSaveProvider(c) == backend = "sql" /\ InsertProvider(c)
MongoSaveProvider(c) == backend = "mongodb" /\ InsertProvider(c)

(* A get for the issuer and a scan for the slug; the put is refused only if the *)
(* issuer's item is there by then.                                              *)
DynamoScanProviders(c) ==
    LET new == co[c].new IN
    /\ backend = "dynamodb" /\ At(c, "save")
    /\ IF HasAnother(new) THEN Return(c) ELSE Goto(c, "put")
    /\ Crossed(c, co[c])
    /\ Continue /\ UNCHANGED providerVars

DynamoPutProvider(c) ==
    LET new == co[c].new IN
    /\ At(c, "put")
    /\ IF IssuerTaken(new) THEN Return(c) /\ UNCHANGED <<providers, returned>>
       ELSE providers' = providers \cup {new} /\ Returns(c, new)
    /\ Continue /\ UNCHANGED <<raced, minted>>

------------------------------------------------------------------------------
(* update_oidc_provider *)

(* Memory: the issuer is moved before the slug is found to be taken. *)
MemoryUpdateProvider(c) ==
    /\ backend = "memory" /\ At(c, "idle") /\ flows < MaxFlows /\ flows' = flows + 1
    /\ \E row \in providers, upd \in Updates :
           LET moved == Merged(row, [upd EXCEPT !.slug = None])
               new == Merged(row, upd)
           IN IF IssuerTaken(moved) THEN UNCHANGED <<providers, returned, raced>>
              ELSE IF SlugTaken(new)
              THEN /\ Replace(moved)
                   /\ Overlap("half", row.id, IF moved = row THEN {} ELSE {c})
                   /\ UNCHANGED returned
              ELSE /\ Replace(new)
                   /\ returned' = [returned EXCEPT ![row.id] = new]
                   /\ UNCHANGED raced
    /\ UNCHANGED <<area, backend, co, minted>>

(* The row is read and what it is to become is checked. *)
FindProvider(c, next(_, _)) ==
    /\ At(c, "idle") /\ flows < MaxFlows /\ flows' = flows + 1
    /\ \E row \in providers, upd \in Updates :
           LET new == Merged(row, upd)
               frame == [op |-> "update", pc |-> next(row, new), old |-> row, upd |-> upd, new |-> new]
           IN /\ ~HasAnother(new)
              /\ Become(c, frame)
              /\ Crossed(c, frame)
    /\ UNCHANGED <<area, backend, providerVars>>

ToWrite(row, new) == "write"
SqlFindProvider(c) == backend = "sql" /\ FindProvider(c, ToWrite)
MongoFindProvider(c) == backend = "mongodb" /\ FindProvider(c, ToWrite)

(* Only the fields of the request are written; uniqueness is the database's. *)
WriteProvider(c) ==
    /\ At(c, "write")
    /\ \E row \in providers :
           LET new == Merged(row, co[c].upd) IN
           /\ row.id = co[c].old.id
           /\ IF HasAnother(new) THEN Return(c) /\ UNCHANGED <<providers, returned>>
              ELSE Replace(new) /\ Returns(c, new)
    /\ Continue /\ UNCHANGED <<raced, minted>>

SqlUpdateProvider(c) == backend = "sql" /\ WriteProvider(c)
MongoUpdateProvider(c) == backend = "mongodb" /\ WriteProvider(c)

PutOrMove(row, new) == IF row.issuer = new.issuer THEN "write" ELSE "move"
DynamoFindProvider(c) == backend = "dynamodb" /\ FindProvider(c, PutOrMove)

(* On condition that the item is still under that issuer. *)
DynamoUpdateProvider(c) ==
    LET key == {p \in providers : p.issuer = co[c].old.issuer} IN
    /\ backend = "dynamodb" /\ At(c, "write")
    /\ IF key = {} THEN Return(c) /\ UNCHANGED <<providers, returned>>
       ELSE \E row \in key :
                LET new == Merged(row, co[c].upd) IN
                providers' = (providers \ {row}) \cup {new} /\ Returns(c, new)
    /\ Continue /\ UNCHANGED <<raced, minted>>

(* The new item, with what was read, is put before the old one is deleted. *)
DynamoMove(c) ==
    /\ At(c, "move")
    /\ IF \E p \in providers : p.issuer = co[c].new.issuer
       THEN Return(c) /\ UNCHANGED providers
       ELSE providers' = providers \cup {co[c].new} /\ Goto(c, "drop")
    /\ Continue /\ UNCHANGED <<raced, minted, returned>>

(* Mutant: the old item stays. *)
KeepOldItem(c) ==
    /\ At(c, "drop")
    /\ Returns(c, co[c].new)
    /\ Continue /\ UNCHANGED <<raced, minted, providers>>

DynamoDropOld(c) ==
    /\ At(c, "drop")
    /\ providers' = {p \in providers : p.issuer # co[c].old.issuer}
    /\ Returns(c, co[c].new)
    /\ Continue /\ UNCHANGED <<raced, minted>>

ProviderRequestDies(c) ==
    /\ backend # "memory" /\ ~At(c, "idle")
    /\ Overlap("moved", co[c].new.id, IF At(c, "drop") THEN {c} ELSE {})
    /\ Return(c)
    /\ Continue /\ UNCHANGED providerVars

ProvidersAtRest ==
    /\ providers \in Catalogs
    /\ minted = {p.id : p \in providers}
    /\ returned = [i \in ProviderIds |->
           IF i \in minted THEN CHOOSE p \in providers : p.id = i ELSE None]

ProvidersNext ==
    \/ \E c \in Coros :
         /\ Alone(c)
         /\ \/ Save(c) \/ MemorySaveProvider(c) \/ SqlSaveProvider(c) \/ MongoSaveProvider(c)
            \/ DynamoScanProviders(c) \/ DynamoPutProvider(c)
            \/ MemoryUpdateProvider(c) \/ SqlFindProvider(c) \/ SqlUpdateProvider(c)
            \/ MongoFindProvider(c) \/ MongoUpdateProvider(c)
            \/ DynamoFindProvider(c) \/ DynamoUpdateProvider(c) \/ DynamoMove(c) \/ DynamoDropOld(c)
    \/ \E c \in Coros : ProviderRequestDies(c)

------------------------------------------------------------------------------
(* Properties. *)

Moving(i) == \E c \in Coros : At(c, "drop") /\ co[c].new.id = i
Doubled(i) == Moving(i) \/ Raced("moved", i) \/ Raced("update", i)

(* Issuers and slugs are unique, except in DynamoDB: for a slug that two        *)
(* requests checked at once, and for a provider that is being moved, whose move *)
(* died half way, or that two updates changed at once.                          *)
ProvidersDiffer ==
    \A p, q \in providers : p # q =>
        /\ p.issuer # q.issuer
        /\ p.slug # q.slug \/ Raced("slug", p.slug) \/ Doubled(p.id) \/ Doubled(q.id)
        /\ p.id # q.id \/ Doubled(p.id)

(* A provider is what the last call on it that succeeded returned, unless two   *)
(* updates of it overlapped, a move died before it deleted the old item, or the *)
(* memory adapter refused the slug of an update after it had moved the issuer.  *)
AsReturned ==
    \A i \in ProviderIds : returned[i] # None =>
        \/ {p \in providers : p.id = i} = {returned[i]}
        \/ Doubled(i) \/ Raced("half", i)

ProvidersSound == area = "providers" =>
    /\ providers \subseteq Provider /\ minted \subseteq ProviderIds
    /\ ProvidersDiffer /\ AsReturned
    /\ backend = "memory" => \A r \in raced : r[1] = "half"
    /\ backend \in {"sql", "mongodb"} => \A p, q \in providers : p.slug = q.slug => p = q
==============================================================================
