--------------------------- MODULE DirectoryProofs ---------------------------
(* The user directory is sound, and refuses only what is taken, for every    *)
(* value of the constants.                                                     *)
EXTENDS Directory, TLAPS

-------------------------------------------------------------------------------
(* The inductive invariant. *)

(* Where a flow that acts on a user may be. *)
Closers == {"delete", "lock", "erase"}
Ops == {"none", "register", "admin", "social", "oidc", "saml", "magic", "import", "update",
        "delete", "lock", "unlock", "must_reset_password", "erase", "login"}
Pcs == {"idle", "lookup", "check", "write", "revoke", "flip", "remove", "flag", "signin", "save"}

Frame == [op : Ops, pc : Pcs, rec : Record, upd : SUBSET (Fields \X Values),
          who : Users \cup {Nobody}, read : Record, list : SUBSET (Users \X Coros),
          verified : BOOLEAN, res : {"none", "done", "refused", "conflict"}]

(* What a coroutine carries at each of its suspension points. *)
Shape(q) ==
    /\ q \in Frame
    /\ q.pc \in {"lookup", "signin"} => q.who = Nobody
    /\ q.pc = "lookup" => q.op \notin Closers
    /\ q.pc = "signin" => q.op = "login"
    /\ q.pc \in {"check", "write"} =>
          \/ q.who = Nobody /\ q.op \notin Closers
          \/ /\ q.who \in born
             /\ \/ q.op = "update"
                \/ q.op = "erase" /\ backend # "mongodb" /\ q.upd = Erasure(q.who)
    /\ q.pc \in {"revoke", "flip"} =>
          /\ q.op \in Closers /\ q.who \in born
          /\ q.op = "erase" => q.upd = Erasure(q.who)
    /\ q.pc = "remove" => q.op = "delete" /\ q.who \in born
    /\ q.pc = "flag"   => q.op \in {"lock", "unlock", "must_reset_password"} /\ q.who \in born
    /\ q.pc = "save"   => q.op = "login" /\ q.who \in born
    /\ q.pc = "write"  => backend # "memory"
    /\ q.pc = "flip"   => backend = "dynamodb"

StoreTyped ==
    /\ backend \in Backends
    /\ live \subseteq born /\ born \subseteq Users /\ active \subseteq live
    /\ row \in [Users -> Record] /\ key \in [Users -> Record]
    /\ sess \subseteq Users \X Coros
    /\ flows \in 0..MaxFlows
    /\ crossed \subseteq Users /\ raced \in BOOLEAN /\ late \subseteq Users
    /\ erased \subseteq Users \X Fields \X Values

Typed ==
    /\ StoreTyped
    /\ co \in [Coros -> Frame]
    /\ \A c \in Coros : Shape(co[c])

(* What the adapter searches by, and no two users by the same. *)
Keyed ==
    /\ Searchable
    /\ backend = "mongodb" => \A u \in live : key[u]["phone"] = row[u]["phone"]

KeysDiffer ==
    \A u, v \in live, f \in Fields :
        u # v /\ (IF backend = "mongodb" THEN key[u][f] # Absent
                  ELSE Given(key[u][f]) /\ (backend = "dynamodb" => ~raced))
        => key[u][f] # key[v][f]

(* What a coroutine between its check and its write may rely on. *)
Target(q) == IF q.who # Nobody THEN Merge(row[q.who], q.upd) ELSE q.rec

Pending ==
    \A c \in Coros : At(c, "write") =>
        /\ co[c].who # Nobody => co[c].read = row[co[c].who] \/ co[c].who \in crossed
        /\ backend = "dynamodb" /\ ~raced => ~DynamoTaken(Target(co[c]), co[c].who)

Apart ==
    \A c, d \in Coros : c # d /\ At(c, "write") /\ At(d, "write") =>
        /\ raced
        /\ co[c].who # Nobody /\ co[c].who = co[d].who => co[c].who \in crossed

Forgotten ==
    \A e \in erased :
        /\ e[1] \in born /\ Given(e[3]) /\ e[3] # Tomb[e[1]]
        /\ e[1] \in live => key[e[1]][e[2]] # e[3]

(* The sessions that a deletion or a lock-out has revoked do not come back. *)
EmptyFor(q) ==
    q.op \in Closers =>
        \A s \in sess : s[1] = q.who =>
            /\ q.pc \in {"check", "write", "remove"} => s[1] \in late
            /\ q.pc = "flip" => s[1] \in late \/ s \in q.list

Emptied == \A c \in Coros : EmptyFor(co[c])

Stored == Keyed /\ KeysDiffer /\ Pending /\ Apart /\ Forgotten

IInv ==
    /\ Typed
    /\ Stored
    /\ Emptied
    /\ NoOrphanSession

-------------------------------------------------------------------------------
(* The operators the adapters are built from. *)

LEMMA TextFacts ==
  /\ \A v \in Values : Given(v) => v \in Texts
  /\ \A v \in Texts : Given(v) /\ v \in Values /\ Given(Lower[v]) /\ Lower[v] \in Values
  /\ \A u \in Users : Tomb[u] \in Texts /\ Lower[Tomb[u]] = Tomb[u]
  /\ Null \in Values /\ Absent \in Values /\ ~Given(Null) /\ ~Given(Absent) /\ Null # Absent
  BY IdentsAssumption DEF Values, Given, Null, Absent

LEMMA LoweredFacts ==
  ASSUME NEW f, NEW v \in Values
  PROVE  /\ Lowered(f, v) \in Values
         /\ Given(v) => Given(Lowered(f, v))
         /\ ~Given(v) => Lowered(f, v) = Absent
         /\ f = "phone" /\ Given(v) => Lowered(f, v) = v
         /\ f # "phone" /\ Given(v) => Lowered(f, v) = Lower[v]
         /\ Lowered(f, v) # Absent => Given(v)
  BY TextFacts DEF Lowered

LEMMA MergeFacts ==
  ASSUME NEW rec \in Record, NEW upd \in SUBSET (Fields \X Values)
  PROVE  /\ Merge(rec, upd) \in Record
         /\ \A f \in Fields : \/ Merge(rec, upd)[f] = rec[f] /\ ~\E p \in upd : p[1] = f
                             \/ \E p \in upd : p[1] = f /\ Merge(rec, upd)[f] = p[2]
  <1>1. ASSUME NEW f \in Fields
        PROVE  /\ Merge(rec, upd)[f] \in Values
               /\ \/ Merge(rec, upd)[f] = rec[f] /\ ~\E p \in upd : p[1] = f
                  \/ \E p \in upd : p[1] = f /\ Merge(rec, upd)[f] = p[2]
    <2>1. CASE \E p \in upd : p[1] = f
      <3>1. PICK p : p = CHOOSE q \in upd : q[1] = f
        OBVIOUS
      <3>2. p \in upd /\ p[1] = f
        BY <2>1, <3>1
      <3>3. Merge(rec, upd)[f] = p[2]
        BY <2>1, <3>1, Zenon DEF Merge
      <3>4. p[2] \in Values
        BY <3>2
      <3>5. QED
        BY <3>2, <3>3, <3>4
    <2>2. CASE ~\E p \in upd : p[1] = f
      BY <2>2 DEF Merge, Record
    <2>3. QED
      BY <2>1, <2>2
  <1>2. QED
    BY <1>1 DEF Merge, Record

LEMMA ErasureFacts ==
  ASSUME NEW u \in Users, NEW rec \in Record
  PROVE  /\ Erasure(u) \in SUBSET (Fields \X Values)
         /\ Merge(rec, Erasure(u))["email"] = Tomb[u]
         /\ Merge(rec, Erasure(u))["username"] = Tomb[u]
         /\ Merge(rec, Erasure(u))["phone"] = Null
  <1>1. Erasure(u) \in SUBSET (Fields \X Values)
    BY TextFacts DEF Erasure, Fields
  <1>2. ASSUME NEW f \in Fields, NEW v, <<f, v>> \in Erasure(u)
        PROVE  Merge(rec, Erasure(u))[f] = v
    <2>1. \A p \in Erasure(u) : p[1] = f => p[2] = v
      BY <1>2 DEF Erasure
    <2>2. \E p \in Erasure(u) : p[1] = f
      BY <1>2
    <2>3. QED
      BY <1>1, <2>1, <2>2, MergeFacts
  <1>3. QED
    BY <1>1, <1>2 DEF Erasure, Fields

(* The key of a field as create_user writes it. *)
Index(rec, f) == IF backend = "mongodb" /\ f = "phone" THEN rec[f] ELSE Lowered(f, rec[f])

LEMMA IndexFacts ==
  ASSUME NEW rec \in Record, NEW f \in Fields
  PROVE  /\ Index(rec, f) \in Values
         /\ Given(rec[f]) => Index(rec, f) = Lowered(f, rec[f])
         /\ Given(Index(rec, f)) => Given(rec[f])
         /\ Index(rec, f) # Absent /\ ~Given(rec[f])
               => backend = "mongodb" /\ f = "phone" /\ rec[f] = Null /\ Index(rec, f) = Null
  BY LoweredFacts, TextFacts DEF Index, Record, Given

LEMMA NewKeysFacts ==
  ASSUME backend \in Backends, NEW rec \in Record
  PROVE  NewKeys(rec) \in Record /\ \A f \in Fields : NewKeys(rec)[f] = Index(rec, f)
  <1>1. NewKeys(rec) = [f \in Fields |-> Index(rec, f)]
    BY DEF NewKeys, Backends, MemoryKeys, SqlKeys, MongoKeys, DynamoKeys, Index
  <1>2. QED
    BY <1>1, IndexFacts DEF Record

(* After an update a key is that of the merged record, or was left as it was: *)
(* of a field whose value did not change or is gone.  A MongoDB update whose   *)
(* record has been changed since it was read may write any older key.          *)
Follows(u, read, rec, keys) ==
    \A f \in Fields :
        \/ keys[f] = Index(rec, f)
        \/ /\ backend \in {"mongodb", "dynamodb"} /\ f # "phone"
           /\ keys[f] = key[u][f]
           /\ ~Given(rec[f]) \/ (backend = "dynamodb" /\ rec[f] = row[u][f])
        \/ backend = "mongodb" /\ f # "phone" /\ read # row[u]

LEMMA UpdatedKeysFacts ==
  ASSUME backend \in Backends, NEW u, row[u] \in Record, key[u] \in Record,
         NEW read \in Record, NEW upd \in SUBSET (Fields \X Values)
  PROVE  /\ UpdatedKeys(u, read, upd) \in Record
         /\ Follows(u, read, Merge(row[u], upd), UpdatedKeys(u, read, upd))
  <1>. SUFFICES ASSUME NEW rec, rec = Merge(row[u], upd),
                       NEW merged, merged = Merge(read, upd),
                       NEW keys, keys = UpdatedKeys(u, read, upd)
                PROVE  keys \in Record /\ Follows(u, read, rec, keys)
    OBVIOUS
  <1>. DEFINE new(f) == IF \E p \in upd : p[1] = f THEN rec[f] ELSE Absent
  <1>1. rec \in Record /\ merged \in Record
    BY MergeFacts
  <1>2. backend = "memory" => keys = [f \in Fields |-> Lowered(f, rec[f])]
    BY DEF UpdatedKeys, MemoryUpdate, MemoryKeys
  <1>3. backend = "sql" => keys = [f \in Fields |-> Lowered(f, rec[f])]
    BY DEF UpdatedKeys, SqlUpdate, SqlKeys
  <1>4. backend = "mongodb" =>
          keys = [f \in Fields |-> IF f = "phone" THEN rec[f]
                                   ELSE IF Given(merged[f]) THEN Lower[merged[f]] ELSE key[u][f]]
    BY DEF UpdatedKeys, MongoUpdate
  <1>5. backend = "dynamodb" =>
          keys = [f \in Fields |-> IF f = "phone" THEN Lowered(f, rec[f])
                                   ELSE IF Given(new(f)) THEN Lower[new(f)] ELSE key[u][f]]
    BY DEF UpdatedKeys, DynamoUpdate
  <1>6. read = row[u] => merged = rec
    OBVIOUS
  <1>7. \A f \in Fields : new(f) = rec[f] \/ (new(f) = Absent /\ rec[f] = row[u][f])
    BY MergeFacts
  <1>. HIDE DEF new
  <1>8. CASE backend \in {"memory", "sql"}
    <2>1. keys = [f \in Fields |-> Index(rec, f)]
      BY <1>2, <1>3, <1>8 DEF Index
    <2>2. keys \in Record
      BY <1>1, <2>1, IndexFacts DEF Record
    <2>3. Follows(u, read, rec, keys)
      BY <2>1 DEF Follows
    <2>4. QED
      BY <2>2, <2>3
  <1>9. CASE backend = "mongodb"
    <2>1. ASSUME NEW f \in Fields
          PROVE  keys[f] \in Values
      BY <1>1, <1>4, <1>9, TextFacts DEF Record
    <2>2. keys \in Record
      BY <1>4, <1>9, <2>1 DEF Record
    <2>3. keys["phone"] = Index(rec, "phone")
      BY <1>4, <1>9 DEF Index, Fields
    <2>4. ASSUME NEW f \in Fields, f # "phone", read = row[u]
          PROVE  keys[f] = Index(rec, f) \/ (keys[f] = key[u][f] /\ ~Given(rec[f]))
      BY <1>4, <1>6, <1>9, <2>4 DEF Index, Lowered
    <2>5. Follows(u, read, rec, keys)
      BY <1>9, <2>3, <2>4 DEF Follows
    <2>6. QED
      BY <2>2, <2>5
  <1>10. CASE backend = "dynamodb"
    <2>1. ASSUME NEW f \in Fields
          PROVE  keys[f] \in Values
      <3>1. new(f) \in Values /\ rec[f] \in Values /\ key[u][f] \in Values
        BY <1>1, <1>7, TextFacts DEF Record
      <3>2. QED
        BY <1>5, <1>10, <3>1, TextFacts, LoweredFacts
    <2>2. keys \in Record
      BY <1>5, <1>10, <2>1 DEF Record
    <2>3. keys["phone"] = Index(rec, "phone")
      BY <1>5, <1>10 DEF Index, Fields
    <2>4. ASSUME NEW f \in Fields, f # "phone"
          PROVE  \/ keys[f] = Index(rec, f)
                 \/ keys[f] = key[u][f] /\ (~Given(rec[f]) \/ rec[f] = row[u][f])
      <3>1. keys[f] = IF Given(new(f)) THEN Lower[new(f)] ELSE key[u][f]
        BY <1>5, <1>10, <2>4
      <3>2. Index(rec, f) = IF Given(rec[f]) THEN Lower[rec[f]] ELSE Absent
        BY <1>10, <2>4 DEF Index, Lowered
      <3>3. QED
        BY <1>7, <3>1, <3>2, TextFacts
    <2>5. Follows(u, read, rec, keys)
      BY <1>10, <2>3, <2>4 DEF Follows
    <2>6. QED
      BY <2>2, <2>5
  <1>11. QED
    BY <1>8, <1>9, <1>10 DEF Backends

-------------------------------------------------------------------------------
(* One coroutine moves to the locals q. *)

LEMMA Moves ==
  ASSUME Typed, NEW c \in Coros, NEW q, co' = [co EXCEPT ![c] = q]
  PROVE  co'[c] = q /\ \A d \in Coros : d # c => co'[d] = co[d]
  BY DEF Typed

LEMMA TypedMoves ==
  ASSUME Typed, NEW c \in Coros, NEW q, co' = [co EXCEPT ![c] = q],
         Shape(q)', StoreTyped', born \subseteq born', backend' = backend
  PROVE  Typed'
  <1>1. co'[c] = q /\ \A d \in Coros : d # c => co'[d] = co[d]
    BY Moves
  <1>2. q \in Frame
    BY DEF Shape
  <1>3. co' \in [Coros -> Frame]
    BY <1>2 DEF Typed
  <1>4. ASSUME NEW d \in Coros
        PROVE  Shape(co[d])'
    <2>1. CASE d = c
      <3>1. co'[d] = q
        BY <1>1, <2>1
      <3>2. QED
        BY <3>1
    <2>2. CASE d # c
      <3>1. PICK p : p = co[d]
        OBVIOUS
      <3>2. co'[d] = p /\ Shape(p)
        BY <1>1, <2>2, <3>1 DEF Typed
      <3>3. Shape(p)'
        BY <3>2 DEF Shape
      <3>4. QED
        BY <3>2, <3>3
    <2>3. QED
      BY <2>1, <2>2
  <1>5. QED
    BY <1>3, <1>4 DEF Typed

LEMMA TypedIsOK == ASSUME Typed PROVE TypeOK
  BY DEF Typed, StoreTyped, TypeOK, Frame

LEMMA IdleShape ==
  ASSUME NEW r \in {"none", "done", "refused", "conflict"}
  PROVE  /\ Shape([Idle EXCEPT !.res = r]) /\ [Idle EXCEPT !.res = r].pc = "idle"
         /\ [Idle EXCEPT !.res = r].res = r
  <1>1. NoRecord \in Record
    BY TextFacts DEF NoRecord, Record
  <1>2. QED
    BY <1>1 DEF Idle, Shape, Frame, Ops, Pcs

(* Steps that write no row: the rows and keys stay, users may go, and whoever *)
(* is between check and write stays there with what it read.                  *)
LEMMA StoredKept ==
  ASSUME Typed, Stored,
         backend' = backend, row' = row, key' = key, born' = born, live' \subseteq live,
         crossed \subseteq crossed', raced => raced', raced' \in BOOLEAN, erased' \subseteq erased,
         \A c \in Coros : co'[c].pc = "write" => co'[c] = co[c]
  PROVE  Stored'
  <1>1. Keyed'
    BY DEF Stored, Keyed, Searchable, Lowered
  <1>2. KeysDiffer'
    BY DEF Stored, KeysDiffer, Typed, StoreTyped
  <1>3. Pending'
    <2>. SUFFICES ASSUME NEW c \in Coros, At(c, "write")'
                  PROVE  /\ co'[c].who # Nobody =>
                               co'[c].read = row'[co'[c].who] \/ co'[c].who \in crossed'
                         /\ (backend = "dynamodb" /\ ~raced)' =>
                               ~DynamoTaken(Target(co[c]), co[c].who)'
      BY DEF Pending
    <2>1. co'[c] = co[c] /\ At(c, "write")
      BY DEF At
    <2>2. PICK rec, me : rec = Target(co[c]) /\ me = co[c].who
      OBVIOUS
    <2>3. Target(co[c])' = rec /\ co'[c].who = me
      BY <2>1, <2>2 DEF Target
    <2>4. DynamoTaken(rec, me)' => DynamoTaken(rec, me)
      BY DEF DynamoTaken, Holders
    <2>5. backend = "dynamodb" /\ ~raced => ~DynamoTaken(rec, me)
      BY <2>1, <2>2 DEF Stored, Pending
    <2>6. DynamoTaken(Target(co[c]), co[c].who)' => DynamoTaken(rec, me)'
      BY <2>3 DEF DynamoTaken
    <2>7. QED
      BY <2>1, <2>4, <2>5, <2>6 DEF Stored, Pending, Typed, StoreTyped
  <1>4. Apart'
    BY DEF Stored, Apart, At
  <1>5. Forgotten'
    BY DEF Stored, Forgotten
  <1>6. QED
    BY <1>1, <1>2, <1>3, <1>4, <1>5 DEF Stored

-------------------------------------------------------------------------------
(* Sessions. *)

Closes(q) == /\ q.op \in Closers
             /\ q.pc \in {"revoke", "flip", "check", "write", "remove"}

LEMMA ClosingKept ==
  ASSUME Typed, NEW c \in Coros, NEW q, co' = [co EXCEPT ![c] = q],
         Closes(co[c]) => Closes(q) /\ q.who = co[c].who, NEW u, Closing(u)
  PROVE  Closing(u)'
  <1>1. co'[c] = q /\ \A d \in Coros : d # c => co'[d] = co[d]
    BY Moves
  <1>2. PICK d \in Coros : co[d].who = u /\ Closes(co[d])
    BY DEF Closing, Closes, Closers
  <1>3. co'[d].who = u /\ co'[d].op \in Closers
        /\ co'[d].pc \in {"revoke", "flip", "check", "write", "remove"}
    BY <1>1, <1>2 DEF Closes
  <1>4. QED
    BY <1>3 DEF Closing, Closers

LEMMA OrphansKept ==
  ASSUME NoOrphanSession, late \subseteq late',
         \A s \in sess' : s[1] \notin late' =>
            /\ s \in sess
            /\ s[1] \in active => s[1] \in active' \/ Closing(s[1])'
            /\ Closing(s[1]) => Closing(s[1])'
  PROVE  NoOrphanSession'
  <1>. SUFFICES ASSUME NEW s \in sess', s[1] \notin active', ~Closing(s[1])'
                PROVE  s[1] \in late'
    BY DEF NoOrphanSession, Closing
  <1>1. CASE s[1] \notin late'
    <2>1. s \in sess /\ s[1] \notin active /\ ~Closing(s[1])
      BY <1>1
    <2>2. QED
      BY <2>1 DEF NoOrphanSession
  <1>2. QED
    BY <1>1

LEMMA EmptiedKept ==
  ASSUME Typed, Emptied, NEW c \in Coros, NEW q, co' = [co EXCEPT ![c] = q],
         EmptyFor(q)', late \subseteq late',
         \A s \in sess' : s \in sess \/ (Closing(s[1]) => s[1] \in late')
  PROVE  Emptied'
  <1>1. co'[c] = q /\ \A d \in Coros : d # c => co'[d] = co[d]
    BY Moves
  <1>. SUFFICES ASSUME NEW d \in Coros PROVE EmptyFor(co[d])'
    BY DEF Emptied
  <1>2. CASE d = c
    <2>1. co'[d] = q
      BY <1>1, <1>2
    <2>2. QED
      BY <2>1
  <1>3. CASE d # c
    <2>1. PICK p : p = co[d]
      OBVIOUS
    <2>2. co'[d] = p /\ EmptyFor(p)
      BY <1>1, <1>3, <2>1 DEF Emptied
    <2>3. Closes(p) => Closing(p.who)
      BY <2>1 DEF Closes, Closers, Closing
    <2>4. EmptyFor(p)'
      BY <2>2, <2>3 DEF EmptyFor, Closes
    <2>5. QED
      BY <2>2, <2>4
  <1>4. QED
    BY <1>2, <1>3

(* Steps that write no row and leave no new session without a reason. *)
LEMMA QuietStep ==
  ASSUME IInv, NEW c \in Coros, NEW q, co' = [co EXCEPT ![c] = q],
         UNCHANGED <<backend, row, key, born, erased>>, crossed \subseteq crossed', raced => raced',
         live' \subseteq live, late \subseteq late', StoreTyped',
         Shape(q)', q.pc # "write", EmptyFor(q)',
         \A s \in sess' : s[1] \notin late' =>
            /\ s \in sess
            /\ s[1] \in active => s[1] \in active' \/ Closing(s[1])'
            /\ Closing(s[1]) => Closing(s[1])'
  PROVE  IInv'
  <1>1. Typed'
    BY TypedMoves DEF IInv
  <1>2. Stored'
    <2>1. \A d \in Coros : co'[d].pc = "write" => co'[d] = co[d]
      BY Moves DEF IInv
    <2>2. QED
      BY <2>1, StoredKept DEF IInv, Typed, StoreTyped
  <1>3. Emptied'
    BY EmptiedKept DEF IInv
  <1>4. NoOrphanSession'
    BY OrphansKept DEF IInv
  <1>5. QED
    BY <1>1, <1>2, <1>3, <1>4 DEF IInv

(* Steps that only move a coroutine. *)
LEMMA LocalKeeps ==
  ASSUME IInv, NEW c \in Coros, NEW q, co' = [co EXCEPT ![c] = q],
         UNCHANGED <<backend, store, sess, ghosts>>, flows' \in 0..MaxFlows,
         Shape(q), q.pc # "write", EmptyFor(q),
         Closes(co[c]) => Closes(q) /\ q.who = co[c].who
  PROVE  IInv'
  <1>. USE DEF store, ghosts
  <1>1. Shape(q)' /\ EmptyFor(q)'
    BY DEF Shape, EmptyFor
  <1>2. StoreTyped'
    BY DEF IInv, Typed, StoreTyped
  <1>3. \A s \in sess' : Closing(s[1]) => Closing(s[1])'
    BY ClosingKept DEF IInv
  <1>4. QED
    BY <1>1, <1>2, <1>3, QuietStep

-------------------------------------------------------------------------------
(* The steps that begin a flow. *)

LEMMA ClientRecords ==
  /\ NoRecord \in Record
  /\ \A p \in Profiles \cup Seeds : p \in Record /\ Without(p) \in Record
  /\ Changes \subseteq Fields \X Values
  <1>1. \A v \in Idents \cup {Null} : v \in Values
    BY TextFacts DEF Texts
  <1>2. NoRecord \in Record
    BY TextFacts DEF NoRecord, Record
  <1>3. ASSUME NEW p \in Profiles \cup Seeds
        PROVE  p \in Record /\ Without(p) \in Record
    <2>1. p \in [Fields -> Idents \cup {Null}]
      BY ClientsAssumption
    <2>2. QED
      BY <1>1, <2>1, TextFacts DEF Without, Record
  <1>4. Changes \subseteq Fields \X Values
    BY <1>1, ClientsAssumption
  <1>5. QED
    BY <1>2, <1>3, <1>4

LEMMA BeginKeeps ==
  ASSUME IInv, NEW c \in Coros, NEW op \in Ops, NEW pc \in Pcs, NEW rec \in Record,
         NEW who \in Users \cup {Nobody}, NEW upd \in SUBSET (Fields \X Values), NEW ok \in BOOLEAN,
         Begin(c, op, pc, rec, who, upd, ok),
         \/ /\ who = Nobody /\ op \notin Closers
            /\ pc \in {"lookup", "check"} \/ (pc = "signin" /\ op = "login")
         \/ /\ who \in born
            /\ \/ op = "update" /\ pc = "check"
               \/ op = "delete" /\ pc = "revoke"
               \/ op = "erase" /\ pc = "revoke" /\ upd = Erasure(who)
               \/ op \in {"lock", "unlock", "must_reset_password"} /\ pc = "flag"
  PROVE  IInv'
  <1>. PICK q : q = [Idle EXCEPT !.op = op, !.pc = pc, !.rec = rec, !.who = who,
                                 !.upd = upd, !.verified = ok]
    OBVIOUS
  <1>1. q = [op |-> op, pc |-> pc, rec |-> rec, upd |-> upd, who |-> who,
             read |-> NoRecord, list |-> {}, verified |-> ok, res |-> "none"]
    BY DEF Idle
  <1>2. Shape(q)
    <2>1. q \in Frame
      BY <1>1, ClientRecords DEF Frame
    <2>2. QED
      BY <1>1, <2>1 DEF Shape, Closers
  <1>3. q.pc # "write" /\ EmptyFor(q)
    BY <1>1 DEF EmptyFor, Closers
  <1>4. ~Closes(co[c])
    BY DEF Begin, At, Closes
  <1>5. flows' \in 0..MaxFlows
    BY UsersAssumption DEF Begin, IInv, Typed, StoreTyped
  <1>6. co' = [co EXCEPT ![c] = q] /\ UNCHANGED <<backend, store, sess, ghosts>>
    BY DEF Begin
  <1>7. QED
    BY <1>2, <1>3, <1>4, <1>5, <1>6, LocalKeeps

LEMMA RegisterKeeps == ASSUME IInv, NEW c \in Coros, Register(c) PROVE IInv'
  <1>1. PICK p \in Profiles : Begin(c, "register", "check", p, Nobody, {}, FALSE)
    BY DEF Register
  <1>2. QED
    BY <1>1, BeginKeeps, ClientRecords DEF Ops, Pcs, Closers

LEMMA AdminCreateKeeps == ASSUME IInv, NEW c \in Coros, AdminCreate(c) PROVE IInv'
  <1>1. PICK p \in Profiles : Begin(c, "admin", "check", p, Nobody, {}, FALSE)
    BY DEF AdminCreate
  <1>2. QED
    BY <1>1, BeginKeeps, ClientRecords DEF Ops, Pcs, Closers

LEMMA SocialLoginKeeps == ASSUME IInv, NEW c \in Coros, SocialLogin(c) PROVE IInv'
  <1>1. PICK p \in Profiles, ok \in BOOLEAN :
          Begin(c, "social", "lookup",
                [p EXCEPT !["username"] = IF Given(p["username"]) THEN @ ELSE p["email"],
                          !["phone"] = Absent], Nobody, {}, ok)
    BY DEF SocialLogin
  <1>2. [p EXCEPT !["username"] = IF Given(p["username"]) THEN @ ELSE p["email"],
                  !["phone"] = Absent] \in Record
    BY ClientRecords, TextFacts DEF Record, Fields
  <1>3. PICK rec \in Record : Begin(c, "social", "lookup", rec, Nobody, {}, ok)
    BY <1>1, <1>2
  <1>4. QED
    BY <1>3, BeginKeeps DEF Ops, Pcs, Closers

LEMMA OidcLoginKeeps == ASSUME IInv, NEW c \in Coros, OidcLogin(c) PROVE IInv'
  <1>1. PICK p \in Profiles, ok \in BOOLEAN :
          Begin(c, "oidc", "lookup", [Without(p) EXCEPT !["phone"] = Absent], Nobody, {}, ok)
    BY DEF OidcLogin
  <1>2. [Without(p) EXCEPT !["phone"] = Absent] \in Record
    BY ClientRecords, TextFacts DEF Record, Fields
  <1>3. QED
    BY <1>1, <1>2, BeginKeeps DEF Ops, Pcs, Closers

LEMMA SamlLoginKeeps == ASSUME IInv, NEW c \in Coros, SamlLogin(c) PROVE IInv'
  <1>1. PICK p \in Profiles : Begin(c, "saml", "lookup", Without(p), Nobody, {}, TRUE)
    BY DEF SamlLogin
  <1>2. QED
    BY <1>1, BeginKeeps, ClientRecords DEF Ops, Pcs, Closers

LEMMA MagicLinkKeeps == ASSUME IInv, NEW c \in Coros, MagicLink(c) PROVE IInv'
  <1>1. PICK p \in Profiles :
          Begin(c, "magic", "lookup", [NoRecord EXCEPT !["email"] = p["email"]], Nobody, {}, TRUE)
    BY DEF MagicLink
  <1>2. [NoRecord EXCEPT !["email"] = p["email"]] \in Record
    BY ClientRecords DEF Record, Fields
  <1>3. QED
    BY <1>1, <1>2, BeginKeeps DEF Ops, Pcs, Closers

LEMMA ImportKeeps == ASSUME IInv, NEW c \in Coros, Import(c) PROVE IInv'
  <1>1. PICK p \in Profiles :
          Begin(c, "import", "lookup", [Without(p) EXCEPT !["phone"] = Absent], Nobody, {}, FALSE)
    BY DEF Import
  <1>2. [Without(p) EXCEPT !["phone"] = Absent] \in Record
    BY ClientRecords, TextFacts DEF Record, Fields
  <1>3. QED
    BY <1>1, <1>2, BeginKeeps DEF Ops, Pcs, Closers

LEMMA AdminLoginKeeps == ASSUME IInv, NEW c \in Coros, AdminLogin(c) PROVE IInv'
  <1>1. PICK p \in Profiles :
          Begin(c, "login", "signin",
                [NoRecord EXCEPT !["email"] = p["email"], !["username"] = p["email"]],
                Nobody, {}, FALSE)
    BY DEF AdminLogin
  <1>2. [NoRecord EXCEPT !["email"] = p["email"], !["username"] = p["email"]] \in Record
    BY ClientRecords DEF Record, Fields
  <1>3. QED
    BY <1>1, <1>2, BeginKeeps DEF Ops, Pcs, Closers

LEMMA BornAreUsers == ASSUME IInv PROVE born \subseteq Users
  BY DEF IInv, Typed, StoreTyped

LEMMA AdminUpdateKeeps == ASSUME IInv, NEW c \in Coros, AdminUpdate(c) PROVE IInv'
  <1>1. PICK u \in born, ch \in Changes : Begin(c, "update", "check", NoRecord, u, {ch}, FALSE)
    BY DEF AdminUpdate
  <1>2. {ch} \in SUBSET (Fields \X Values)
    BY ClientRecords
  <1>3. QED
    BY <1>1, <1>2, BeginKeeps, BornAreUsers, ClientRecords DEF Ops, Pcs

LEMMA AdminDeleteKeeps == ASSUME IInv, NEW c \in Coros, AdminDelete(c) PROVE IInv'
  <1>1. PICK u \in born : Begin(c, "delete", "revoke", NoRecord, u, {}, FALSE)
    BY DEF AdminDelete
  <1>2. QED
    BY <1>1, BeginKeeps, BornAreUsers, ClientRecords DEF Ops, Pcs

LEMMA BulkKeeps ==
  ASSUME IInv, NEW c \in Coros, BulkOperation(c) \/ BulkAction(c)
  PROVE  IInv'
  <1>1. PICK u \in born, op \in {"delete", "lock", "unlock", "must_reset_password"} :
          Begin(c, op, IF op = "delete" THEN "revoke" ELSE "flag", NoRecord, u, {}, FALSE)
    BY DEF BulkOperation, BulkAction
  <1>2. CASE op = "delete"
    BY <1>1, <1>2, BeginKeeps, BornAreUsers, ClientRecords DEF Ops, Pcs
  <1>3. CASE op # "delete"
    BY <1>1, <1>3, BeginKeeps, BornAreUsers, ClientRecords DEF Ops, Pcs
  <1>4. QED
    BY <1>2, <1>3

LEMMA EraseUserKeeps == ASSUME IInv, NEW c \in Coros, EraseUser(c) PROVE IInv'
  <1>1. PICK u \in born, hard \in BOOLEAN :
          Begin(c, IF hard THEN "delete" ELSE "erase", "revoke", NoRecord, u,
                IF hard THEN {} ELSE Erasure(u), FALSE)
    BY DEF EraseUser
  <1>2. CASE hard
    BY <1>1, <1>2, BeginKeeps, BornAreUsers, ClientRecords DEF Ops, Pcs
  <1>3. CASE ~hard
    <2>1. Begin(c, "erase", "revoke", NoRecord, u, Erasure(u), FALSE)
      BY <1>1, <1>3
    <2>2. Erasure(u) \in SUBSET (Fields \X Values)
      BY BornAreUsers, ErasureFacts, ClientRecords
    <2>3. QED
      BY <2>1, <2>2, BeginKeeps, BornAreUsers, ClientRecords DEF Ops, Pcs
  <1>4. QED
    BY <1>2, <1>3

-------------------------------------------------------------------------------
(* The steps of a flow that write no row. *)

LEMMA ReturnLocal ==
  ASSUME IInv, NEW c \in Coros, NEW r \in {"none", "done", "refused", "conflict"}, Return(c, r),
         UNCHANGED <<backend, store, sess, flows, ghosts>>, ~Closes(co[c])
  PROVE  IInv'
  <1>. PICK q : q = [Idle EXCEPT !.res = r]
    OBVIOUS
  <1>1. Shape(q) /\ q.pc = "idle"
    BY IdleShape
  <1>2. EmptyFor(q)
    BY <1>1 DEF EmptyFor
  <1>3. QED
    BY <1>1, <1>2, LocalKeeps DEF Return, IInv, Typed, StoreTyped

LEMMA GotoMoves ==
  ASSUME Typed, NEW c \in Coros, NEW pc \in Pcs, Goto(c, pc)
  PROVE  /\ co' = [co EXCEPT ![c] = [co[c] EXCEPT !.pc = pc]]
         /\ [co[c] EXCEPT !.pc = pc] \in Frame
  BY DEF Typed, Goto, Frame

LEMMA FindAccountKeeps == ASSUME IInv, NEW c \in Coros, FindAccount(c) PROVE IInv'
  <1>1. Typed /\ Shape(co[c]) /\ co[c].pc = "lookup" /\ ~Closes(co[c])
    BY DEF FindAccount, At, IInv, Typed, Closes
  <1>2. UNCHANGED <<backend, store, sess, flows, ghosts>>
    BY DEF FindAccount
  <1>3. Return(c, "done") \/ Return(c, "refused") \/ Goto(c, "check")
    BY DEF FindAccount
  <1>4. CASE Return(c, "done") \/ Return(c, "refused")
    BY <1>1, <1>2, <1>4, ReturnLocal
  <1>5. CASE Goto(c, "check")
    <2>. PICK q : q = [co[c] EXCEPT !.pc = "check"]
      OBVIOUS
    <2>1. co' = [co EXCEPT ![c] = q] /\ q \in Frame
      BY <1>1, <1>5, GotoMoves DEF Pcs
    <2>2. q.pc = "check" /\ q.who = Nobody /\ q.op \notin Closers
      BY <1>1 DEF Shape, Frame
    <2>3. Shape(q)
      BY <2>1, <2>2 DEF Shape
    <2>4. EmptyFor(q)
      BY <2>2 DEF EmptyFor
    <2>5. QED
      BY <1>1, <1>2, <2>1, <2>2, <2>3, <2>4, LocalKeeps DEF IInv, Typed, StoreTyped
  <1>6. QED
    BY <1>3, <1>4, <1>5

LEMMA SignInKeeps == ASSUME IInv, NEW c \in Coros, SignIn(c) PROVE IInv'
  <1>1. Typed /\ Shape(co[c]) /\ co[c].pc = "signin" /\ ~Closes(co[c])
    BY DEF SignIn, At, IInv, Typed, Closes
  <1>2. UNCHANGED <<backend, store, sess, flows, ghosts>>
    BY DEF SignIn
  <1>3. PICK u \in Lookup(co[c].rec) :
          IF u \in active THEN co' = [co EXCEPT ![c] = [co[c] EXCEPT !.pc = "save", !.who = u]]
          ELSE Return(c, "refused")
    BY DEF SignIn
  <1>4. CASE u \notin active
    BY <1>1, <1>2, <1>3, <1>4, ReturnLocal
  <1>5. CASE u \in active
    <2>. PICK q : q = [co[c] EXCEPT !.pc = "save", !.who = u]
      OBVIOUS
    <2>1. co' = [co EXCEPT ![c] = q]
      BY <1>3, <1>5
    <2>2. u \in born /\ u \in Users
      BY <1>1, <1>5 DEF Typed, StoreTyped
    <2>3. q \in Frame /\ q.pc = "save" /\ q.who = u /\ q.op = "login"
      BY <1>1, <2>2 DEF Shape, Frame, Pcs
    <2>4. Shape(q)
      BY <2>2, <2>3 DEF Shape
    <2>5. EmptyFor(q)
      BY <2>3 DEF EmptyFor
    <2>6. QED
      BY <1>1, <1>2, <2>1, <2>3, <2>4, <2>5, LocalKeeps DEF IInv, Typed, StoreTyped
  <1>6. QED
    BY <1>4, <1>5

LEMMA SaveSessionKeeps == ASSUME IInv, NEW c \in Coros, SaveSession(c) PROVE IInv'
  <1>. PICK u : u = co[c].who
    OBVIOUS
  <1>. PICK q : q = [Idle EXCEPT !.res = "done"]
    OBVIOUS
  <1>1. Typed /\ Shape(co[c]) /\ co[c].pc = "save" /\ ~Closes(co[c]) /\ u \in born /\ u \in Users
    BY DEF SaveSession, At, IInv, Typed, StoreTyped, Closes, Shape
  <1>2. /\ UNCHANGED <<backend, store, flows, crossed, raced, erased>>
        /\ sess' = sess \cup {<<u, c>>}
        /\ late' = IF Closing(u) \/ u \notin active THEN late \cup {u} ELSE late
        /\ co' = [co EXCEPT ![c] = q]
    BY DEF SaveSession, Return
  <1>3. Shape(q)' /\ q.pc = "idle"
    BY <1>2, IdleShape DEF Shape, store
  <1>4. EmptyFor(q)'
    BY <1>3 DEF EmptyFor
  <1>5. StoreTyped'
    BY <1>1, <1>2 DEF Typed, StoreTyped, store
  <1>6. \A v : Closing(v) => Closing(v)'
    BY <1>1, <1>2, ClosingKept
  <1>7. live' \subseteq live /\ late \subseteq late' /\ active' = active
    BY <1>2 DEF store
  <1>8. ASSUME NEW s \in sess', s[1] \notin late'
        PROVE  s \in sess \/ (~Closing(s[1]) /\ s[1] \in active)
    BY <1>2, <1>8
  <1>9. Stored'
    <2>1. \A d \in Coros : co'[d].pc = "write" => co'[d] = co[d]
      BY <1>1, <1>2, <1>3, Moves
    <2>2. QED
      BY <1>1, <1>2, <2>1, StoredKept DEF IInv, Typed, StoreTyped, store
  <1>10. Typed'
    BY <1>1, <1>2, <1>3, <1>5, TypedMoves DEF store
  <1>11. Emptied'
    <2>1. \A s \in sess' : s \in sess \/ (Closing(s[1]) => s[1] \in late')
      BY <1>8
    <2>2. QED
      BY <1>1, <1>2, <1>4, <1>7, <2>1, EmptiedKept DEF IInv
  <1>12. NoOrphanSession'
    <2>. SUFFICES ASSUME NEW s \in sess', s[1] \notin active', ~Closing(s[1])'
                  PROVE  s[1] \in late'
      BY DEF NoOrphanSession, Closing
    <2>1. s[1] \notin active /\ ~Closing(s[1])
      BY <1>6, <1>7
    <2>2. s[1] \in late'  \/ s \in sess
      BY <1>8, <2>1
    <2>3. QED
      BY <1>7, <2>1, <2>2 DEF IInv, NoOrphanSession
  <1>13. QED
    BY <1>9, <1>10, <1>11, <1>12 DEF IInv

(* The sessions of u are gone, or belong to a login that overtook the step. *)
Empty(u) == \A s \in sess : s[1] = u => s[1] \in late

(* The flow of c goes on to the row, or has ended; the sessions of its user are gone. *)
LEMMA FinishMoves ==
  ASSUME Typed, NEW c \in Coros, co[c].pc \in {"revoke", "flip"}, Finish(c), backend' = backend,
         born' = born, NEW u, u = co[c].who, Empty(u)'
  PROVE  \E q : /\ co' = [co EXCEPT ![c] = q]
               /\ Shape(q)' /\ q.pc # "write" /\ EmptyFor(q)'
  <1>1. Shape(co[c])
    BY DEF Typed
  <1>2. CASE After(c) = "idle"
    <2>. PICK q : q = [Idle EXCEPT !.res = "done"]
      OBVIOUS
    <2>1. Shape(q) /\ q.pc = "idle"
      BY IdleShape
    <2>2. Shape(q)' /\ EmptyFor(q)'
      BY <2>1 DEF Shape, EmptyFor
    <2>3. co' = [co EXCEPT ![c] = q]
      BY <1>2 DEF Finish, Return
    <2>4. QED
      BY <2>1, <2>2, <2>3
  <1>3. CASE After(c) # "idle"
    <2>. PICK q : q = [co[c] EXCEPT !.pc = After(c)]
      OBVIOUS
    <2>1. \/ After(c) = "remove" /\ co[c].op = "delete"
          \/ After(c) = "check" /\ co[c].op = "erase" /\ backend # "mongodb"
      <3>1. backend = "mongodb" => ~Updatable({"is_deleted"})
        BY DEF Updatable, Fields
      <3>2. QED
        BY <1>3, <3>1 DEF After
    <2>2. co' = [co EXCEPT ![c] = q] /\ q \in Frame
      <3>1. After(c) \in Pcs /\ Goto(c, After(c))
        BY <1>3, <2>1 DEF Pcs, Finish
      <3>2. QED
        BY <3>1, GotoMoves
    <2>3. q.pc = After(c) /\ q.op = co[c].op /\ q.who = u /\ q.upd = co[c].upd
      BY <1>1 DEF Shape, Frame
    <2>4. Shape(q)'
      BY <1>1, <2>1, <2>2, <2>3 DEF Shape
    <2>5. EmptyFor(q)'
      BY <2>1, <2>3 DEF EmptyFor, Empty
    <2>6. QED
      BY <2>1, <2>2, <2>3, <2>4, <2>5
  <1>4. QED
    BY <1>2, <1>3

LEMMA RevokeAllKeeps == ASSUME IInv, NEW c \in Coros, RevokeAll(c) PROVE IInv'
  <1>. PICK u : u = co[c].who
    OBVIOUS
  <1>1. Typed /\ StoreTyped /\ co[c].pc = "revoke" /\ Closes(co[c])
    BY DEF RevokeAll, At, IInv, Typed, Closes, Shape
  <1>2. UNCHANGED <<backend, store, flows, ghosts>> /\ Finish(c)
    BY DEF RevokeAll
  <1>3. sess' \subseteq sess /\ \A s \in sess' : s[1] # u
    <2>1. sess' = sess \ SessionsOf(u) \/ sess' = {s \in sess : s[1] # u}
      BY <1>1 DEF RevokeAll, StoreTyped, Backends, MemoryRevokeAll, SqlRevokeAll, MongoRevokeAll
    <2>2. QED
      BY <2>1 DEF SessionsOf
  <1>4. Empty(u)'
    BY <1>3 DEF Empty
  <1>5. PICK q : /\ co' = [co EXCEPT ![c] = q]
                 /\ Shape(q)' /\ q.pc # "write" /\ EmptyFor(q)'
    BY <1>1, <1>2, <1>4, FinishMoves DEF store
  <1>6. StoreTyped'
    BY <1>1, <1>2, <1>3 DEF StoreTyped, store, ghosts
  <1>7. ASSUME NEW s \in sess', Closing(s[1])
        PROVE  Closing(s[1])'
    <2>1. PICK d \in Coros : co[d].who = s[1] /\ Closes(co[d])
      BY <1>7 DEF Closing, Closes, Closers
    <2>2. d # c
      BY <1>3, <2>1
    <2>3. co'[d] = co[d]
      BY <1>1, <1>5, <2>2, Moves
    <2>4. QED
      BY <2>1, <2>3 DEF Closing, Closes, Closers
  <1>8. QED
    BY <1>2, <1>3, <1>5, <1>6, <1>7, QuietStep DEF store, ghosts

LEMMA DynamoListSessionsKeeps ==
  ASSUME IInv, NEW c \in Coros, DynamoListSessions(c)
  PROVE  IInv'
  <1>. PICK q : q = [co[c] EXCEPT !.pc = "flip", !.list = SessionsOf(co[c].who)]
    OBVIOUS
  <1>1. Typed /\ StoreTyped /\ Shape(co[c]) /\ co[c].pc = "revoke" /\ backend = "dynamodb"
    BY DEF DynamoListSessions, At, IInv, Typed
  <1>2. co' = [co EXCEPT ![c] = q] /\ UNCHANGED <<backend, store, sess, flows, ghosts>>
    BY DEF DynamoListSessions
  <1>3. /\ q.pc = "flip" /\ q.op = co[c].op /\ q.who = co[c].who /\ q.upd = co[c].upd
        /\ q.list = SessionsOf(co[c].who)
    BY <1>1 DEF Shape, Frame
  <1>4. Shape(q)
    <2>1. SessionsOf(co[c].who) \subseteq Users \X Coros
      BY <1>1 DEF StoreTyped, SessionsOf
    <2>2. q \in Frame
      BY <1>1, <2>1 DEF Shape, Frame, Pcs
    <2>3. QED
      BY <1>1, <1>3, <2>2 DEF Shape
  <1>5. EmptyFor(q)
    BY <1>3 DEF EmptyFor, SessionsOf
  <1>6. Closes(q)
    BY <1>1, <1>3 DEF Closes, Shape
  <1>7. QED
    BY <1>1, <1>2, <1>3, <1>4, <1>5, <1>6, LocalKeeps DEF StoreTyped

LEMMA DynamoFlipSessionKeeps ==
  ASSUME IInv, NEW c \in Coros, DynamoFlipSession(c)
  PROVE  IInv'
  <1>. PICK u : u = co[c].who
    OBVIOUS
  <1>1. /\ Typed /\ StoreTyped /\ Shape(co[c]) /\ co[c].pc = "flip" /\ co[c].op \in Closers
        /\ EmptyFor(co[c])
    BY DEF DynamoFlipSession, At, IInv, Typed, Shape, Emptied
  <1>2. UNCHANGED <<backend, store, flows, ghosts>>
    BY DEF DynamoFlipSession
  <1>3. CASE co[c].list = {}
    <2>1. Finish(c) /\ sess' = sess
      BY <1>3 DEF DynamoFlipSession
    <2>2. Empty(u) /\ Empty(u)'
      BY <1>1, <1>2, <1>3, <2>1 DEF EmptyFor, Empty, ghosts
    <2>3. PICK q : /\ co' = [co EXCEPT ![c] = q]
                   /\ Shape(q)' /\ q.pc # "write" /\ EmptyFor(q)'
      BY <1>1, <1>2, <2>1, <2>2, FinishMoves DEF store
    <2>4. StoreTyped'
      BY <1>1, <1>2, <2>1 DEF StoreTyped, store, ghosts
    <2>5. ASSUME NEW s \in sess', s[1] \notin late', Closing(s[1])
          PROVE  Closing(s[1])'
      <3>1. PICK d \in Coros : co[d].who = s[1] /\ Closes(co[d])
        BY <2>5 DEF Closing, Closes, Closers
      <3>2. d # c
        BY <2>2, <2>5, <3>1 DEF Empty
      <3>3. co'[d] = co[d]
        BY <1>1, <2>3, <3>2, Moves
      <3>4. QED
        BY <3>1, <3>3 DEF Closing, Closes, Closers
    <2>6. QED
      BY <1>2, <2>1, <2>3, <2>4, <2>5, QuietStep DEF store, ghosts
  <1>4. CASE co[c].list # {}
    <2>1. PICK s \in co[c].list : /\ sess' = sess \ {s}
                                 /\ co' = [co EXCEPT ![c].list = @ \ {s}]
      BY <1>4 DEF DynamoFlipSession
    <2>. PICK q : q = [co[c] EXCEPT !.list = @ \ {s}]
      OBVIOUS
    <2>2. co' = [co EXCEPT ![c] = q]
      BY <1>1, <2>1 DEF Typed, Frame
    <2>3. /\ q.pc = "flip" /\ q.op = co[c].op /\ q.who = co[c].who /\ q.upd = co[c].upd
          /\ q.list = co[c].list \ {s} /\ q \in Frame
      BY <1>1 DEF Shape, Frame
    <2>4. Shape(q)'
      BY <1>1, <1>2, <2>3 DEF Shape, store
    <2>5. EmptyFor(q)'
      BY <1>1, <1>2, <2>1, <2>3 DEF EmptyFor, ghosts
    <2>6. StoreTyped'
      BY <1>1, <1>2, <2>1 DEF StoreTyped, store, ghosts
    <2>7. \A v : Closing(v) => Closing(v)'
      <3>1. Closes(q)
        BY <1>1, <2>3 DEF Closes
      <3>2. QED
        BY <1>1, <2>2, <2>3, <3>1, ClosingKept
    <2>8. QED
      BY <1>2, <2>1, <2>2, <2>3, <2>4, <2>5, <2>6, <2>7, QuietStep DEF store, ghosts
  <1>5. QED
    BY <1>3, <1>4

LEMMA RemoveKeeps == ASSUME IInv, NEW c \in Coros, Remove(c) PROVE IInv'
  <1>. PICK u : u = co[c].who
    OBVIOUS
  <1>. PICK q : q = [Idle EXCEPT !.res = IF u \in live THEN "done" ELSE "refused"]
    OBVIOUS
  <1>1. /\ Typed /\ StoreTyped /\ co[c].pc = "remove" /\ co[c].op \in Closers
        /\ EmptyFor(co[c])
    BY DEF Remove, At, IInv, Typed, Shape, Emptied, Closers
  <1>2. /\ UNCHANGED <<backend, born, row, key, sess, flows, ghosts>>
        /\ live' = live \ {u} /\ active' = active \ {u} /\ co' = [co EXCEPT ![c] = q]
    BY DEF Remove, Return
  <1>3. Shape(q)' /\ EmptyFor(q)' /\ q.pc # "write"
    <2>1. Shape(q) /\ q.pc = "idle"
      BY IdleShape
    <2>2. QED
      BY <1>2, <2>1 DEF Shape, EmptyFor
  <1>4. StoreTyped'
    BY <1>1, <1>2 DEF StoreTyped, ghosts
  <1>5. \A s \in sess : s[1] \notin late => s[1] # u
    BY <1>1 DEF EmptyFor
  <1>6. ASSUME NEW s \in sess', s[1] \notin late', Closing(s[1])
        PROVE  Closing(s[1])'
    <2>1. PICK d \in Coros : co[d].who = s[1] /\ Closes(co[d])
      BY <1>6 DEF Closing, Closes, Closers
    <2>2. d # c
      BY <1>2, <1>5, <1>6, <2>1 DEF ghosts
    <2>3. co'[d] = co[d]
      BY <1>1, <1>2, <2>2, Moves
    <2>4. QED
      BY <2>1, <2>3 DEF Closing, Closes, Closers
  <1>7. QED
    BY <1>2, <1>3, <1>4, <1>5, <1>6, QuietStep DEF ghosts

LEMMA FlagKeeps == ASSUME IInv, NEW c \in Coros, Flag(c) PROVE IInv'
  <1>. PICK u : u = co[c].who
    OBVIOUS
  <1>1. /\ Typed /\ StoreTyped /\ Shape(co[c]) /\ co[c].pc = "flag" /\ ~Closes(co[c])
        /\ co[c].op \in {"lock", "unlock", "must_reset_password"}
    BY DEF Flag, At, IInv, Typed, Shape, Closes
  <1>2. UNCHANGED <<backend, live, born, row, key, sess, flows, ghosts>>
    BY DEF Flag
  <1>3. \/ active' = active /\ \E r \in {"done", "refused"} : Return(c, r)
        \/ active' = active \cup {u} /\ u \in live /\ Return(c, "done")
        \/ active' = active \ {u} /\ Goto(c, "revoke") /\ co[c].op = "lock"
    BY <1>1 DEF Flag
  <1>4. CASE active' = active /\ \E r \in {"done", "refused"} : Return(c, r)
    BY <1>1, <1>2, <1>4, ReturnLocal DEF store
  <1>5. CASE active' = active \cup {u} /\ u \in live /\ Return(c, "done")
    <2>. PICK q : q = [Idle EXCEPT !.res = "done"]
      OBVIOUS
    <2>1. co' = [co EXCEPT ![c] = q]
      BY <1>5 DEF Return
    <2>2. Shape(q)' /\ EmptyFor(q)' /\ q.pc # "write"
      <3>1. Shape(q) /\ q.pc = "idle"
        BY IdleShape
      <3>2. QED
        BY <1>2, <3>1 DEF Shape, EmptyFor
    <2>3. StoreTyped'
      BY <1>1, <1>2, <1>5 DEF StoreTyped, ghosts
    <2>4. \A v : Closing(v) => Closing(v)'
      BY <1>1, <2>1, ClosingKept
    <2>5. QED
      BY <1>2, <1>5, <2>1, <2>2, <2>3, <2>4, QuietStep DEF ghosts
  <1>6. CASE active' = active \ {u} /\ Goto(c, "revoke") /\ co[c].op = "lock"
    <2>. PICK q : q = [co[c] EXCEPT !.pc = "revoke"]
      OBVIOUS
    <2>1. co' = [co EXCEPT ![c] = q] /\ q \in Frame
      BY <1>1, <1>6, GotoMoves DEF Pcs
    <2>2. q.pc = "revoke" /\ q.op = "lock" /\ q.who = u /\ u \in born
      BY <1>1, <1>6 DEF Shape, Frame
    <2>3. Shape(q)' /\ EmptyFor(q)'
      BY <1>2, <2>1, <2>2 DEF Shape, EmptyFor, Closers
    <2>4. StoreTyped'
      BY <1>1, <1>2, <1>6 DEF StoreTyped, ghosts
    <2>5. \A v : Closing(v) => Closing(v)'
      BY <1>1, <2>1, ClosingKept
    <2>6. Closing(u)'
      <3>1. co'[c] = q
        BY <1>1, <2>1, Moves
      <3>2. QED
        BY <2>2, <3>1 DEF Closing
    <2>7. QED
      BY <1>2, <1>6, <2>1, <2>2, <2>3, <2>4, <2>5, <2>6, QuietStep DEF ghosts
  <1>7. QED
    BY <1>3, <1>4, <1>5, <1>6

-------------------------------------------------------------------------------
(* The steps that write a row. *)

(* No other user is found by the keys of u ... *)
Free(u, keys) ==
    \A v \in live \ {u}, f \in Fields :
        (IF backend = "mongodb" THEN keys[f] # Absent
         ELSE Given(keys[f]) /\ (backend = "dynamodb" => ~raced)) => key[v][f] # keys[f]

(* ... and those keys are the ones of its row. *)
Names(u, rec, keys) ==
    /\ \A f \in Fields : \/ keys[f] = Lowered(f, rec[f])
                         \/ backend \in {"mongodb", "dynamodb"} /\ ~Given(rec[f])
                         \/ backend = "mongodb" /\ u \in crossed
    /\ backend = "mongodb" => keys["phone"] = rec["phone"]

LEMMA PutStored ==
  ASSUME Typed, Stored, NEW c \in Coros, NEW q, co' = [co EXCEPT ![c] = q], q.pc # "write",
         NEW u \in Users, NEW rec \in Record, NEW keys \in Record,
         row' = [row EXCEPT ![u] = rec], key' = [key EXCEPT ![u] = keys], live' = live \cup {u},
         UNCHANGED <<backend, crossed, raced>>,
         At(c, "write") \/ backend = "memory", co[c].who = u \/ u \notin born,
         Free(u, keys), Names(u, rec, keys), Forgotten'
  PROVE  Stored'
  <1>1. /\ row'[u] = rec /\ \A v \in Users : v # u => row'[v] = row[v]
        /\ key'[u] = keys /\ \A v \in Users : v # u => key'[v] = key[v]
        /\ live \subseteq Users
    BY DEF Typed, StoreTyped
  <1>2. Keyed'
    <2>1. Searchable'
      <3>. SUFFICES ASSUME NEW v \in live', NEW f \in Fields
                    PROVE  \/ key'[v][f] = Lowered(f, row'[v][f])
                           \/ backend \in {"mongodb", "dynamodb"} /\ ~Given(row'[v][f])
                           \/ backend = "mongodb" /\ v \in crossed
        BY DEF Searchable, Lowered
      <3>1. CASE v = u
        BY <1>1, <3>1 DEF Names
      <3>2. CASE v # u
        <4>1. row'[v] = row[v] /\ key'[v] = key[v] /\ v \in live
          BY <1>1, <3>2
        <4>2. QED
          BY <4>1 DEF Stored, Keyed, Searchable
      <3>3. QED
        BY <3>1, <3>2
    <2>2. backend = "mongodb" => \A v \in live' : key'[v]["phone"] = row'[v]["phone"]
      BY <1>1 DEF Names, Stored, Keyed
    <2>3. QED
      BY <2>1, <2>2 DEF Keyed
  <1>3. KeysDiffer'
    <2>. SUFFICES ASSUME NEW v \in live', NEW w \in live', NEW f \in Fields, v # w,
                         IF backend = "mongodb" THEN key'[v][f] # Absent
                         ELSE Given(key'[v][f]) /\ (backend = "dynamodb" => ~raced),
                         key'[v][f] = key'[w][f]
                  PROVE  FALSE
      BY DEF KeysDiffer
    <2>1. CASE v = u
      <3>1. w \in live \ {u} /\ key'[w] = key[w] /\ key'[v] = keys
        BY <1>1, <2>1
      <3>2. QED
        BY <3>1 DEF Free
    <2>2. CASE w = u
      <3>1. v \in live \ {u} /\ key'[v] = key[v] /\ key'[w] = keys
        BY <1>1, <2>2
      <3>2. QED
        BY <3>1 DEF Free
    <2>3. CASE v # u /\ w # u
      <3>1. v \in live /\ w \in live /\ key'[v] = key[v] /\ key'[w] = key[w]
        BY <1>1, <2>3
      <3>2. QED
        BY <3>1 DEF Stored, KeysDiffer
    <2>4. QED
      BY <2>1, <2>2, <2>3
  <1>4. ASSUME NEW d \in Coros, At(d, "write")'
        PROVE  /\ d # c /\ co'[d] = co[d] /\ At(d, "write") /\ raced
               /\ co[d].who = u => u \in crossed
    <2>1. d # c /\ co'[d] = co[d] /\ At(d, "write")
      BY <1>4, Moves DEF At
    <2>2. At(c, "write")
      BY <2>1 DEF Typed, Shape, At
    <2>3. raced
      BY <2>1, <2>2 DEF Stored, Apart
    <2>4. ASSUME co[d].who = u
          PROVE  u \in crossed
      <3>1. u # Nobody
        BY UsersAssumption
      <3>2. u \in born
        BY <2>1, <2>4, <3>1 DEF Typed, Shape, At
      <3>3. QED
        BY <2>1, <2>2, <2>4, <3>1, <3>2 DEF Stored, Apart
    <2>5. QED
      BY <2>1, <2>3, <2>4
  <1>5. Pending'
    <2>. SUFFICES ASSUME NEW d \in Coros, At(d, "write")'
                  PROVE  /\ co'[d].who # Nobody =>
                               co'[d].read = row'[co'[d].who] \/ co'[d].who \in crossed
                         /\ raced'
      BY DEF Pending
    <2>1. co'[d] = co[d] /\ At(d, "write") /\ raced /\ (co[d].who = u => u \in crossed)
      BY <1>4
    <2>2. co[d].who # Nobody => co[d].read = row[co[d].who] \/ co[d].who \in crossed
      BY <2>1 DEF Stored, Pending
    <2>3. co[d].who \in Users \cup {Nobody}
      BY DEF Typed, Frame
    <2>4. QED
      BY <1>1, <2>1, <2>2, <2>3
  <1>6. Apart'
    <2>. SUFFICES ASSUME NEW d \in Coros, NEW e \in Coros, d # e, At(d, "write")', At(e, "write")'
                  PROVE  /\ raced'
                         /\ co'[d].who # Nobody /\ co'[d].who = co'[e].who => co'[d].who \in crossed'
      BY DEF Apart
    <2>1. /\ co'[d] = co[d] /\ At(d, "write") /\ raced
          /\ co'[e] = co[e] /\ At(e, "write")
      BY <1>4
    <2>2. QED
      BY <2>1 DEF Stored, Apart
  <1>7. QED
    BY <1>2, <1>3, <1>5, <1>6 DEF Stored

(* The row that the flow of c writes was checked: by the read before it, in    *)
(* memory.py and on DynamoDB while nobody raced, or by a unique index.          *)
Checked(c, rec) ==
    \/ At(c, "write") /\ backend # "memory"
    \/ backend = "memory" /\ At(c, "check") /\ ~MemoryTaken(rec, co[c].who)

LEMMA FreeFacts ==
  ASSUME IInv, NEW c \in Coros, NEW u \in Users, NEW rec \in Record, NEW keys \in Record,
         rec = Target(co[c]), Checked(c, rec), Accepts(u, keys), co[c].who \in {u, Nobody},
         \A f \in Fields : \/ keys[f] = Index(rec, f)
                           \/ backend \in {"mongodb", "dynamodb"} /\ u \in live /\ keys[f] = key[u][f]
                           \/ backend = "mongodb"
  PROVE  Free(u, keys)
  <1>1. CASE backend = "sql"
    BY <1>1 DEF Accepts, SqlUnique, Free
  <1>2. CASE backend = "mongodb"
    BY <1>2 DEF Accepts, MongoUnique, Free
  <1>3. CASE backend \in {"memory", "dynamodb"}
    <2>. SUFFICES ASSUME NEW v \in live \ {u}, NEW f \in Fields, Given(keys[f]),
                         backend = "dynamodb" => ~raced
                  PROVE  key[v][f] # keys[f]
      BY <1>3 DEF Free
    <2>1. v # co[c].who
      BY UsersAssumption DEF IInv, Typed, StoreTyped
    <2>2. CASE keys[f] = Index(rec, f)
      <3>1. Given(rec[f]) /\ keys[f] = Lowered(f, rec[f])
        BY <2>2, IndexFacts
      <3>2. ~DynamoTaken(rec, co[c].who)
        <4>1. CASE backend = "memory"
          BY <4>1 DEF Checked, MemoryTaken, DynamoTaken
        <4>2. CASE backend = "dynamodb"
          BY <4>2 DEF Checked, IInv, Stored, Pending
        <4>3. QED
          BY <1>3, <4>1, <4>2
      <3>3. v \notin Holders(f, rec[f])
        BY <2>1, <3>1, <3>2 DEF DynamoTaken
      <3>4. QED
        BY <3>1, <3>3 DEF Holders
    <2>3. CASE keys[f] # Index(rec, f)
      <3>1. backend = "dynamodb" /\ u \in live /\ keys[f] = key[u][f]
        BY <1>3, <2>3
      <3>2. QED
        BY <3>1 DEF IInv, Stored, KeysDiffer
    <2>4. QED
      BY <2>2, <2>3
  <1>4. QED
    BY <1>1, <1>2, <1>3 DEF IInv, Typed, StoreTyped, Backends

LEMMA CreatorFacts ==
  ASSUME IInv, NEW c \in Coros, co[c].pc \in {"check", "write"}, ~Updates(c)
  PROVE  /\ co[c].who = Nobody /\ ~Closes(co[c])
         /\ Target(co[c]) = co[c].rec /\ co[c].rec \in Record
  <1>1. Shape(co[c])
    BY DEF IInv, Typed
  <1>2. co[c].who = Nobody
    BY DEF Updates
  <1>3. co[c].op \notin Closers
    <2>1. Nobody \notin born
      BY UsersAssumption DEF IInv, Typed, StoreTyped
    <2>2. QED
      BY <1>1, <1>2, <2>1 DEF Shape
  <1>4. QED
    BY <1>1, <1>2, <1>3 DEF Shape, Frame, Closes, Target

LEMMA InsertKeeps ==
  ASSUME IInv, NEW c \in Coros, Insert(c), ~Updates(c), Checked(c, co[c].rec),
         UNCHANGED <<backend, sess, flows, crossed, raced, late, erased>>
  PROVE  IInv'
  <1>. PICK rec : rec = co[c].rec
    OBVIOUS
  <1>1. Typed /\ StoreTyped /\ co[c].pc \in {"check", "write"}
    BY DEF IInv, Typed, Checked, At
  <1>2. co[c].who = Nobody /\ ~Closes(co[c]) /\ Target(co[c]) = rec /\ rec \in Record
    BY <1>1, CreatorFacts
  <1>3. PICK u \in Users \ born :
          IF Accepts(u, NewKeys(rec))
          THEN /\ live' = live \cup {u} /\ born' = born \cup {u} /\ active' = active \cup {u}
               /\ row' = [row EXCEPT ![u] = rec]
               /\ key' = [key EXCEPT ![u] = NewKeys(rec)]
               /\ Return(c, "done")
          ELSE Return(c, "conflict") /\ UNCHANGED store
    BY DEF Insert
  <1>. PICK keys : keys = NewKeys(rec)
    OBVIOUS
  <1>4. keys \in Record /\ \A f \in Fields : keys[f] = Index(rec, f)
    BY <1>1, <1>2, NewKeysFacts DEF StoreTyped
  <1>5. CASE ~Accepts(u, keys)
    BY <1>2, <1>3, <1>5, ReturnLocal DEF ghosts
  <1>6. CASE Accepts(u, keys)
    <2>. PICK q : q = [Idle EXCEPT !.res = "done"]
      OBVIOUS
    <2>1. /\ co' = [co EXCEPT ![c] = q] /\ row' = [row EXCEPT ![u] = rec]
          /\ key' = [key EXCEPT ![u] = keys] /\ live' = live \cup {u}
          /\ born' = born \cup {u} /\ active' = active \cup {u}
      BY <1>3, <1>6 DEF Return
    <2>2. q.pc = "idle" /\ Shape(q)' /\ EmptyFor(q)'
      <3>1. Shape(q) /\ q.pc = "idle"
        BY IdleShape
      <3>2. QED
        BY <2>1, <3>1 DEF Shape, EmptyFor
    <2>3. StoreTyped'
      BY <1>1, <1>2, <1>4, <2>1 DEF StoreTyped
    <2>4. Typed'
      BY <1>1, <2>1, <2>2, <2>3, TypedMoves
    <2>5. Free(u, keys)
      <3>1. rec = Target(co[c]) /\ Checked(c, rec)
        BY <1>2
      <3>2. QED
        BY <1>2, <1>4, <1>6, <3>1, FreeFacts
    <2>6. Names(u, rec, keys)
      <3>1. ASSUME NEW f \in Fields
            PROVE  keys[f] = Lowered(f, rec[f]) \/ (backend = "mongodb" /\ ~Given(rec[f]))
        BY <1>2, <1>4, IndexFacts DEF Index
      <3>2. backend = "mongodb" => keys["phone"] = rec["phone"]
        BY <1>4 DEF Index, Fields
      <3>3. QED
        BY <3>1, <3>2 DEF Names
    <2>7. Forgotten'
      <3>. SUFFICES ASSUME NEW e \in erased
                    PROVE  /\ e[1] \in born' /\ Given(e[3]) /\ e[3] # Tomb[e[1]]
                           /\ e[1] \in live' => key'[e[1]][e[2]] # e[3]
        BY DEF Forgotten
      <3>1. /\ e[1] \in born /\ Given(e[3]) /\ e[3] # Tomb[e[1]] /\ e[1] # u /\ e[1] \in Users
            /\ e[1] \in live => key[e[1]][e[2]] # e[3]
        BY <1>1 DEF IInv, Stored, Forgotten, StoreTyped
      <3>2. key'[e[1]] = key[e[1]]
        BY <1>1, <2>1, <3>1 DEF StoreTyped
      <3>3. QED
        BY <2>1, <3>1, <3>2
    <2>8. Stored'
      <3>1. At(c, "write") \/ backend = "memory"
        BY DEF Checked
      <3>2. QED
        BY <1>1, <1>2, <1>4, <2>1, <2>2, <2>5, <2>6, <2>7, <3>1, PutStored DEF IInv
    <2>9. Emptied'
      BY <1>1, <2>1, <2>2, EmptiedKept DEF IInv
    <2>10. NoOrphanSession'
      BY <1>1, <1>2, <2>1, ClosingKept, OrphansKept DEF IInv
    <2>11. QED
      BY <2>4, <2>8, <2>9, <2>10 DEF IInv
  <1>7. QED
    BY <1>5, <1>6

(* An update is of a user who was born; an erasure has revoked the sessions.  *)
LEMMA UpdaterFacts ==
  ASSUME IInv, NEW c \in Coros, co[c].pc \in {"check", "write"}, Updates(c), NEW u, u = co[c].who
  PROVE  /\ u \in born /\ u \in Users /\ Target(co[c]) = Merge(row[u], co[c].upd)
         /\ co[c].upd \in SUBSET (Fields \X Values) /\ co[c].read \in Record
         /\ row[u] \in Record /\ key[u] \in Record
         /\ \/ co[c].op = "update" /\ ~Closes(co[c])
            \/ co[c].op = "erase" /\ backend # "mongodb" /\ co[c].upd = Erasure(u) /\ Empty(u)
  <1>1. Shape(co[c]) /\ EmptyFor(co[c]) /\ StoreTyped
    BY DEF IInv, Typed, Emptied
  <1>2. u # Nobody
    BY DEF Updates
  <1>3. u \in born /\ u \in Users
    BY <1>1, <1>2 DEF Shape, StoreTyped
  <1>4. \/ co[c].op = "update" /\ ~Closes(co[c])
        \/ co[c].op = "erase" /\ backend # "mongodb" /\ co[c].upd = Erasure(u) /\ Empty(u)
    BY <1>1, <1>2 DEF Shape, EmptyFor, Empty, Closes, Closers
  <1>5. QED
    BY <1>1, <1>2, <1>3, <1>4 DEF Shape, Frame, Target, StoreTyped

(* When an update ends the deletions still closing are those of other flows.  *)
LEMMA UpdaterCloses ==
  ASSUME IInv, NEW c \in Coros, co[c].pc \in {"check", "write"}, Updates(c) \/ ~Closes(co[c]),
         NEW q, co' = [co EXCEPT ![c] = q], sess' = sess, late' = late,
         NEW s \in sess, s[1] \notin late, Closing(s[1])
  PROVE  Closing(s[1])'
  <1>1. CASE ~Closes(co[c])
    BY <1>1, ClosingKept DEF IInv
  <1>2. CASE Closes(co[c])
    <2>1. Empty(co[c].who)
      BY <1>2, UpdaterFacts
    <2>2. PICK d \in Coros : co[d].who = s[1] /\ Closes(co[d])
      BY DEF Closing, Closes, Closers
    <2>3. d # c
      BY <2>1, <2>2 DEF Empty
    <2>4. co'[d] = co[d]
      BY <2>3, Moves DEF IInv
    <2>5. QED
      BY <2>2, <2>4 DEF Closing, Closes, Closers
  <1>3. QED
    BY <1>1, <1>2

(* A check or a write that ends an update without touching the row.           *)
LEMMA UpdaterReturns ==
  ASSUME IInv, NEW c \in Coros, co[c].pc \in {"check", "write"}, Updates(c) \/ ~Closes(co[c]),
         NEW r \in {"none", "done", "refused", "conflict"}, Return(c, r),
         UNCHANGED <<backend, store, sess, flows, late, erased>>,
         crossed \subseteq crossed', crossed' \subseteq Users, raced => raced', raced' \in BOOLEAN
  PROVE  IInv'
  <1>. PICK q : q = [Idle EXCEPT !.res = r]
    OBVIOUS
  <1>1. co' = [co EXCEPT ![c] = q]
    BY DEF Return
  <1>2. q.pc # "write" /\ Shape(q)' /\ EmptyFor(q)'
    <2>1. Shape(q) /\ q.pc = "idle"
      BY IdleShape
    <2>2. QED
      BY <2>1 DEF Shape, EmptyFor, store
  <1>3. StoreTyped'
    BY DEF IInv, Typed, StoreTyped, store
  <1>4. \A s \in sess : s[1] \notin late /\ Closing(s[1]) => Closing(s[1])'
    BY <1>1, UpdaterCloses
  <1>5. QED
    BY <1>1, <1>2, <1>3, <1>4, QuietStep DEF store

LEMMA ChangeKeeps ==
  ASSUME IInv, NEW c \in Coros, Change(c), Updates(c), Checked(c, Target(co[c])),
         UNCHANGED <<backend, sess, flows, crossed, raced, late>>
  PROVE  IInv'
  <1>. PICK u, rec, keys : /\ u = co[c].who /\ rec = Merge(row[u], co[c].upd)
                           /\ keys = UpdatedKeys(u, co[c].read, co[c].upd)
    OBVIOUS
  <1>1. Typed /\ StoreTyped /\ co[c].pc \in {"check", "write"}
    BY DEF IInv, Typed, Checked, At
  <1>2. /\ u \in born /\ u \in Users /\ Target(co[c]) = rec
        /\ co[c].upd \in SUBSET (Fields \X Values) /\ co[c].read \in Record
        /\ row[u] \in Record /\ key[u] \in Record
    BY <1>1, UpdaterFacts
  <1>3. \/ co[c].op = "update" /\ ~Closes(co[c])
        \/ co[c].op = "erase" /\ backend # "mongodb" /\ co[c].upd = Erasure(u) /\ Empty(u)
    BY <1>1, UpdaterFacts
  <1>4. rec \in Record /\ keys \in Record /\ Follows(u, co[c].read, rec, keys)
    <2>1. rec \in Record
      BY <1>2, MergeFacts
    <2>2. QED
      BY <1>1, <1>2, <2>1, UpdatedKeysFacts DEF StoreTyped
  <1>5. CASE u \notin live \/ ~Accepts(u, keys)
    <2>1. (Return(c, "refused") \/ Return(c, "conflict")) /\ UNCHANGED <<store, erased>>
      BY <1>5 DEF Change
    <2>2. QED
      BY <1>1, <2>1, UpdaterReturns DEF StoreTyped
  <1>6. CASE u \in live /\ Accepts(u, keys)
    <2>. PICK q : q = [Idle EXCEPT !.res = "done"]
      OBVIOUS
    <2>1. /\ row' = [row EXCEPT ![u] = rec] /\ key' = [key EXCEPT ![u] = keys]
          /\ active' = IF co[c].op = "erase" THEN active \ {u} ELSE active
          /\ co' = [co EXCEPT ![c] = q] /\ live' = live /\ born' = born
          /\ erased' = IF co[c].op = "erase"
                       THEN erased \cup
                              {<<u, f, key[u][f]>> : f \in {g \in Fields : /\ Given(key[u][g])
                                                                         /\ key[u][g] # Tomb[u]}}
                       ELSE {e \in erased : e[1] # u}
      BY <1>6 DEF Change, Return
    <2>2. q.pc = "idle" /\ Shape(q)' /\ EmptyFor(q)'
      <3>1. Shape(q) /\ q.pc = "idle"
        BY IdleShape
      <3>2. QED
        BY <2>1, <3>1 DEF Shape, EmptyFor
    <2>3. erased' \subseteq Users \X Fields \X Values
      <3>1. \A f \in Fields : <<u, f, key[u][f]>> \in Users \X Fields \X Values
        BY <1>2 DEF Record
      <3>2. QED
        BY <1>1, <2>1, <3>1 DEF StoreTyped
    <2>4. StoreTyped'
      BY <1>1, <1>2, <1>4, <2>1, <2>3 DEF StoreTyped
    <2>5. Typed'
      BY <1>1, <2>1, <2>2, <2>4, TypedMoves
    <2>6. Free(u, keys)
      <3>1. rec = Target(co[c]) /\ Checked(c, rec) /\ co[c].who \in {u, Nobody}
        BY <1>2
      <3>2. \A f \in Fields : \/ keys[f] = Index(rec, f)
                              \/ /\ backend \in {"mongodb", "dynamodb"}
                                 /\ u \in live /\ keys[f] = key[u][f]
                              \/ backend = "mongodb"
        BY <1>4, <1>6 DEF Follows
      <3>3. QED
        BY <1>2, <1>4, <1>6, <3>1, <3>2, FreeFacts
    <2>7. Names(u, rec, keys)
      <3>1. backend = "mongodb" => co[c].read = row[u] \/ u \in crossed
        BY <1>2, UsersAssumption DEF Checked, IInv, Stored, Pending
      <3>2. ASSUME NEW f \in Fields
            PROVE  \/ keys[f] = Lowered(f, rec[f])
                   \/ backend \in {"mongodb", "dynamodb"} /\ ~Given(rec[f])
                   \/ backend = "mongodb" /\ u \in crossed
        <4>1. CASE keys[f] = Index(rec, f)
          BY <1>4, <4>1, IndexFacts DEF Index
        <4>2. CASE keys[f] # Index(rec, f) /\ backend = "mongodb"
          BY <1>4, <3>1, <4>2 DEF Follows
        <4>3. CASE keys[f] # Index(rec, f) /\ backend # "mongodb" /\ Given(rec[f])
          <5>1. keys[f] = key[u][f] /\ rec[f] = row[u][f] /\ backend = "dynamodb"
            BY <1>4, <4>3 DEF Follows
          <5>2. key[u][f] = Lowered(f, row[u][f])
            BY <1>6, <4>3, <5>1 DEF IInv, Stored, Keyed, Searchable
          <5>3. QED
            BY <5>1, <5>2
        <4>4. CASE keys[f] # Index(rec, f) /\ backend # "mongodb" /\ ~Given(rec[f])
          BY <1>4, <4>4 DEF Follows
        <4>5. QED
          BY <4>1, <4>2, <4>3, <4>4
      <3>3. backend = "mongodb" => keys["phone"] = rec["phone"]
        BY <1>4 DEF Follows, Index, Fields
      <3>4. QED
        BY <3>2, <3>3 DEF Names
    <2>8. Forgotten'
      <3>. SUFFICES ASSUME NEW e \in erased'
                    PROVE  /\ e[1] \in born' /\ Given(e[3]) /\ e[3] # Tomb[e[1]]
                           /\ e[1] \in live' => key'[e[1]][e[2]] # e[3]
        BY DEF Forgotten
      <3>1. /\ e[1] \in Users /\ e[2] \in Fields
            /\ e[1] \in born /\ Given(e[3]) /\ e[3] # Tomb[e[1]]
        BY <1>1, <1>2, <2>1, <2>3 DEF IInv, Stored, Forgotten
      <3>2. CASE e[1] # u
        <4>1. key'[e[1]] = key[e[1]] /\ e \in erased
          BY <1>1, <2>1, <3>1, <3>2 DEF StoreTyped
        <4>2. QED
          BY <2>1, <3>1, <4>1 DEF IInv, Stored, Forgotten
      <3>3. CASE e[1] = u
        <4>1. backend # "mongodb" /\ co[c].upd = Erasure(u)
          BY <1>3, <2>1, <3>3
        <4>2. rec["email"] = Tomb[u] /\ rec["username"] = Tomb[u] /\ rec["phone"] = Null
          BY <1>2, <4>1, ErasureFacts
        <4>3. keys["phone"] = Absent
          BY <1>4, <4>1, <4>2, TextFacts DEF Follows, Index, Lowered, Fields
        <4>4. ASSUME NEW f \in Fields, f # "phone"
              PROVE  keys[f] = Tomb[u]
          <5>1. rec[f] = Tomb[u]
            BY <4>2, <4>4 DEF Fields
          <5>2. keys[f] = Lowered(f, rec[f])
            BY <1>2, <2>7, <4>1, <5>1, TextFacts DEF Names
          <5>3. QED
            BY <1>2, <4>4, <5>1, <5>2, TextFacts DEF Lowered
        <4>5. key'[u] = keys
          BY <1>1, <1>2, <2>1 DEF StoreTyped
        <4>6. keys[e[2]] # e[3]
          BY <3>1, <3>3, <4>3, <4>4, TextFacts
        <4>7. QED
          BY <2>1, <3>1, <3>3, <4>5, <4>6
      <3>4. QED
        BY <3>2, <3>3
    <2>9. Stored'
      <3>1. At(c, "write") \/ backend = "memory"
        BY DEF Checked
      <3>2. live' = live \cup {u}
        BY <1>6, <2>1
      <3>3. QED
        BY <1>1, <1>2, <1>4, <2>1, <2>2, <2>6, <2>7, <2>8, <3>1, <3>2, PutStored DEF IInv
    <2>10. Emptied'
      BY <1>1, <2>1, <2>2, EmptiedKept DEF IInv
    <2>11. NoOrphanSession'
      <3>1. \A s \in sess : s[1] \notin late /\ Closing(s[1]) => Closing(s[1])'
        BY <1>1, <2>1, UpdaterCloses
      <3>2. \A s \in sess : s[1] \notin late /\ s[1] \in active => s[1] \in active'
        BY <1>3, <2>1 DEF Empty
      <3>3. QED
        BY <3>1, <3>2, OrphansKept DEF IInv
    <2>12. QED
      BY <2>5, <2>9, <2>10, <2>11 DEF IInv
  <1>7. QED
    BY <1>5, <1>6

LEMMA WriteKeeps == ASSUME IInv, NEW c \in Coros, Write(c) PROVE IInv'
  <1>1. At(c, "write") /\ backend # "memory" /\ UNCHANGED <<backend, sess, flows, crossed, raced, late>>
    BY DEF Write, At, IInv, Typed, Shape
  <1>2. CASE Updates(c)
    <2>1. Change(c) /\ Checked(c, Target(co[c]))
      BY <1>1, <1>2 DEF Write, Checked
    <2>2. QED
      BY <1>1, <1>2, <2>1, ChangeKeeps
  <1>3. CASE ~Updates(c)
    <2>1. Insert(c) /\ UNCHANGED erased /\ Checked(c, co[c].rec)
      BY <1>1, <1>3 DEF Write, Checked
    <2>2. QED
      BY <1>1, <1>3, <2>1, InsertKeeps
  <1>4. QED
    BY <1>2, <1>3

LEMMA CheckHistory ==
  ASSUME IInv, NEW c \in Coros, Check(c)
  PROVE  /\ crossed \subseteq crossed' /\ crossed' \subseteq Users
         /\ raced => raced'
         /\ raced' \in BOOLEAN
         /\ backend = "memory" => crossed' = crossed /\ raced' = raced
         /\ \A d \in Coros : d # c /\ At(d, "write") =>
               /\ raced'
               /\ co[d].who = co[c].who /\ co[c].who # Nobody => co[c].who \in crossed'
  <1>1. /\ raced' = (raced \/ Writing(c) # {})
        /\ crossed' = crossed \cup
                         {u \in {co[c].who} \ {Nobody} : \E d \in Writing(c) : co[d].who = u}
    BY DEF Check
  <1>2. crossed \subseteq Users /\ raced \in BOOLEAN /\ co[c].who \in Users \cup {Nobody}
    BY DEF IInv, Typed, StoreTyped, Frame
  <1>3. backend = "memory" => Writing(c) = {}
    BY DEF Writing, At, IInv, Typed, Shape
  <1>4. \A d \in Coros : d # c /\ At(d, "write") => d \in Writing(c)
    BY DEF Writing
  <1>5. /\ raced => raced'
        /\ raced' \in BOOLEAN
        /\ backend = "memory" => raced' = raced
    BY <1>1, <1>2, <1>3
  <1>6. /\ crossed \subseteq crossed' /\ crossed' \subseteq Users
        /\ backend = "memory" => crossed' = crossed
    BY <1>1, <1>2, <1>3
  <1>7. ASSUME NEW d \in Coros, d # c, At(d, "write")
        PROVE  /\ raced'
               /\ co[d].who = co[c].who /\ co[c].who # Nobody => co[c].who \in crossed'
    <2>1. d \in Writing(c)
      BY <1>4, <1>7
    <2>2. raced'
      BY <1>1, <2>1
    <2>3. ASSUME co[d].who = co[c].who, co[c].who # Nobody
          PROVE  co[c].who \in crossed'
      BY <1>1, <2>1, <2>3
    <2>4. QED
      BY <2>2, <2>3
  <1>8. QED
    BY <1>5, <1>6, <1>7

(* The check passes, and the flow is about to write. *)
LEMMA CheckPasses ==
  ASSUME IInv, NEW c \in Coros, Check(c), backend # "memory", UNCHANGED <<store, erased>>,
         ~Taken(Target(co[c]), co[c].who),
         co' = [co EXCEPT ![c] = [co[c] EXCEPT !.pc = "write",
                                               !.read = IF Updates(c) THEN row[co[c].who] ELSE NoRecord]]
  PROVE  IInv'
  <1>. PICK q : q = [co[c] EXCEPT !.pc = "write",
                                  !.read = IF Updates(c) THEN row[co[c].who] ELSE NoRecord]
    OBVIOUS
  <1>1. /\ Typed /\ StoreTyped /\ Shape(co[c]) /\ co[c].pc = "check" /\ EmptyFor(co[c])
        /\ UNCHANGED <<backend, sess, flows, late>>
    BY DEF Check, At, IInv, Typed, Emptied
  <1>2. /\ q.pc = "write" /\ q.op = co[c].op /\ q.who = co[c].who /\ q.upd = co[c].upd
        /\ q.rec = co[c].rec /\ q.read = IF Updates(c) THEN row[co[c].who] ELSE NoRecord
    BY <1>1 DEF Shape, Frame
  <1>3. co'[c] = q /\ \A d \in Coros : d # c => co'[d] = co[d]
    BY <1>1, Moves
  <1>4. Shape(q)'
    <2>1. q.read \in Record
      BY <1>1, <1>2, UpdaterFacts, ClientRecords
    <2>2. q \in Frame
      BY <1>1, <2>1 DEF Shape, Frame, Pcs
    <2>3. QED
      BY <1>1, <1>2, <2>2 DEF Shape, store
  <1>5. StoreTyped'
    <2>1. crossed' \subseteq Users /\ raced' \in BOOLEAN
      BY CheckHistory
    <2>2. erased' = erased
      OBVIOUS
    <2>3. QED
      BY <1>1, <2>1, <2>2 DEF StoreTyped, store
  <1>6. Typed'
    BY <1>1, <1>4, <1>5, TypedMoves DEF store
  <1>7. Emptied'
    <2>1. EmptyFor(q)'
      BY <1>1, <1>2 DEF EmptyFor
    <2>2. QED
      BY <1>1, <2>1, EmptiedKept DEF IInv
  <1>8. NoOrphanSession'
    <2>1. Closes(co[c]) => Closes(q) /\ q.who = co[c].who
      BY <1>2 DEF Closes
    <2>2. QED
      BY <1>1, <2>1, ClosingKept, OrphansKept DEF IInv, store
  <1>9. Keyed'
    BY <1>1, CheckHistory DEF IInv, Stored, Keyed, Searchable, Lowered, store
  <1>10. KeysDiffer'
    BY <1>1, CheckHistory DEF IInv, Stored, KeysDiffer, store
  <1>11. Forgotten'
    BY DEF IInv, Stored, Forgotten, store
  <1>12. Apart'
    <2>. SUFFICES ASSUME NEW d \in Coros, NEW e \in Coros, d # e, At(d, "write")', At(e, "write")'
                  PROVE  /\ raced'
                         /\ co'[d].who # Nobody /\ co'[d].who = co'[e].who => co'[d].who \in crossed'
      BY DEF Apart
    <2>1. CASE d = c
      BY <1>2, <1>3, <2>1, CheckHistory DEF At
    <2>2. CASE e = c
      BY <1>2, <1>3, <2>2, CheckHistory DEF At
    <2>3. CASE d # c /\ e # c
      <3>1. co'[d] = co[d] /\ co'[e] = co[e] /\ At(d, "write") /\ At(e, "write")
        BY <1>3, <2>3 DEF At
      <3>2. QED
        BY <3>1, CheckHistory DEF IInv, Stored, Apart
    <2>4. QED
      BY <2>1, <2>2, <2>3
  <1>13. Pending'
    <2>. SUFFICES ASSUME NEW d \in Coros, At(d, "write")'
                  PROVE  /\ co'[d].who # Nobody =>
                               co'[d].read = row'[co'[d].who] \/ co'[d].who \in crossed'
                         /\ (backend = "dynamodb" /\ ~raced)' =>
                               ~DynamoTaken(Target(co[d]), co[d].who)'
      BY DEF Pending
    <2>1. CASE d = c
      <3>. PICK rec, me : rec = Target(co[c]) /\ me = co[c].who
        OBVIOUS
      <3>1. co'[d].who = me /\ (me # Nobody => co'[d].read = row'[me])
        BY <1>2, <1>3, <2>1 DEF Updates, store
      <3>2. Target(co[d])' = rec
        BY <1>2, <1>3, <2>1 DEF Target, store
      <3>3. backend = "dynamodb" => ~DynamoTaken(rec, me)
        BY DEF Taken
      <3>4. DynamoTaken(rec, me)' = DynamoTaken(rec, me)
        BY DEF DynamoTaken, Holders, Lowered, store
      <3>5. DynamoTaken(Target(co[d]), co[d].who)' = DynamoTaken(rec, me)'
        BY <3>1, <3>2 DEF DynamoTaken
      <3>6. QED
        BY <1>1, <3>1, <3>3, <3>4, <3>5
    <2>2. CASE d # c
      <3>1. co'[d] = co[d] /\ At(d, "write") /\ raced'
        BY <1>3, <2>2, CheckHistory DEF At
      <3>2. QED
        BY <3>1, CheckHistory DEF IInv, Stored, Pending, store
    <2>3. QED
      BY <2>1, <2>2
  <1>14. QED
    BY <1>6, <1>7, <1>8, <1>9, <1>10, <1>11, <1>12, <1>13 DEF IInv, Stored

LEMMA CheckKeeps == ASSUME IInv, NEW c \in Coros, Check(c) PROVE IInv'
  <1>. PICK rec, me : rec = Target(co[c]) /\ me = co[c].who
    OBVIOUS
  <1>1. At(c, "check") /\ UNCHANGED <<backend, sess, flows, late>>
    BY DEF Check
  <1>2. Updates(c) \/ ~Closes(co[c])
    BY <1>1, CreatorFacts DEF At
  <1>3. \/ (Return(c, "refused") \/ Return(c, "conflict")) /\ UNCHANGED <<store, erased>>
        \/ ~Taken(rec, me) /\ backend # "memory" /\ UNCHANGED <<store, erased>>
           /\ co' = [co EXCEPT ![c] = [co[c] EXCEPT !.pc = "write",
                                         !.read = IF Updates(c) THEN row[me] ELSE NoRecord]]
        \/ ~Taken(rec, me) /\ backend = "memory" /\ Updates(c) /\ Change(c)
        \/ ~Taken(rec, me) /\ backend = "memory" /\ ~Updates(c) /\ Insert(c) /\ UNCHANGED erased
    <2>1. (IF Updates(c) THEN Merge(row[co[c].who], co[c].upd) ELSE co[c].rec) = rec
      BY DEF Target, Updates
    <2>. HIDE DEF Updates, Target
    <2>2. QED
      BY <2>1 DEF Check
  <1>4. CASE (Return(c, "refused") \/ Return(c, "conflict")) /\ UNCHANGED <<store, erased>>
    BY <1>1, <1>2, <1>4, CheckHistory, UpdaterReturns DEF At
  <1>5. CASE /\ ~Taken(rec, me) /\ backend # "memory" /\ UNCHANGED <<store, erased>>
             /\ co' = [co EXCEPT ![c] = [co[c] EXCEPT !.pc = "write",
                                         !.read = IF Updates(c) THEN row[me] ELSE NoRecord]]
    BY <1>5, CheckPasses
  <1>6. CASE ~Taken(rec, me) /\ backend = "memory"
    <2>1. Checked(c, rec)
      BY <1>1, <1>6 DEF Checked, Taken
    <2>2. UNCHANGED <<crossed, raced>>
      BY <1>6, CheckHistory
    <2>3. CASE Updates(c) /\ Change(c)
      BY <1>1, <2>1, <2>2, <2>3, ChangeKeeps
    <2>4. CASE ~Updates(c) /\ Insert(c) /\ UNCHANGED erased
      <3>1. rec = co[c].rec
        BY <2>4 DEF Target, Updates
      <3>2. QED
        BY <1>1, <2>1, <2>2, <2>4, <3>1, InsertKeeps
    <2>5. CASE (Return(c, "refused") \/ Return(c, "conflict")) /\ UNCHANGED <<store, erased>>
      BY <1>4, <2>5
    <2>6. QED
      BY <1>3, <1>6, <2>3, <2>4, <2>5
  <1>7. QED
    BY <1>3, <1>4, <1>5, <1>6

-------------------------------------------------------------------------------
LEMMA InitIInv == Init => IInv
  <1>. SUFFICES ASSUME Init PROVE IInv
    OBVIOUS
  <1>1. PICK p \in Seeds, u0 \in Users :
          /\ live = {u0} /\ born = {u0} /\ active = {u0}
          /\ row = [u \in Users |-> IF u = u0 THEN p ELSE NoRecord]
          /\ key = [u \in Users |-> IF u = u0 THEN NewKeys(p) ELSE NoRecord]
    <2>1. (CHOOSE u \in Users : TRUE) \in Users
      BY UsersAssumption
    <2>2. QED
      BY <2>1 DEF Init
  <1>2. /\ backend \in Backends /\ sess = {} /\ flows = 0 /\ co = [c \in Coros |-> Idle]
        /\ crossed = {} /\ raced = FALSE /\ late = {} /\ erased = {}
    BY DEF Init
  <1>3. p \in Record /\ NoRecord \in Record
    BY ClientRecords
  <1>4. NewKeys(p) \in Record /\ \A f \in Fields : NewKeys(p)[f] = Index(p, f)
    BY <1>2, <1>3, NewKeysFacts
  <1>5. StoreTyped
    <2>1. row \in [Users -> Record] /\ key \in [Users -> Record]
      BY <1>1, <1>3, <1>4
    <2>2. flows \in 0..MaxFlows
      BY <1>2, UsersAssumption
    <2>3. QED
      BY <1>1, <1>2, <2>1, <2>2 DEF StoreTyped
  <1>6. Shape(Idle) /\ Idle.pc = "idle" /\ Idle \in Frame /\ Idle.op = "none"
    BY <1>3 DEF Idle, Shape, Frame, Ops, Pcs
  <1>7. Typed
    BY <1>2, <1>5, <1>6 DEF Typed
  <1>8. Keyed
    <2>1. ASSUME NEW f \in Fields
          PROVE  Index(p, f) = Lowered(f, p[f]) \/ (backend = "mongodb" /\ ~Given(p[f]))
      BY <1>3, IndexFacts DEF Index
    <2>2. backend = "mongodb" => Index(p, "phone") = p["phone"]
      BY DEF Index
    <2>3. QED
      BY <1>1, <1>4, <2>1, <2>2 DEF Keyed, Searchable, Fields
  <1>9. KeysDiffer
    BY <1>1 DEF KeysDiffer
  <1>10. Pending /\ Apart /\ Forgotten /\ Emptied
    BY <1>2, <1>6 DEF Pending, Apart, Forgotten, Emptied, EmptyFor, At
  <1>11. NoOrphanSession
    BY <1>2 DEF NoOrphanSession
  <1>12. QED
    BY <1>7, <1>8, <1>9, <1>10, <1>11 DEF IInv, Stored

LEMMA NextIInv == IInv /\ [Next]_vars => IInv'
  <1>. SUFFICES ASSUME IInv, [Next]_vars PROVE IInv'
    OBVIOUS
  <1>1. CASE UNCHANGED vars
    <2>. USE <1>1 DEF vars
    <2>1. Typed'
      BY DEF IInv, Typed, StoreTyped, Shape
    <2>2. Stored'
      BY StoredKept DEF IInv, Typed, StoreTyped
    <2>3. Emptied'
      BY DEF IInv, Emptied, EmptyFor
    <2>4. NoOrphanSession'
      BY DEF IInv, NoOrphanSession, Closing
    <2>5. QED
      BY <2>1, <2>2, <2>3, <2>4 DEF IInv
  <1>2. CASE Next
    <2>1. PICK c \in Coros :
            \/ Register(c) \/ AdminCreate(c) \/ SocialLogin(c) \/ OidcLogin(c) \/ SamlLogin(c)
            \/ MagicLink(c) \/ Import(c) \/ FindAccount(c) \/ Check(c) \/ Write(c)
            \/ AdminUpdate(c) \/ AdminDelete(c) \/ BulkOperation(c) \/ BulkAction(c) \/ EraseUser(c)
            \/ RevokeAll(c) \/ DynamoListSessions(c) \/ DynamoFlipSession(c) \/ Remove(c) \/ Flag(c)
            \/ AdminLogin(c) \/ SignIn(c) \/ SaveSession(c)
      BY <1>2 DEF Next
    <2>2. CASE Register(c) \/ AdminCreate(c) \/ SocialLogin(c) \/ OidcLogin(c) \/ SamlLogin(c)
               \/ MagicLink(c) \/ Import(c) \/ AdminLogin(c)
      BY <2>2, RegisterKeeps, AdminCreateKeeps, SocialLoginKeeps, OidcLoginKeeps, SamlLoginKeeps,
         MagicLinkKeeps, ImportKeeps, AdminLoginKeeps
    <2>3. CASE AdminUpdate(c) \/ AdminDelete(c) \/ BulkOperation(c) \/ BulkAction(c) \/ EraseUser(c)
      BY <2>3, AdminUpdateKeeps, AdminDeleteKeeps, BulkKeeps, EraseUserKeeps
    <2>4. CASE FindAccount(c) \/ Check(c) \/ Write(c)
      BY <2>4, FindAccountKeeps, CheckKeeps, WriteKeeps
    <2>5. CASE RevokeAll(c) \/ DynamoListSessions(c) \/ DynamoFlipSession(c) \/ Remove(c) \/ Flag(c)
      BY <2>5, RevokeAllKeeps, DynamoListSessionsKeeps, DynamoFlipSessionKeeps, RemoveKeeps, FlagKeeps
    <2>6. CASE SignIn(c) \/ SaveSession(c)
      BY <2>6, SignInKeeps, SaveSessionKeeps
    <2>7. QED
      BY <2>1, <2>2, <2>3, <2>4, <2>5, <2>6
  <1>3. QED
    BY <1>1, <1>2

(* The keys differ and follow the rows, hence the rows differ. *)
LEMMA KeysMakeUnique == IInv => Unique
  <1>. SUFFICES ASSUME IInv, NEW u \in live, NEW v \in live, NEW f \in Fields,
                       u # v, Given(row[u][f]), backend = "dynamodb" => ~raced,
                       backend = "mongodb" => {u, v} \cap crossed = {}
                PROVE  Lowered(f, row[u][f]) # Lowered(f, row[v][f])
    BY DEF Unique
  <1>1. row[u][f] \in Values /\ row[v][f] \in Values
    BY DEF IInv, Typed, StoreTyped, Record
  <1>2. key[u][f] = Lowered(f, row[u][f]) /\ Given(key[u][f])
    BY <1>1, LoweredFacts DEF IInv, Stored, Keyed, Searchable
  <1>3. CASE Given(row[v][f])
    <2>1. key[v][f] = Lowered(f, row[v][f])
      BY <1>3 DEF IInv, Stored, Keyed, Searchable
    <2>2. key[u][f] # key[v][f]
      BY <1>2 DEF IInv, Stored, KeysDiffer, Given
    <2>3. QED
      BY <1>2, <2>1, <2>2
  <1>4. CASE ~Given(row[v][f])
    <2>1. Lowered(f, row[v][f]) = Absent
      BY <1>1, <1>4, LoweredFacts
    <2>2. QED
      BY <1>2, <2>1 DEF Given
  <1>5. QED
    BY <1>3, <1>4

LEMMA IInvIsSound == IInv => DirectorySound
  <1>. SUFFICES ASSUME IInv PROVE DirectorySound
    OBVIOUS
  <1>1. TypeOK
    BY TypedIsOK DEF IInv
  <1>2. Unique
    BY KeysMakeUnique
  <1>3. Searchable /\ ErasureForgets /\ NoOrphanSession
    BY DEF IInv, Stored, Keyed, Forgotten, ErasureForgets
  <1>4. QED
    BY <1>1, <1>2, <1>3 DEF DirectorySound

(* Whatever the users, the coroutines and the identities the clients present: *)
(* the accounts of the four adapters stay unique, are found by what their rows  *)
(* say, keep nothing an erasure took away, and leave no session when closed.    *)
THEOREM Sound == Spec => []DirectorySound
  <1>1. Init => IInv
    BY InitIInv
  <1>2. IInv /\ [Next]_vars => IInv'
    BY NextIInv
  <1>3. IInv => DirectorySound
    BY IInvIsSound
  <1>4. QED
    BY <1>1, <1>2, <1>3, PTL DEF Spec

-------------------------------------------------------------------------------
(* Which steps refuse a write as a duplicate, and why. *)

Duplicate(c) ==
    LET rec == IF Updates(c) THEN Merge(row[co[c].who], co[c].upd) ELSE co[c].rec
    IN \E u \in live \ {co[c].who}, f \in Fields :
         \/ Given(rec[f]) /\ key[u][f] = Lowered(f, rec[f])
         \/ backend = "mongodb" /\ f = "phone" /\ rec[f] = Null /\ row[u][f] = Null
         \/ backend = "mongodb" /\ co[c].who \in crossed

(* Every other step leaves its result, or returns another one. *)
Quietly(c) ==
    \E q : co' = [co EXCEPT ![c] = q] /\ q.res \in {co[c].res, "none", "done", "refused"}

LEMMA ReturnsQuietly ==
  ASSUME NEW c \in Coros, Return(c, "done") \/ Return(c, "refused")
  PROVE  Quietly(c)
  <1>1. PICK r \in {"done", "refused"} : Return(c, r)
    OBVIOUS
  <1>. PICK q : q = [Idle EXCEPT !.res = r]
    OBVIOUS
  <1>2. co' = [co EXCEPT ![c] = q] /\ q.res = r
    BY <1>1 DEF Return, Idle
  <1>3. QED
    BY <1>2 DEF Quietly

LEMMA GoesQuietly ==
  ASSUME Typed, NEW c \in Coros, NEW pc \in Pcs, Goto(c, pc)
  PROVE  Quietly(c)
  <1>. PICK q : q = [co[c] EXCEPT !.pc = pc]
    OBVIOUS
  <1>1. co' = [co EXCEPT ![c] = q]
    BY GotoMoves
  <1>2. q.res = co[c].res
    BY DEF Typed, Frame
  <1>3. QED
    BY <1>1, <1>2 DEF Quietly

LEMMA BeginsQuietly ==
  ASSUME NEW c \in Coros, NEW op, NEW pc, NEW rec, NEW who, NEW upd, NEW ok,
         Begin(c, op, pc, rec, who, upd, ok)
  PROVE  Quietly(c)
  <1>. PICK q : q = [Idle EXCEPT !.op = op, !.pc = pc, !.rec = rec, !.who = who,
                                 !.upd = upd, !.verified = ok]
    OBVIOUS
  <1>1. co' = [co EXCEPT ![c] = q]
    BY DEF Begin
  <1>2. q.res = "none"
    BY DEF Idle
  <1>3. QED
    BY <1>1, <1>2 DEF Quietly

LEMMA StartsQuietly ==
  ASSUME NEW c \in Coros,
         \/ Register(c) \/ AdminCreate(c) \/ SocialLogin(c) \/ OidcLogin(c) \/ SamlLogin(c)
         \/ MagicLink(c) \/ Import(c) \/ AdminLogin(c)
         \/ AdminUpdate(c) \/ AdminDelete(c) \/ BulkOperation(c) \/ BulkAction(c) \/ EraseUser(c)
  PROVE  Quietly(c)
  <1>1. \E op, pc, rec, who, upd, ok : Begin(c, op, pc, rec, who, upd, ok)
    <2>1. CASE Register(c) \/ AdminCreate(c) \/ SocialLogin(c)
      BY <2>1, Zenon DEF Register, AdminCreate, SocialLogin
    <2>2. CASE OidcLogin(c) \/ SamlLogin(c) \/ MagicLink(c) \/ Import(c) \/ AdminLogin(c)
      BY <2>2, Zenon DEF OidcLogin, SamlLogin, MagicLink, Import, AdminLogin
    <2>3. CASE AdminUpdate(c) \/ AdminDelete(c) \/ BulkOperation(c) \/ BulkAction(c) \/ EraseUser(c)
      BY <2>3, Zenon DEF AdminUpdate, AdminDelete, BulkOperation, BulkAction, EraseUser
    <2>4. QED
      BY <2>1, <2>2, <2>3
  <1>2. QED
    BY <1>1, BeginsQuietly

LEMMA ClosesQuietly ==
  ASSUME IInv, NEW c \in Coros,
         RevokeAll(c) \/ DynamoListSessions(c) \/ DynamoFlipSession(c) \/ Remove(c) \/ Flag(c)
  PROVE  Quietly(c)
  <1>1. Typed /\ co[c] \in Frame
    BY DEF IInv, Typed
  <1>2. Finish(c) => Quietly(c)
    <2>1. After(c) \in {"remove", "check", "idle"}
      BY DEF After
    <2>2. QED
      BY <1>1, <2>1, ReturnsQuietly, GoesQuietly DEF Finish, Pcs
  <1>3. CASE RevokeAll(c)
    BY <1>2, <1>3 DEF RevokeAll
  <1>4. CASE DynamoListSessions(c)
    <2>. PICK q : q = [co[c] EXCEPT !.pc = "flip", !.list = SessionsOf(co[c].who)]
      OBVIOUS
    <2>1. co' = [co EXCEPT ![c] = q] /\ q.res = co[c].res
      BY <1>1, <1>4 DEF DynamoListSessions, Frame
    <2>2. QED
      BY <2>1 DEF Quietly
  <1>5. CASE DynamoFlipSession(c)
    <2>1. CASE Finish(c)
      BY <1>2, <2>1
    <2>2. CASE \E s \in co[c].list : co' = [co EXCEPT ![c].list = @ \ {s}]
      <3>1. PICK s \in co[c].list : co' = [co EXCEPT ![c].list = @ \ {s}]
        BY <2>2
      <3>. PICK q : q = [co[c] EXCEPT !.list = @ \ {s}]
        OBVIOUS
      <3>2. co' = [co EXCEPT ![c] = q] /\ q.res = co[c].res
        BY <1>1, <3>1 DEF Typed, Frame
      <3>3. QED
        BY <3>2 DEF Quietly
    <2>3. QED
      BY <1>5, <2>1, <2>2 DEF DynamoFlipSession
  <1>6. CASE Remove(c)
    BY <1>6, ReturnsQuietly DEF Remove
  <1>7. CASE Flag(c)
    BY <1>1, <1>7, ReturnsQuietly, GoesQuietly DEF Flag, Pcs
  <1>8. QED
    BY <1>3, <1>4, <1>5, <1>6, <1>7

LEMMA FindsQuietly ==
  ASSUME IInv, NEW c \in Coros, FindAccount(c) \/ SignIn(c) \/ SaveSession(c)
  PROVE  Quietly(c)
  <1>1. Typed /\ co[c] \in Frame
    BY DEF IInv, Typed
  <1>2. CASE FindAccount(c)
    BY <1>1, <1>2, ReturnsQuietly, GoesQuietly DEF FindAccount, Pcs
  <1>3. CASE SignIn(c)
    <2>1. CASE Return(c, "refused")
      BY <2>1, ReturnsQuietly
    <2>2. CASE \E u : co' = [co EXCEPT ![c] = [co[c] EXCEPT !.pc = "save", !.who = u]]
      <3>1. PICK u : co' = [co EXCEPT ![c] = [co[c] EXCEPT !.pc = "save", !.who = u]]
        BY <2>2
      <3>. PICK q : q = [co[c] EXCEPT !.pc = "save", !.who = u]
        OBVIOUS
      <3>2. co' = [co EXCEPT ![c] = q] /\ q.res = co[c].res
        BY <1>1, <3>1 DEF Frame
      <3>3. QED
        BY <3>2 DEF Quietly
    <2>3. QED
      BY <1>3, <2>1, <2>2 DEF SignIn
  <1>4. CASE SaveSession(c)
    BY <1>4, ReturnsQuietly DEF SaveSession
  <1>5. QED
    BY <1>2, <1>3, <1>4

LEMMA TakenIsDuplicate ==
  ASSUME IInv, NEW c \in Coros, Taken(Target(co[c]), co[c].who)
  PROVE  Duplicate(c)
  <1>. PICK rec, me : rec = Target(co[c]) /\ me = co[c].who
    OBVIOUS
  <1>1. \E u \in live \ {me}, f \in Fields : Given(rec[f]) /\ key[u][f] = Lowered(f, rec[f])
    <2>1. CASE backend = "sql"
      <3>1. PICK f \in Fields, u \in live \ {me} :
              Given(rec[f]) /\ Lowered(f, row[u][f]) = Lowered(f, rec[f])
        BY <2>1 DEF Taken, SqlTaken
      <3>2. key[u][f] = Lowered(f, row[u][f])
        BY <2>1 DEF IInv, Stored, Keyed, Searchable
      <3>3. QED
        BY <3>1, <3>2
    <2>2. CASE backend \in {"memory", "mongodb", "dynamodb"}
      <3>1. \E f \in Fields : Given(rec[f]) /\ Holders(f, rec[f]) \ {me} # {}
        BY <2>2 DEF Taken, MemoryTaken, MongoTaken, DynamoTaken
      <3>2. QED
        BY <3>1 DEF Holders
    <2>3. QED
      BY <2>1, <2>2 DEF IInv, Typed, StoreTyped, Backends
  <1>2. rec = IF Updates(c) THEN Merge(row[me], co[c].upd) ELSE co[c].rec
    BY DEF Target, Updates
  <1>3. QED
    BY <1>1, <1>2 DEF Duplicate

(* The unique indexes refuse for the same reasons. *)
LEMMA RefusedIsDuplicate ==
  ASSUME IInv, NEW c \in Coros, NEW rec \in Record, rec = Target(co[c]), NEW u \in Users,
         NEW keys \in Record, ~Accepts(u, keys), co[c].who = u \/ co[c].who = Nobody,
         \A f \in Fields : \/ keys[f] = Index(rec, f)
                           \/ backend = "mongodb" /\ u \in live /\ keys[f] = key[u][f]
                           \/ backend = "mongodb" /\ u \in crossed /\ co[c].who = u
                           \/ backend = "dynamodb"
  PROVE  Duplicate(c)
  <1>1. PICK v \in live \ {u}, f \in Fields :
          /\ \/ backend = "sql" /\ Given(keys[f])
             \/ backend = "mongodb" /\ keys[f] # Absent
          /\ key[v][f] = keys[f]
    BY DEF Accepts, SqlUnique, MongoUnique
  <1>2. v \in live \ {co[c].who}
    BY UsersAssumption DEF IInv, Typed, StoreTyped
  <1>3. rec = IF Updates(c) THEN Merge(row[co[c].who], co[c].upd) ELSE co[c].rec
    BY DEF Target, Updates
  <1>4. CASE keys[f] = Index(rec, f)
    <2>1. CASE Given(rec[f])
      <3>1. key[v][f] = Lowered(f, rec[f])
        BY <1>1, <1>4, <2>1, IndexFacts
      <3>2. QED
        BY <1>2, <1>3, <2>1, <3>1 DEF Duplicate
    <2>2. CASE ~Given(rec[f])
      <3>1. backend = "mongodb" /\ f = "phone" /\ rec[f] = Null /\ keys[f] = Null
        BY <1>1, <1>4, <2>2, IndexFacts DEF Given
      <3>2. row[v][f] = Null
        BY <1>1, <3>1 DEF IInv, Stored, Keyed
      <3>3. QED
        BY <1>2, <1>3, <3>1, <3>2 DEF Duplicate
    <2>3. QED
      BY <2>1, <2>2
  <1>5. CASE backend = "mongodb" /\ u \in live /\ keys[f] = key[u][f]
    BY <1>1, <1>5 DEF IInv, Stored, KeysDiffer
  <1>6. CASE backend = "mongodb" /\ u \in crossed /\ co[c].who = u
    BY <1>2, <1>6 DEF Duplicate
  <1>7. QED
    BY <1>1, <1>4, <1>5, <1>6

LEMMA InsertRefuses ==
  ASSUME IInv, NEW c \in Coros, Insert(c), ~Updates(c), Checked(c, co[c].rec)
  PROVE  Quietly(c) \/ Duplicate(c)
  <1>1. co[c].who = Nobody /\ Target(co[c]) = co[c].rec /\ co[c].rec \in Record
    BY CreatorFacts DEF Checked, At
  <1>2. PICK u \in Users : IF Accepts(u, NewKeys(co[c].rec)) THEN Return(c, "done") ELSE TRUE
    BY DEF Insert
  <1>3. NewKeys(co[c].rec) \in Record /\ \A f \in Fields : NewKeys(co[c].rec)[f] = Index(co[c].rec, f)
    BY <1>1, NewKeysFacts DEF IInv, Typed, StoreTyped
  <1>4. CASE Accepts(u, NewKeys(co[c].rec))
    BY <1>2, <1>4, ReturnsQuietly
  <1>5. CASE ~Accepts(u, NewKeys(co[c].rec))
    BY <1>1, <1>3, <1>5, RefusedIsDuplicate
  <1>6. QED
    BY <1>4, <1>5

LEMMA ChangeRefuses ==
  ASSUME IInv, NEW c \in Coros, Change(c), Updates(c), Checked(c, Target(co[c]))
  PROVE  Quietly(c) \/ Duplicate(c)
  <1>. PICK u, rec, keys : /\ u = co[c].who /\ rec = Merge(row[u], co[c].upd)
                           /\ keys = UpdatedKeys(u, co[c].read, co[c].upd)
    OBVIOUS
  <1>1. /\ u \in Users /\ Target(co[c]) = rec
        /\ co[c].upd \in SUBSET (Fields \X Values) /\ co[c].read \in Record
        /\ row[u] \in Record /\ key[u] \in Record
    BY UpdaterFacts DEF Checked, At
  <1>2. rec \in Record /\ keys \in Record /\ Follows(u, co[c].read, rec, keys)
    <2>1. rec \in Record
      BY <1>1, MergeFacts
    <2>2. QED
      BY <1>1, <2>1, UpdatedKeysFacts DEF IInv, Typed, StoreTyped
  <1>3. CASE u \notin live \/ Accepts(u, keys)
    <2>1. Return(c, "refused") \/ Return(c, "done")
      BY <1>3 DEF Change
    <2>2. QED
      BY <2>1, ReturnsQuietly
  <1>4. CASE u \in live /\ ~Accepts(u, keys)
    <2>1. backend = "mongodb" => co[c].read = row[u] \/ u \in crossed
      BY <1>1, UsersAssumption DEF Checked, IInv, Stored, Pending
    <2>2. \A f \in Fields : \/ keys[f] = Index(rec, f)
                            \/ backend = "mongodb" /\ u \in live /\ keys[f] = key[u][f]
                            \/ backend = "mongodb" /\ u \in crossed /\ co[c].who = u
                            \/ backend = "dynamodb"
      BY <1>2, <1>4, <2>1 DEF Follows
    <2>3. rec = Target(co[c])
      BY <1>1
    <2>4. QED
      BY <1>1, <1>2, <1>4, <2>2, <2>3, RefusedIsDuplicate
  <1>5. QED
    BY <1>3, <1>4

LEMMA WriteRefuses ==
  ASSUME IInv, NEW c \in Coros, Write(c)
  PROVE  Quietly(c) \/ Duplicate(c)
  <1>1. At(c, "write") /\ backend # "memory"
    BY DEF Write, At, IInv, Typed, Shape
  <1>2. Checked(c, Target(co[c])) /\ Checked(c, co[c].rec)
    BY <1>1 DEF Checked
  <1>3. QED
    BY <1>2, ChangeRefuses, InsertRefuses DEF Write

LEMMA CheckRefuses ==
  ASSUME IInv, NEW c \in Coros, Check(c)
  PROVE  Quietly(c) \/ Duplicate(c)
  <1>. PICK rec, me : rec = Target(co[c]) /\ me = co[c].who
    OBVIOUS
  <1>1. At(c, "check")
    BY DEF Check
  <1>2. \/ Return(c, "refused")
        \/ Taken(rec, me)
        \/ co' = [co EXCEPT ![c] = [co[c] EXCEPT !.pc = "write",
                                      !.read = IF Updates(c) THEN row[me] ELSE NoRecord]]
        \/ ~Taken(rec, me) /\ backend = "memory" /\ Updates(c) /\ Change(c)
        \/ ~Taken(rec, me) /\ backend = "memory" /\ ~Updates(c) /\ Insert(c)
    <2>1. (IF Updates(c) THEN Merge(row[co[c].who], co[c].upd) ELSE co[c].rec) = rec
      BY DEF Target, Updates
    <2>. HIDE DEF Updates, Target
    <2>2. QED
      BY <2>1 DEF Check
  <1>3. CASE Return(c, "refused")
    BY <1>3, ReturnsQuietly
  <1>4. CASE Taken(rec, me)
    BY <1>4, TakenIsDuplicate
  <1>5. CASE co' = [co EXCEPT ![c] = [co[c] EXCEPT !.pc = "write",
                                       !.read = IF Updates(c) THEN row[me] ELSE NoRecord]]
    <2>. PICK q : q = [co[c] EXCEPT !.pc = "write",
                                    !.read = IF Updates(c) THEN row[me] ELSE NoRecord]
      OBVIOUS
    <2>1. q.res = co[c].res
      BY DEF IInv, Typed, Frame
    <2>2. QED
      BY <1>5, <2>1 DEF Quietly
  <1>6. CASE ~Taken(rec, me) /\ backend = "memory" /\ Updates(c) /\ Change(c)
    BY <1>1, <1>6, ChangeRefuses DEF Checked, Taken
  <1>7. CASE ~Taken(rec, me) /\ backend = "memory" /\ ~Updates(c) /\ Insert(c)
    <2>1. rec = co[c].rec
      BY <1>7 DEF Target, Updates
    <2>2. QED
      BY <1>1, <1>7, <2>1, InsertRefuses DEF Checked, Taken
  <1>8. QED
    BY <1>2, <1>3, <1>4, <1>5, <1>6, <1>7

LEMMA StepRefuses ==
  ASSUME IInv, Next, NEW d \in Coros, co[d].res # "conflict", co'[d].res = "conflict"
  PROVE  Duplicate(d)
  <1>1. PICK c \in Coros :
          \/ Register(c) \/ AdminCreate(c) \/ SocialLogin(c) \/ OidcLogin(c) \/ SamlLogin(c)
          \/ MagicLink(c) \/ Import(c) \/ FindAccount(c) \/ Check(c) \/ Write(c)
          \/ AdminUpdate(c) \/ AdminDelete(c) \/ BulkOperation(c) \/ BulkAction(c) \/ EraseUser(c)
          \/ RevokeAll(c) \/ DynamoListSessions(c) \/ DynamoFlipSession(c) \/ Remove(c) \/ Flag(c)
          \/ AdminLogin(c) \/ SignIn(c) \/ SaveSession(c)
    BY DEF Next
  <1>2. Quietly(c) \/ (Duplicate(c) /\ (Check(c) \/ Write(c)))
    BY <1>1, StartsQuietly, ClosesQuietly, FindsQuietly, CheckRefuses, WriteRefuses
  <1>3. CASE Quietly(c)
    <2>1. PICK q : co' = [co EXCEPT ![c] = q] /\ q.res \in {co[c].res, "none", "done", "refused"}
      BY <1>3 DEF Quietly
    <2>2. co'[c] = q /\ (d # c => co'[d] = co[d])
      BY <2>1, Moves DEF IInv
    <2>3. QED
      BY <2>1, <2>2
  <1>4. CASE Duplicate(c) /\ (Check(c) \/ Write(c))
    <2>1. d = c
      <3>1. \A e \in Coros : e # c => co'[e] = co[e]
        BY <1>4 DEF Check, Write, Change, Insert, Return, IInv, Typed
      <3>2. QED
        BY <3>1
    <2>2. QED
      BY <1>4, <2>1
  <1>5. QED
    BY <1>2, <1>3, <1>4

(* A registration or an update is refused as a duplicate only when another     *)
(* user holds one of its identifiers, whatever the interleaving of the flows.   *)
THEOREM RefusesOnlyTaken == Spec => RefusedOnlyIfTaken
  <1>1. Init => IInv
    BY InitIInv
  <1>2. IInv /\ [Next]_vars => IInv'
    BY NextIInv
  <1>3. IInv /\ [Next]_vars =>
          [\A c \in Coros : co[c].res # "conflict" /\ co'[c].res = "conflict" =>
             LET rec == IF Updates(c) THEN Merge(row[co[c].who], co[c].upd) ELSE co[c].rec
             IN \E u \in live \ {co[c].who}, f \in Fields :
                  \/ Given(rec[f]) /\ key[u][f] = Lowered(f, rec[f])
                  \/ backend = "mongodb" /\ f = "phone" /\ rec[f] = Null /\ row[u][f] = Null
                  \/ backend = "mongodb" /\ co[c].who \in crossed]_vars
    BY StepRefuses DEF Duplicate
  <1>4. QED
    BY <1>1, <1>2, <1>3, PTL DEF Spec, RefusedOnlyIfTaken
=============================================================================
