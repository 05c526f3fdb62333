------------------------ MODULE OrganizationsProofs ------------------------
(* Proofs about Organizations: names, members, owners, deletions, invitations. *)
EXTENDS Organizations, FiniteSetTheorems, TLAPS

-----------------------------------------------------------------------------
(* What a coroutine is doing *)

DelSteps  == {"delmembers", "dropmembers", "delinvites", "dropinvites", "delorg", "commit"}
SendSteps == {"incr", "expire", "create", "insertinv"}
JoinSteps == {"count", "add", "insert"}

(* The flow a step belongs to, and the locals it has there. *)
Shape(f) ==
    /\ f.pc = "idle" => f = Idle
    /\ f.pc = "slug" => f.op = "create"
    /\ f.pc \in {"name", "put"} => f.op \in {"create", "rename"}
    /\ f.pc = "org" => f.op \in {"add", "accept", "invite"}
    /\ f.pc \in JoinSteps => f.op \in {"create", "add", "accept"}
    /\ f.pc \in {"members", "apply"} => f.op \in {"remove", "role"}
    /\ f.pc \in {"pending"} \cup SendSteps => f.op = "invite"
    /\ f.pc = "token" => f.op \in {"accept", "decline"}
    /\ f.pc = "user" => f.op = "accept"
    /\ f.pc = "consume" => f.op \in {"accept", "decline"}
    /\ f.pc = "purge" => f.op = "list"
    /\ f.pc \in DelSteps <=> f.op = "delete"
    /\ f.pc \notin {"idle", "token"} => f.org \in Orgs
    /\ f.op \in {"create", "add", "accept", "remove", "role"} => f.user \in Users
    /\ f.op \in {"accept", "decline"} => f.inv \in Invs
    /\ f.op = "invite" => f.text \in Emails
    /\ f.pc \in {"slug", "name", "put"} => f.text \in Slugs \cup {Suffix[o] : o \in Orgs}
    /\ f.pc \in {"slug", "name", "put"} /\ f.op = "create" => f.role = "owner"

(* The steps an adapter has. *)
Belongs(f) ==
    /\ f.pc = "put" => backend = "dynamodb"
    /\ f.pc = "insert" => backend # "memory"
    /\ f.pc = "insertinv" => backend \in {"mongodb", "dynamodb"}
    /\ f.pc = "commit" => backend = "sql"
    /\ f.pc \in {"delinvites", "delorg"} => backend = "mongodb"
    /\ f.pc \in {"dropmembers", "dropinvites"} => backend = "dynamodb"

Typed ==
    /\ TypeOK
    /\ slug \in [Orgs -> Slugs \cup {Suffix[o] : o \in Orgs} \cup {Nothing}]
    /\ count \in [Orgs -> Nat]
    /\ owned \subseteq Orgs /\ admitted \subseteq Invs \X Users
    /\ co \in [Coros -> Frames]
    /\ \A c \in Coros : Shape(co[c]) /\ Belongs(co[c])
    /\ backend = "sql" => invites = {}

-----------------------------------------------------------------------------
(* Names *)

Creating(f) == f.pc \in {"slug", "name", "put"} /\ f.op = "create"
Refers(f, o) == f.org = o /\ f.pc \notin {"idle", "token"} /\ ~Creating(f)

(* An organization that has been named is the only one with an owner, a       *)
(* member, an invitation or a request; one that has not has its creator.      *)
Unnamed(o) ==
    /\ o \notin orgs /\ o \notin owned /\ members[o] = {} /\ PendingOf(o) = {}
    /\ \A c \in Coros : ~Refers(co[c], o)
NamedFirst ==
    /\ \A o \in Orgs : slug[o] = Nothing => Unnamed(o)
    /\ \A o \in Orgs : slug[o] # Nothing => o \in born
    /\ \A c \in Coros : Creating(co[c]) => co[c].org \in born /\ slug[co[c].org] = Nothing
    /\ \A c, d \in Coros : Creating(co[c]) /\ Creating(co[d]) /\ co[c].org = co[d].org => c = d

(* A slug is claimed by an organization that has it and by a coroutine that   *)
(* has found it free.                                                         *)
Claims(s, o) ==
    \/ o \in orgs /\ slug[o] = s
    \/ \E c \in Coros : co[c].pc = "put" /\ co[c].text = s /\ co[c].org = o
SlugsClaimed ==
    \A s : (backend = "dynamodb" => ~Raced("slug", s)) =>
        \A o, p \in Orgs : Claims(s, o) /\ Claims(s, p) => o = p

-----------------------------------------------------------------------------
(* Members *)

(* The coroutines that will add a member and have counted them, or need not. *)
Adding(f, o) == f.org = o /\ (Creating(f) \/ f.pc \in {"add", "insert"})
Adders(o) == {c \in Coros : Adding(co[c], o)}
CapKept ==
    \A o \in Orgs :
        /\ IsFiniteSet(members[o])
        /\ Cardinality(members[o]) + Cardinality(Adders(o)) < MaxMembers + Cardinality(Coros)
        /\ ~Raced("cap", o) => Cardinality(members[o]) + Cardinality(Adders(o)) <= MaxMembers

(* What a removal or a demotion has found still holds when it is applied. *)
Applying(f, o) == f.pc = "apply" /\ f.org = o
Down(f) == f.op = "remove" \/ f.role # "owner"
Settled(o) == o \in orgs /\ ~Raced("owner", o) /\ ~Raced("partial", o) /\ ~BeingDeleted(o)
OwnersLeft ==
    /\ \A o \in Orgs : ~Raced("owner", o) =>
         \A c, d \in Coros : Applying(co[c], o) /\ Applying(co[d], o) => c = d
    /\ \A o \in Orgs : Settled(o) => \A c \in Coros : Applying(co[c], o) =>
         co[c].user \in members[o] /\ (Down(co[c]) => Owners(o) # {co[c].user})
    /\ \A o \in Orgs : Settled(o) /\ o \in owned => Owners(o) # {}

-----------------------------------------------------------------------------
(* Deletions *)

Writing(f, o) == f.pc \in {"insert", "insertinv"} /\ f.org = o
Wiping(f, o) == f.pc \in DelSteps \ {"delmembers"} /\ f.org = o

(* What a deletion has still to delete, at each of its steps. *)
Wiped(f, o) ==
    /\ f.pc \in {"dropmembers", "commit"} => members[o] \subseteq f.list
    /\ f.pc \notin {"dropmembers", "commit"} => members[o] = {}
    /\ f.pc = "delorg" => PendingOf(o) = {}
    /\ f.pc = "dropinvites" => {i.id : i \in PendingOf(o)} \subseteq f.list
WipedClean ==
    \A o \in Orgs : ~Raced("cascade", o) =>
        /\ \A c \in Coros : Writing(co[c], o) => o \in orgs /\ \A d \in Coros : ~Wiping(co[d], o)
        /\ \A c \in Coros : Wiping(co[c], o) => Wiped(co[c], o)
        /\ o \in born \ orgs => members[o] = {} /\ PendingOf(o) = {}

-----------------------------------------------------------------------------
(* Invitations *)

(* Who has read the row of an invitation, and who has deleted it to join. *)
Joining(f, i) == f.inv = i /\ f.op = "accept" /\ f.pc \in {"org"} \cup JoinSteps
Holding(f, i) == (f.inv = i /\ f.pc \in {"user", "consume"}) \/ Joining(f, i)
Tickets ==
    /\ \A i \in Invs : ~Raced("token", i) =>
         /\ \A c, d \in Coros : Holding(co[c], i) /\ Holding(co[d], i) => c = d
         /\ \A c \in Coros : Holding(co[c], i) => \A a \in admitted : a[1] # i
         /\ \A a, b \in admitted : a[1] = i /\ b[1] = i => a = b
    /\ \A x \in invites : \A a \in admitted : a[1] # x.id
    /\ \A x \in invites : \A c \in Coros : ~Joining(co[c], x.id)

Sending(f, o) == f.pc \in SendSteps /\ f.org = o
SentOnce ==
    \A o \in Orgs : ~Raced("invite", o) =>
        /\ \A c, d \in Coros : Sending(co[c], o) /\ Sending(co[d], o) => c = d
        /\ \A c \in Coros : Sending(co[c], o) => \A i \in PendingOf(o) : i.email # co[c].text
        /\ \A i, j \in PendingOf(o) : i.email = j.email => i = j

Counted ==
    \A o \in Orgs : count[o] > 0 /\ o \notin ttl =>
        Raced("counter", o) \/ \E c \in Coros : co[c].pc = "expire" /\ co[c].org = o

(* Over the in-memory adapter only the sends of invitations overlap. *)
Alone == backend = "memory" => \A x \in raced : x[1] \in {"counter", "invite"}

IInv ==
    /\ Typed /\ NamedFirst /\ SlugsClaimed /\ CapKept /\ OwnersLeft /\ WipedClean
    /\ Tickets /\ SentOnce /\ Counted /\ Alone

-----------------------------------------------------------------------------
(* One coroutine takes a step *)

Become(c, r) == co' = [co EXCEPT ![c] = r]
Only(c) == \A d \in Coros \ {c} : co'[d] = co[d]

LEMMA Became ==
  ASSUME Typed, NEW c \in Coros, NEW r, Become(c, r)
  PROVE  co'[c] = r /\ Only(c)
  BY DEF Typed, Become, Only

LEMMA BecomeTyped ==
  ASSUME Typed, NEW c \in Coros, NEW r \in Frames, Shape(r), Belongs(r), Become(c, r),
         backend' = backend
  PROVE  /\ co' \in [Coros -> Frames] /\ \A d \in Coros : co'[d] \in Frames /\ Shape(co'[d])
         /\ \A d \in Coros : Belongs(co[d])'
  BY DEF Typed, Become, Belongs

LEMMA IdleTyped == Idle \in Frames /\ Shape(Idle) /\ Belongs(Idle)
  BY RolesAssumption DEF Idle, Frames, Shape, Belongs, DelSteps, SendSteps, JoinSteps

LEMMA TypedKept ==
  ASSUME Typed, NEW c \in Coros, NEW r \in Frames, Shape(r), Belongs(r), Become(c, r),
         UNCHANGED <<backend, born, orgs, slug, members, role, admitted, owned, invites, count, ttl>>
  PROVE  Typed'
  <1>1. /\ co' \in [Coros -> Frames] /\ \A d \in Coros : co'[d] \in Frames /\ Shape(co'[d])
        /\ \A d \in Coros : Belongs(co[d])'
    BY BecomeTyped
  <1>2. TypeOK'
    BY <1>1 DEF Typed, TypeOK
  <1>3. QED
    BY <1>1, <1>2 DEF Typed

(* What a step of a coroutine from q to r leaves as it was, in each part of   *)
(* the invariant.                                                             *)
CalmNames(q, r) ==
    /\ Creating(r) => Creating(q) /\ r.org = q.org
    /\ \A o \in Orgs : Refers(r, o) => Refers(q, o) \/ slug[o] # Nothing
CalmClaims(q, r) == r.pc = "put" => q.pc = "put" /\ r.text = q.text /\ r.org = q.org
CalmCap(q, r) == \A o \in Orgs : Adding(r, o) => Adding(q, o)
Deletes(f, o) == f.op = "delete" /\ f.org = o /\ f.pc # "delmembers"
CalmOwners(q, r) == \A o \in Orgs : Applying(r, o) => r = q
CalmWipes(q, r) ==
    \A o \in Orgs : /\ Writing(r, o) => Writing(q, o)
                    /\ Wiping(r, o) => Wiping(q, o) /\ r.pc = q.pc /\ r.list = q.list
CalmTickets(q, r) == \A i \in Invs : /\ Holding(r, i) => Holding(q, i)
                                     /\ Joining(r, i) => Joining(q, i)
CalmSends(q, r) == \A o \in Orgs : Sending(r, o) => Sending(q, o) /\ r.text = q.text
CalmCount(q, r) == q.pc = "expire" => r.pc = "expire" /\ r.org = q.org

LEMMA NamesKept ==
  ASSUME NamedFirst, NEW c \in Coros, Only(c), CalmNames(co[c], co'[c]),
         UNCHANGED slug, born \subseteq born',
         \A o \in Orgs : slug[o] = Nothing =>
             o \notin orgs' /\ o \notin owned' /\ members'[o] = {} /\ PendingOf(o)' = {}
  PROVE  NamedFirst'
  <1>1. \A d \in Coros : CalmNames(co[d], co'[d])
    BY DEF Only, CalmNames
  <1>2. \A o \in Orgs : slug'[o] = Nothing => Unnamed(o)'
    BY <1>1 DEF NamedFirst, Unnamed, CalmNames
  <1>3. \A d \in Coros : Creating(co'[d]) => Creating(co[d]) /\ co'[d].org = co[d].org
    BY <1>1 DEF CalmNames
  <1>4. QED
    BY <1>2, <1>3 DEF NamedFirst

LEMMA ClaimsKept ==
  ASSUME SlugsClaimed, NEW c \in Coros, Only(c), CalmClaims(co[c], co'[c]),
         UNCHANGED <<backend, slug>>, orgs' \subseteq orgs, raced \subseteq raced'
  PROVE  SlugsClaimed'
  <1>1. \A d \in Coros : CalmClaims(co[d], co'[d])
    BY DEF Only, CalmClaims
  <1>2. ASSUME NEW s, NEW o, Claims(s, o)'
        PROVE  Claims(s, o)
    BY <1>1, <1>2 DEF Claims, CalmClaims
  <1>3. \A s : Raced("slug", s) => Raced("slug", s)'
    BY DEF Raced
  <1>4. QED
    BY <1>2, <1>3 DEF SlugsClaimed

LEMMA AddersFinite ==
  ASSUME NEW o
  PROVE  IsFiniteSet(Adders(o)) /\ Cardinality(Adders(o)) \in Nat
         /\ Cardinality(Adders(o)) <= Cardinality(Coros) /\ Cardinality(Coros) \in Nat
         /\ Cardinality(Coros) > 0
  <1>1. Adders(o) \subseteq Coros
    BY DEF Adders
  <1>2. IsFiniteSet(Coros) /\ Coros # {}
    BY BoundsAssumption
  <1>3. IsFiniteSet(Adders(o)) /\ Cardinality(Adders(o)) <= Cardinality(Coros)
    BY <1>1, <1>2, FS_Subset
  <1>4. Cardinality(Coros) # 0
    BY <1>2, FS_EmptySet
  <1>5. QED
    BY <1>2, <1>3, <1>4, FS_CardinalityType

(* The members and those who will be: one number that goes down or stays. *)
LEMMA CapSums ==
  ASSUME CapKept, NEW o \in Orgs, raced \subseteq raced',
         IsFiniteSet(members'[o]), NEW A, A = Adders(o)', IsFiniteSet(A),
         Cardinality(members'[o]) + Cardinality(A) <= Cardinality(members[o]) + Cardinality(Adders(o))
  PROVE  /\ Cardinality(members'[o]) + Cardinality(A) < MaxMembers + Cardinality(Coros)
         /\ ~Raced("cap", o)' => Cardinality(members'[o]) + Cardinality(A) <= MaxMembers
  <1>1. /\ Cardinality(members'[o]) \in Nat /\ Cardinality(A) \in Nat
        /\ Cardinality(members[o]) \in Nat /\ Cardinality(Adders(o)) \in Nat
        /\ Cardinality(Coros) \in Nat /\ MaxMembers \in Nat
    BY FS_CardinalityType, AddersFinite, BoundsAssumption DEF CapKept
  <1>2. /\ Cardinality(members[o]) + Cardinality(Adders(o)) < MaxMembers + Cardinality(Coros)
        /\ ~Raced("cap", o) => Cardinality(members[o]) + Cardinality(Adders(o)) <= MaxMembers
    BY DEF CapKept
  <1>3. ~Raced("cap", o)' => ~Raced("cap", o)
    BY DEF Raced
  <1>4. QED
    BY <1>1, <1>2, <1>3

LEMMA CapLess ==
  ASSUME CapKept, NEW c \in Coros, Only(c), NEW o \in Orgs, Adding(co'[c], o) => Adding(co[c], o),
         members'[o] \subseteq members[o], raced \subseteq raced'
  PROVE  /\ IsFiniteSet(members'[o])
         /\ Cardinality(members'[o]) + Cardinality(Adders(o)') < MaxMembers + Cardinality(Coros)
         /\ ~Raced("cap", o)' => Cardinality(members'[o]) + Cardinality(Adders(o)') <= MaxMembers
  <1>1. Adders(o)' \subseteq Adders(o)
    BY DEF Adders, Only
  <1>2. PICK A : A = Adders(o)'
    OBVIOUS
  <1>3. IsFiniteSet(A) /\ Cardinality(A) <= Cardinality(Adders(o))
    BY <1>1, <1>2, AddersFinite, FS_Subset
  <1>4. IsFiniteSet(members[o])
    BY DEF CapKept
  <1>5. IsFiniteSet(members'[o]) /\ Cardinality(members'[o]) <= Cardinality(members[o])
    BY <1>4, FS_Subset
  <1>6. Cardinality(members'[o]) + Cardinality(A) <= Cardinality(members[o]) + Cardinality(Adders(o))
    BY <1>3, <1>4, <1>5, FS_CardinalityType, AddersFinite
  <1>7. QED
    BY <1>2, <1>3, <1>5, <1>6, CapSums

LEMMA CapStays ==
  ASSUME CapKept, NEW c \in Coros, Only(c), CalmCap(co[c], co'[c]),
         \A o \in Orgs : members'[o] \subseteq members[o], raced \subseteq raced'
  PROVE  CapKept'
  <1>1. \A o \in Orgs :
          /\ IsFiniteSet(members'[o])
          /\ Cardinality(members'[o]) + Cardinality(Adders(o)') < MaxMembers + Cardinality(Coros)
          /\ ~Raced("cap", o)' => Cardinality(members'[o]) + Cardinality(Adders(o)') <= MaxMembers
    BY CapLess DEF CalmCap
  <1>2. QED
    BY <1>1 DEF CapKept

LEMMA SettledStays ==
  ASSUME NEW c \in Coros, Only(c), NEW o \in Orgs, orgs' \subseteq orgs, raced \subseteq raced',
         Deletes(co[c], o) => Deletes(co'[c], o) \/ o \notin orgs' \/ Raced("partial", o)',
         Settled(o)'
  PROVE  Settled(o)
  <1>1. ASSUME NEW d \in Coros, Deletes(co[d], o)
        PROVE  o \notin orgs' \/ Raced("partial", o)' \/ BeingDeleted(o)'
    BY <1>1 DEF Only, Deletes, BeingDeleted, At
  <1>2. BeingDeleted(o) => \E d \in Coros : Deletes(co[d], o)
    BY DEF BeingDeleted, At, Deletes
  <1>3. QED
    BY <1>1, <1>2 DEF Settled, Raced

LEMMA OwnersStay ==
  ASSUME OwnersLeft, NEW c \in Coros, Only(c), CalmOwners(co[c], co'[c]),
         orgs' \subseteq orgs, raced \subseteq raced', owned' = owned,
         \A o \in Orgs : Deletes(co[c], o) =>
             Deletes(co'[c], o) \/ o \notin orgs' \/ Raced("partial", o)',
         \A o \in Orgs : Settled(o)' => members'[o] = members[o] /\ role'[o] = role[o]
  PROVE  OwnersLeft'
  <1>1. \A d \in Coros, o \in Orgs : Applying(co'[d], o) => co'[d] = co[d]
    BY DEF Only, CalmOwners
  <1>2. \A o \in Orgs : Settled(o)' => Settled(o) /\ members'[o] = members[o] /\ Owners(o)' = Owners(o)
    BY SettledStays DEF Owners
  <1>3. \A o \in Orgs : ~Raced("owner", o)' => ~Raced("owner", o)
    BY DEF Raced
  <1>4. QED
    BY <1>1, <1>2, <1>3 DEF OwnersLeft

LEMMA WipesStay ==
  ASSUME WipedClean, NEW c \in Coros, Only(c), CalmWipes(co[c], co'[c]),
         UNCHANGED orgs, raced \subseteq raced', invites' \subseteq invites,
         \A o \in Orgs : members'[o] \subseteq members[o],
         \A o \in Orgs : o \in born' \ born => members[o] = {} /\ PendingOf(o) = {}
  PROVE  WipedClean'
  <1>1. \A d \in Coros : CalmWipes(co[d], co'[d])
    BY DEF Only, CalmWipes
  <1>2. \A o \in Orgs : PendingOf(o)' \subseteq PendingOf(o) /\ (~Raced("cascade", o)' => ~Raced("cascade", o))
    BY DEF PendingOf, Raced
  <1>3. ASSUME NEW o \in Orgs, ~Raced("cascade", o)'
        PROVE  /\ \A d \in Coros : Writing(co'[d], o) => o \in orgs' /\ \A e \in Coros : ~Wiping(co'[e], o)
               /\ \A d \in Coros : Wiping(co'[d], o) => Wiped(co[d], o)'
               /\ o \in born' \ orgs' => members'[o] = {} /\ PendingOf(o)' = {}
    <2>1. \A d \in Coros : Wiping(co'[d], o) => Wiped(co[d], o)'
      BY <1>1, <1>2, <1>3 DEF WipedClean, CalmWipes, Wiped
    <2>2. QED
      BY <1>1, <1>2, <1>3, <2>1 DEF WipedClean, CalmWipes
  <1>4. QED
    BY <1>3 DEF WipedClean

LEMMA TicketsStay ==
  ASSUME Tickets, NEW c \in Coros, Only(c), CalmTickets(co[c], co'[c]),
         UNCHANGED admitted, invites' \subseteq invites, invites \subseteq [id : Invs, org : Orgs, email : Emails, role : Roles],
         raced \subseteq raced'
  PROVE  Tickets'
  <1>1. \A d \in Coros : CalmTickets(co[d], co'[d])
    BY DEF Only, CalmTickets
  <1>2. \A i \in Invs : ~Raced("token", i)' => ~Raced("token", i)
    BY DEF Raced
  <1>3. \A x \in invites' : x.id \in Invs
    OBVIOUS
  <1>4. QED
    BY <1>1, <1>2, <1>3 DEF Tickets, CalmTickets

LEMMA SendsStay ==
  ASSUME SentOnce, NEW c \in Coros, Only(c), CalmSends(co[c], co'[c]),
         invites' \subseteq invites, raced \subseteq raced'
  PROVE  SentOnce'
  <1>1. \A d \in Coros : CalmSends(co[d], co'[d])
    BY DEF Only, CalmSends
  <1>2. \A o \in Orgs : PendingOf(o)' \subseteq PendingOf(o) /\ (~Raced("invite", o)' => ~Raced("invite", o))
    BY DEF PendingOf, Raced
  <1>3. QED
    BY <1>1, <1>2 DEF SentOnce, CalmSends

LEMMA CountStays ==
  ASSUME Counted, NEW c \in Coros, Only(c),
         CalmCount(co[c], co'[c]) \/ <<"counter", co[c].org>> \in raced',
         UNCHANGED <<count, ttl>>, raced \subseteq raced'
  PROVE  Counted'
  BY DEF Counted, Only, CalmCount, Raced

LEMMA AloneStays ==
  ASSUME Alone, backend' = backend,
         \A x \in raced' : x \in raced \/ backend # "memory" \/ x[1] \in {"counter", "invite"}
  PROVE  Alone'
  BY DEF Alone

-----------------------------------------------------------------------------
(* Steps that only move the coroutine *)

Calm(q, r) ==
    /\ CalmNames(q, r) /\ CalmClaims(q, r) /\ CalmCap(q, r) /\ CalmOwners(q, r) /\ CalmWipes(q, r)
    /\ CalmTickets(q, r) /\ CalmSends(q, r) /\ CalmCount(q, r)

stored == <<backend, born, orgs, slug, members, role, admitted, owned, invites>>
data == <<stored, count, ttl>>

LEMMA Here ==
  ASSUME IInv, NEW c \in Coros
  PROVE  Typed /\ co[c] \in Frames /\ Shape(co[c]) /\ Belongs(co[c]) /\ (At(c, "idle") => co[c] = Idle)
  BY DEF IInv, Typed, At, Shape

LEMMA NamesStay ==
  ASSUME NamedFirst, NEW c \in Coros, Only(c), CalmNames(co[c], co'[c]), UNCHANGED stored
  PROVE  NamedFirst'
  <1>1. \A o \in Orgs : slug[o] = Nothing =>
          o \notin orgs' /\ o \notin owned' /\ members'[o] = {} /\ PendingOf(o)' = {}
    BY DEF NamedFirst, Unnamed, stored, PendingOf
  <1>2. QED
    BY <1>1, NamesKept DEF stored

(* Each part of the invariant that the step leaves alone. *)
LEMMA Stays ==
  ASSUME IInv, NEW c \in Coros, NEW r \in Frames, Shape(r), Belongs(r), Become(c, r),
         UNCHANGED stored, raced \subseteq raced',
         \A o \in Orgs : Deletes(co[c], o) => Deletes(r, o) \/ o \notin orgs,
         \A x \in raced' : x \in raced \/ backend # "memory" \/ x[1] \in {"counter", "invite"}
  PROVE  /\ UNCHANGED <<count, ttl>> => Typed'
         /\ Alone' /\ co'[c] = r /\ Only(c)
         /\ CalmNames(co[c], r) => NamedFirst'
         /\ CalmClaims(co[c], r) => SlugsClaimed'
         /\ CalmCap(co[c], r) => CapKept'
         /\ CalmOwners(co[c], r) => OwnersLeft'
         /\ CalmWipes(co[c], r) => WipedClean'
         /\ CalmTickets(co[c], r) => Tickets'
         /\ CalmSends(co[c], r) => SentOnce'
         /\ UNCHANGED <<count, ttl>> /\ CalmCount(co[c], r) => Counted'
  <1>1. co'[c] = r /\ Only(c) /\ Typed
    BY Became DEF IInv
  <1>2. UNCHANGED <<count, ttl>> => Typed'
    BY <1>1, TypedKept DEF stored
  <1>3. CalmNames(co[c], r) => NamedFirst'
    BY <1>1, NamesStay DEF IInv
  <1>4. CalmClaims(co[c], r) => SlugsClaimed'
    BY <1>1, ClaimsKept DEF IInv, stored
  <1>5. CalmCap(co[c], r) => CapKept'
    BY <1>1, CapStays DEF IInv, stored
  <1>6. CalmOwners(co[c], r) => OwnersLeft'
    BY <1>1, OwnersStay DEF IInv, stored
  <1>7. CalmWipes(co[c], r) => WipedClean'
    BY <1>1, WipesStay DEF IInv, stored
  <1>8. CalmTickets(co[c], r) => Tickets'
    BY <1>1, TicketsStay DEF IInv, stored, Typed, TypeOK
  <1>9. CalmSends(co[c], r) => SentOnce'
    BY <1>1, SendsStay DEF IInv, stored
  <1>10. UNCHANGED <<count, ttl>> /\ CalmCount(co[c], r) => Counted'
    BY <1>1, CountStays DEF IInv, stored
  <1>11. Alone'
    BY AloneStays DEF IInv, stored
  <1>12. QED
    BY <1>1, <1>2, <1>3, <1>4, <1>5, <1>6, <1>7, <1>8, <1>9, <1>10, <1>11

LEMMA QuietStep ==
  ASSUME IInv, NEW c \in Coros, NEW r \in Frames, Shape(r), Belongs(r), Become(c, r),
         UNCHANGED data, raced \subseteq raced', Calm(co[c], r),
         \A o \in Orgs : Deletes(co[c], o) => Deletes(r, o) \/ o \notin orgs,
         \A x \in raced' : x \in raced \/ backend # "memory" \/ x[1] \in {"counter", "invite"}
  PROVE  IInv'
  BY Stays DEF Calm, IInv, data

(* A flow ends before it has written anything, or after. *)
LEMMA CalmIdle ==
  ASSUME NEW q, q.pc # "expire"
  PROVE  Calm(q, Idle)
  BY DEF Calm, CalmNames, CalmClaims, CalmCap, CalmOwners, CalmWipes, CalmTickets, CalmSends,
         CalmCount, Idle, Creating, Refers, Adding, Applying, Writing, Wiping, Holding, Joining,
         Sending, DelSteps, SendSteps, JoinSteps

LEMMA ReturnInv ==
  ASSUME IInv, NEW c \in Coros, Become(c, Idle), UNCHANGED data, raced \subseteq raced',
         co[c].pc # "expire", co[c].op # "delete" \/ co[c].pc = "delmembers" \/ co[c].org \notin orgs,
         \A x \in raced' : x \in raced \/ backend # "memory" \/ x[1] \in {"counter", "invite"}
  PROVE  IInv'
  <1>1. \A o \in Orgs : Deletes(co[c], o) => Deletes(Idle, o) \/ o \notin orgs
    BY DEF Deletes
  <1>2. QED
    BY <1>1, IdleTyped, CalmIdle, QuietStep

(* A flow starts. *)
LEMMA StartInv ==
  ASSUME IInv, NEW c \in Coros, NEW f \in Frames, Start(c, f), Shape(f),
         f.pc \in {"name", "org", "members", "token", "purge", "delmembers"}, ~Creating(f),
         f.pc = "token" \/ f.org \in Known, f.op = "accept" => f.pc = "token"
  PROVE  IInv'
  <1>1. At(c, "idle") /\ Become(c, f) /\ UNCHANGED data /\ raced' = raced
    BY DEF Start, Become, data, stored, orgRows, memberRows, invitation, cacheKeys
  <1>2. co[c] = Idle
    BY <1>1, Here
  <1>3. Belongs(f)
    BY DEF Belongs
  <1>4. \A o \in Orgs : Refers(f, o) => slug[o] # Nothing
    BY DEF Refers, Known
  <1>5. Calm(co[c], f)
    BY <1>2, <1>4 DEF Calm, CalmNames, CalmClaims, CalmCap, CalmOwners, CalmWipes, CalmTickets,
         CalmSends, CalmCount, Idle, Creating, Adding, Applying, Writing, Wiping, Holding, Joining,
         Sending, DelSteps, SendSteps, JoinSteps
  <1>6. \A o \in Orgs : ~Deletes(co[c], o)
    BY <1>2 DEF Idle, Deletes
  <1>7. QED
    BY <1>1, <1>3, <1>5, <1>6, QuietStep

LEMMA RequestsInv ==
  ASSUME IInv, NEW c \in Coros, Requests(c), ~CreateOrganization(c)
  PROVE  IInv'
  <1>1. /\ Known \subseteq Orgs /\ invites \subseteq [id : Invs, org : Orgs, email : Emails, role : Roles]
        /\ "member" \in Roles
    BY RolesAssumption DEF Known, IInv, Typed, TypeOK
  <1>. USE DEF Idle, Frames, Shape, Creating, DelSteps, SendSteps, JoinSteps
  <1>2. CASE UpdateOrganization(c)
    <2>1. PICK o \in Known, s \in Slugs :
            Start(c, [Idle EXCEPT !.op = "rename", !.pc = "name", !.org = o, !.text = s])
      BY <1>2 DEF UpdateOrganization
    <2>. DEFINE f == [Idle EXCEPT !.op = "rename", !.pc = "name", !.org = o, !.text = s]
    <2>2. f \in Frames /\ f.op = "rename" /\ f.pc = "name" /\ f.org = o /\ f.text = s
      BY <1>1
    <2>3. Start(c, f)
      BY <2>1
    <2>. HIDE DEF f
    <2>4. Shape(f)
      BY <1>1, <2>2
    <2>5. QED
      BY <2>2, <2>3, <2>4, StartInv
  <1>3. CASE AddMember(c)
    <2>1. PICK o \in Known, u \in Users, x \in Roles :
            Start(c, [Idle EXCEPT !.op = "add", !.pc = "org", !.org = o, !.user = u, !.role = x])
      BY <1>3 DEF AddMember
    <2>. DEFINE f == [Idle EXCEPT !.op = "add", !.pc = "org", !.org = o, !.user = u, !.role = x]
    <2>2. f \in Frames /\ f.op = "add" /\ f.pc = "org" /\ f.org = o /\ f.user = u
      BY <1>1
    <2>3. Start(c, f)
      BY <2>1
    <2>. HIDE DEF f
    <2>4. Shape(f)
      BY <1>1, <2>2
    <2>5. QED
      BY <2>2, <2>3, <2>4, StartInv
  <1>4. CASE RemoveMember(c)
    <2>1. PICK o \in Known, u \in Users :
            Start(c, [Idle EXCEPT !.op = "remove", !.pc = "members", !.org = o, !.user = u])
      BY <1>4 DEF RemoveMember
    <2>. DEFINE f == [Idle EXCEPT !.op = "remove", !.pc = "members", !.org = o, !.user = u]
    <2>2. f \in Frames /\ f.op = "remove" /\ f.pc = "members" /\ f.org = o /\ f.user = u
      BY <1>1
    <2>3. Start(c, f)
      BY <2>1
    <2>. HIDE DEF f
    <2>4. Shape(f)
      BY <1>1, <2>2
    <2>5. QED
      BY <2>2, <2>3, <2>4, StartInv
  <1>5. CASE UpdateMemberRole(c)
    <2>1. PICK o \in Known, u \in Users, x \in Roles :
            Start(c, [Idle EXCEPT !.op = "role", !.pc = "members", !.org = o, !.user = u, !.role = x])
      BY <1>5 DEF UpdateMemberRole
    <2>. DEFINE f == [Idle EXCEPT !.op = "role", !.pc = "members", !.org = o, !.user = u, !.role = x]
    <2>2. f \in Frames /\ f.op = "role" /\ f.pc = "members" /\ f.org = o /\ f.user = u
      BY <1>1
    <2>3. Start(c, f)
      BY <2>1
    <2>. HIDE DEF f
    <2>4. Shape(f)
      BY <1>1, <2>2
    <2>5. QED
      BY <2>2, <2>3, <2>4, StartInv
  <1>6. CASE SendInvitation(c)
    <2>1. PICK o \in Known, e \in Emails, x \in Roles :
            Start(c, [Idle EXCEPT !.op = "invite", !.pc = "org", !.org = o, !.text = e, !.role = x])
      BY <1>6 DEF SendInvitation
    <2>. DEFINE f == [Idle EXCEPT !.op = "invite", !.pc = "org", !.org = o, !.text = e, !.role = x]
    <2>2. f \in Frames /\ f.op = "invite" /\ f.pc = "org" /\ f.org = o /\ f.text = e
      BY <1>1
    <2>3. Start(c, f)
      BY <2>1
    <2>. HIDE DEF f
    <2>4. Shape(f)
      BY <1>1, <2>2
    <2>5. QED
      BY <2>2, <2>3, <2>4, StartInv
  <1>7. CASE AcceptInvitation(c)
    <2>1. PICK i \in invites, u \in Users :
            Start(c, [Idle EXCEPT !.op = "accept", !.pc = "token", !.inv = i.id, !.user = u])
      BY <1>7 DEF AcceptInvitation
    <2>. DEFINE f == [Idle EXCEPT !.op = "accept", !.pc = "token", !.inv = i.id, !.user = u]
    <2>2. i.id \in Invs
      BY <1>1
    <2>3. f \in Frames /\ f.op = "accept" /\ f.pc = "token" /\ f.inv = i.id /\ f.user = u
      BY <1>1, <2>2
    <2>4. Start(c, f)
      BY <2>1
    <2>. HIDE DEF f
    <2>5. Shape(f)
      BY <1>1, <2>2, <2>3
    <2>6. QED
      BY <2>3, <2>4, <2>5, StartInv
  <1>8. CASE DeclineInvitation(c)
    <2>1. PICK i \in invites :
            Start(c, [Idle EXCEPT !.op = "decline", !.pc = "token", !.inv = i.id])
      BY <1>8 DEF DeclineInvitation
    <2>. DEFINE f == [Idle EXCEPT !.op = "decline", !.pc = "token", !.inv = i.id]
    <2>2. i.id \in Invs
      BY <1>1
    <2>3. f \in Frames /\ f.op = "decline" /\ f.pc = "token" /\ f.inv = i.id
      BY <1>1, <2>2
    <2>4. Start(c, f)
      BY <2>1
    <2>. HIDE DEF f
    <2>5. Shape(f)
      BY <1>1, <2>2, <2>3
    <2>6. QED
      BY <2>3, <2>4, <2>5, StartInv
  <1>9. CASE ListInvitations(c)
    <2>1. PICK o \in Known :
            Start(c, [Idle EXCEPT !.op = "list", !.pc = "purge", !.org = o, !.list = {"all"}])
      BY <1>9 DEF ListInvitations
    <2>. DEFINE f == [Idle EXCEPT !.op = "list", !.pc = "purge", !.org = o, !.list = {"all"}]
    <2>2. f \in Frames /\ f.op = "list" /\ f.pc = "purge" /\ f.org = o
      BY <1>1
    <2>3. Start(c, f)
      BY <2>1
    <2>. HIDE DEF f
    <2>4. Shape(f)
      BY <1>1, <2>2
    <2>5. QED
      BY <2>2, <2>3, <2>4, StartInv
  <1>10. CASE DeleteOrganization(c)
    <2>1. PICK o \in Known :
            Start(c, [Idle EXCEPT !.op = "delete", !.pc = "delmembers", !.org = o])
      BY <1>10 DEF DeleteOrganization
    <2>. DEFINE f == [Idle EXCEPT !.op = "delete", !.pc = "delmembers", !.org = o]
    <2>2. f \in Frames /\ f.op = "delete" /\ f.pc = "delmembers" /\ f.org = o
      BY <1>1
    <2>3. Start(c, f)
      BY <2>1
    <2>. HIDE DEF f
    <2>4. Shape(f)
      BY <1>1, <2>2
    <2>5. QED
      BY <2>2, <2>3, <2>4, StartInv
  <1>11. QED
    BY <1>2, <1>3, <1>4, <1>5, <1>6, <1>7, <1>8, <1>9, <1>10 DEF Requests

-----------------------------------------------------------------------------
(* Steps that read *)

With(f, pc) == [f EXCEPT !.pc = pc]
Steps == {"idle", "slug", "name", "put", "org", "count", "add", "insert", "members", "apply",
          "pending", "incr", "expire", "create", "insertinv", "token", "user", "consume",
          "purge", "delmembers", "dropmembers", "delinvites", "dropinvites", "delorg", "commit"}

LEMMA MovedTo ==
  ASSUME NEW f \in Frames, NEW pc \in Steps
  PROVE  /\ With(f, pc) \in Frames /\ With(f, pc).pc = pc
         /\ With(f, pc).op = f.op /\ With(f, pc).org = f.org /\ With(f, pc).user = f.user
         /\ With(f, pc).role = f.role /\ With(f, pc).text = f.text /\ With(f, pc).inv = f.inv
         /\ With(f, pc).list = f.list
  BY DEF With, Frames, Steps

LEMMA Going ==
  ASSUME NEW c, NEW pc, Goto(c, pc)
  PROVE  Become(c, With(co[c], pc))
  BY DEF Goto, Become, With

LEMMA Returning ==
  ASSUME NEW c, NEW x, Return(c, x)
  PROVE  Become(c, Idle)
  BY DEF Return, Become

(* Where the coroutine alone moves, from one step of its flow to the next. *)
Reads(pc, next) ==
    \/ pc = "slug" /\ next = "name"
    \/ pc = "org" /\ next \in {"count", "pending"}
    \/ pc = "user" /\ next = "consume"
    \/ pc = "purge" /\ next = "purge"

LEMMA ReadInv ==
  ASSUME IInv, NEW c \in Coros, NEW r \in Frames, Shape(r), Become(c, r), UNCHANGED data,
         raced' = raced, Reads(co[c].pc, r.pc), r.op = co[c].op, r.org = co[c].org, r.inv = co[c].inv
  PROVE  IInv'
  <1>1. Belongs(r)
    BY DEF Belongs, Reads
  <1>2. Shape(co[c])
    BY Here
  <1>3. Calm(co[c], r)
    BY <1>2 DEF Calm, CalmNames, CalmClaims, CalmCap, CalmOwners, CalmWipes, CalmTickets, CalmSends,
         CalmCount, Creating, Refers, Adding, Applying, Writing, Wiping, Holding, Joining, Sending,
         DelSteps, SendSteps, JoinSteps, Reads, Shape
  <1>4. \A o \in Orgs : ~Deletes(co[c], o)
    BY <1>2 DEF Deletes, Shape, Reads, DelSteps
  <1>5. QED
    BY <1>1, <1>3, <1>4, QuietStep

LEMMA PlainInv ==
  ASSUME IInv, NEW c \in Coros,
         PickSlug(c) \/ ReadOrg(c) \/ CheckUser(c) \/ ReadPending(c) \/ SqlInvite(c)
  PROVE  IInv'
  <1>1. UNCHANGED data /\ raced' = raced
    BY DEF PickSlug, ReadOrg, CheckUser, ReadPending, SqlInvite, data, stored, orgRows, memberRows,
           invitation, cacheKeys
  <1>2. co[c] \in Frames /\ Shape(co[c])
    BY Here
  <1>3. CASE Become(c, Idle)
    BY <1>1, <1>2, <1>3, ReturnInv
         DEF PickSlug, ReadOrg, CheckUser, ReadPending, SqlInvite, At, Shape, DelSteps
  <1>4. CASE PickSlug(c)
    <2>. DEFINE t == IF Named(co[c].text) = {} THEN co[c].text ELSE Suffix[co[c].org]
                r == [co[c] EXCEPT !.pc = "name", !.text = t]
    <2>1. Become(c, r) /\ co[c].pc = "slug"
      BY <1>4 DEF PickSlug, Become, At
    <2>2. t \in Slugs \cup {Suffix[o] : o \in Orgs}
      BY <1>2, <2>1 DEF Shape
    <2>. HIDE DEF t
    <2>3. /\ r \in Frames /\ r.pc = "name" /\ r.op = co[c].op /\ r.org = co[c].org /\ r.text = t
          /\ r.user = co[c].user /\ r.role = co[c].role /\ r.inv = co[c].inv
      BY <1>2, <2>2, ZenonT(30) DEF Frames
    <2>. HIDE DEF r
    <2>4. Shape(r)
      BY <1>2, <2>1, <2>2, <2>3 DEF Shape, DelSteps, SendSteps, JoinSteps
    <2>5. QED
      BY <1>1, <2>1, <2>3, <2>4, ReadInv DEF Reads
  <1>5. CASE ReadOrg(c)
    <2>. DEFINE pc == IF co[c].op = "invite" THEN "pending" ELSE "count"
    <2>1. CASE Goto(c, pc)
      <3>1. co[c].pc = "org" /\ pc \in {"count", "pending"} /\ (pc = "pending" <=> co[c].op = "invite")
        BY <1>5 DEF ReadOrg, At
      <3>. HIDE DEF pc
      <3>2. Become(c, With(co[c], pc))
        BY <2>1, Going
      <3>3. PICK r : r = With(co[c], pc)
        OBVIOUS
      <3>4. pc \in Steps
        BY <3>1 DEF Steps
      <3>5. /\ r \in Frames /\ r.pc = pc /\ r.op = co[c].op /\ r.org = co[c].org /\ r.text = co[c].text
            /\ r.user = co[c].user /\ r.role = co[c].role /\ r.inv = co[c].inv
        BY <1>2, <3>3, <3>4, MovedTo
      <3>6. Shape(r)
        BY <1>2, <3>1, <3>5 DEF Shape, DelSteps, SendSteps, JoinSteps
      <3>7. QED
        BY <1>1, <3>1, <3>2, <3>3, <3>5, <3>6, ReadInv DEF Reads
    <2>2. QED
      BY <1>3, <1>5, <2>1, Returning DEF ReadOrg
  <1>6. CASE CheckUser(c)
    <2>1. CASE Goto(c, "consume")
      <3>1. co[c].pc = "user" /\ Become(c, With(co[c], "consume"))
        BY <1>6, <2>1, Going DEF CheckUser, At
      <3>2. PICK r : r = With(co[c], "consume")
        OBVIOUS
      <3>3. /\ r \in Frames /\ r.pc = "consume" /\ r.op = co[c].op /\ r.org = co[c].org
            /\ r.text = co[c].text /\ r.user = co[c].user /\ r.role = co[c].role /\ r.inv = co[c].inv
        BY <1>2, <3>2, MovedTo DEF Steps
      <3>4. Shape(r)
        BY <1>2, <3>1, <3>3 DEF Shape, DelSteps, SendSteps, JoinSteps
      <3>5. QED
        BY <1>1, <3>1, <3>2, <3>3, <3>4, ReadInv DEF Reads
    <2>2. QED
      BY <1>3, <1>6, <2>1, Returning DEF CheckUser
  <1>7. CASE ReadPending(c)
    <2>. DEFINE l == {i.id : i \in PendingOf(co[c].org)}
                r == [co[c] EXCEPT !.list = l]
    <2>1. CASE co' = [co EXCEPT ![c].list = l]
      <3>1. Become(c, r) /\ co[c].pc = "purge"
        BY <1>7, <2>1 DEF ReadPending, Become, At
      <3>2. l \subseteq Invs
        BY DEF PendingOf, IInv, Typed, TypeOK
      <3>. HIDE DEF l
      <3>3. /\ r \in Frames /\ r.pc = "purge" /\ r.op = co[c].op /\ r.org = co[c].org /\ r.text = co[c].text
            /\ r.user = co[c].user /\ r.role = co[c].role /\ r.inv = co[c].inv
        BY <1>2, <3>1, <3>2 DEF Frames
      <3>. HIDE DEF r
      <3>4. Shape(r)
        BY <1>2, <3>1, <3>3 DEF Shape, DelSteps, SendSteps, JoinSteps
      <3>5. QED
        BY <1>1, <3>1, <3>3, <3>4, ReadInv DEF Reads
    <2>2. QED
      BY <1>3, <1>7, <2>1, Returning DEF ReadPending
  <1>8. CASE SqlInvite(c)
    <2>1. Become(c, Idle)
      BY <1>8, Returning DEF SqlInvite
    <2>2. QED
      BY <1>3, <2>1
  <1>9. QED
    BY <1>4, <1>5, <1>6, <1>7, <1>8

-----------------------------------------------------------------------------
(* Steps that decide on what they read, and mark an overlap *)

(* Over the in-memory adapter nobody else is between two calls of it. *)
LEMMA OthersNone ==
  ASSUME NEW c \in Coros, Turn(c), NEW S, S \cap {"idle", "incr", "expire"} = {}, backend = "memory"
  PROVE  Others(c, S) = {}
  BY DEF Turn, Others

(* The mark of an overlap of the kind k on the thing x, with the coroutines D. *)
LEMMA Marked ==
  ASSUME NEW k, NEW x, NEW D, Overlap(k, x, D)
  PROVE  /\ raced \subseteq raced' /\ (~Raced(k, x)' => D = {} /\ ~Raced(k, x))
         /\ \A y \in raced' : y \in raced \/ (y = <<k, x>> /\ D # {})
         /\ \A z : (z # x => (Raced(k, z)' <=> Raced(k, z)))
  BY DEF Overlap, Raced

(* A step that is decided and marked: the overlap counts only between the     *)
(* calls of an adapter that yields, or of the cache.                          *)
LEMMA MarkedAlone ==
  ASSUME NEW k, NEW x, NEW D, Overlap(k, x, D), backend = "memory" => D = {} \/ k = "invite"
  PROVE  /\ raced \subseteq raced'
         /\ \A y \in raced' : y \in raced \/ backend # "memory" \/ y[1] \in {"counter", "invite"}
  BY DEF Overlap

LEMMA CapType ==
  ASSUME CapKept, NEW o \in Orgs
  PROVE  Cardinality(members[o]) \in Nat /\ MaxMembers \in Nat
  BY FS_CardinalityType, BoundsAssumption DEF CapKept

LEMMA CountMembersInv ==
  ASSUME IInv, NEW c \in Coros, Turn(c), CountMembers(c)
  PROVE  IInv'
  <1>1. co[c] \in Frames /\ Shape(co[c]) /\ co[c].pc = "count" /\ UNCHANGED data
    BY Here DEF CountMembers, At, data, stored, orgRows, memberRows, invitation, cacheKeys
  <1>2. PICK o \in Orgs : o = co[c].org
    BY <1>1 DEF Shape
  <1>. DEFINE S == {"slug", "name", "put", "add", "insert"}
              D == Others(c, S)
  <1>3. Overlap("cap", o, D) /\ (backend = "memory" => D = {})
    BY <1>2, OthersNone DEF CountMembers
  <1>4. \A d \in Coros \ {c} : co[d].org = o /\ co[d].pc \in S => d \in D
    BY <1>2 DEF Others
  <1>. HIDE DEF D
  <1>5. /\ raced \subseteq raced' /\ (~Raced("cap", o)' => D = {})
        /\ \A p : p # o => (Raced("cap", p)' <=> Raced("cap", p))
        /\ \A y \in raced' : y \in raced \/ backend # "memory" \/ y[1] \in {"counter", "invite"}
    BY <1>3, Marked, MarkedAlone
  <1>6. CASE Become(c, Idle)
    BY <1>1, <1>5, <1>6, ReturnInv DEF Shape, DelSteps, JoinSteps
  <1>7. CASE Cardinality(members[o]) < MaxMembers /\ Goto(c, "add")
    <2>1. PICK r : r = With(co[c], "add") /\ Become(c, r)
      BY <1>7, Going
    <2>2. /\ r \in Frames /\ r.pc = "add" /\ r.op = co[c].op /\ r.org = co[c].org /\ r.text = co[c].text
          /\ r.user = co[c].user /\ r.role = co[c].role /\ r.inv = co[c].inv
      BY <1>1, <2>1, MovedTo DEF Steps
    <2>3. Shape(r) /\ Belongs(r)
      BY <1>1, <2>2 DEF Shape, Belongs, DelSteps, SendSteps, JoinSteps
    <2>4. /\ CalmNames(co[c], r) /\ CalmClaims(co[c], r) /\ CalmOwners(co[c], r) /\ CalmWipes(co[c], r)
          /\ CalmTickets(co[c], r) /\ CalmSends(co[c], r) /\ CalmCount(co[c], r)
      BY <1>1, <2>2 DEF CalmNames, CalmClaims, CalmOwners, CalmWipes, CalmTickets, CalmSends,
         CalmCount, Creating, Refers, Applying, Writing, Wiping, Holding, Joining, Sending, DelSteps,
         SendSteps, JoinSteps
    <2>5. \A p \in Orgs : ~Deletes(co[c], p)
      BY <1>1 DEF Deletes, Shape, DelSteps
    <2>6. /\ Typed' /\ NamedFirst' /\ SlugsClaimed' /\ OwnersLeft' /\ WipedClean' /\ Tickets'
          /\ SentOnce' /\ Counted' /\ Alone' /\ co'[c] = r /\ Only(c)
      BY <1>1, <1>5, <2>1, <2>2, <2>3, <2>4, <2>5, Stays DEF data
    <2>7. CapKept'
      <3>1. CapKept /\ members' = members /\ members[o] \in SUBSET Users
        BY <1>1, <1>2 DEF IInv, data, stored, Typed, TypeOK
      <3>2. ASSUME NEW p \in Orgs, p # o
            PROVE  /\ IsFiniteSet(members'[p])
                   /\ Cardinality(members'[p]) + Cardinality(Adders(p)') < MaxMembers + Cardinality(Coros)
                   /\ ~Raced("cap", p)' =>
                        Cardinality(members'[p]) + Cardinality(Adders(p)') <= MaxMembers
        <4>1. ~Adding(co'[c], p)
          BY <1>2, <2>2, <2>6, <3>2 DEF Adding
        <4>2. QED
          BY <1>5, <2>6, <3>1, <4>1, CapLess
      <3>3. /\ IsFiniteSet(members[o]) /\ Cardinality(members[o]) \in Nat
            /\ Cardinality(members[o]) < MaxMembers /\ MaxMembers \in Nat
        BY <1>7, <3>1, FS_CardinalityType, BoundsAssumption DEF CapKept
      <3>4. PICK A : A = Adders(o)'
        OBVIOUS
      <3>5. /\ Cardinality(A) \in Nat /\ Cardinality(Coros) \in Nat
            /\ Cardinality(A) <= Cardinality(Coros)
        <4>1. A \subseteq Coros
          BY <3>4 DEF Adders
        <4>2. QED
          BY <4>1, BoundsAssumption, FS_Subset, FS_CardinalityType
      <3>6. D = {} => Cardinality(A) = 1
        <4>1. D = {} => A = {c}
          BY <1>2, <1>4, <2>2, <2>6, <3>4 DEF Adders, Adding, Only, Creating
        <4>2. Cardinality({c}) = 1
          BY FS_Singleton
        <4>3. QED
          BY <4>1, <4>2
      <3>7. /\ Cardinality(members[o]) + Cardinality(A) < MaxMembers + Cardinality(Coros)
            /\ ~Raced("cap", o)' => Cardinality(members[o]) + Cardinality(A) <= MaxMembers
        BY <1>5, <3>3, <3>5, <3>6
      <3>8. \A p \in Orgs :
              /\ IsFiniteSet(members'[p])
              /\ Cardinality(members'[p]) + Cardinality(Adders(p)') < MaxMembers + Cardinality(Coros)
              /\ ~Raced("cap", p)' => Cardinality(members'[p]) + Cardinality(Adders(p)') <= MaxMembers
        BY <3>1, <3>2, <3>3, <3>4, <3>7
      <3>9. QED
        BY <3>8 DEF CapKept
    <2>8. QED
      BY <2>6, <2>7 DEF IInv
  <1>8. QED
    BY <1>2, <1>6, <1>7, Returning, CapType DEF CountMembers, IInv

LEMMA ReadMembersInv ==
  ASSUME IInv, NEW c \in Coros, Turn(c), ReadMembers(c)
  PROVE  IInv'
  <1>1. co[c] \in Frames /\ Shape(co[c]) /\ co[c].pc = "members" /\ UNCHANGED data
    BY Here DEF ReadMembers, At, data, stored, orgRows, memberRows, invitation, cacheKeys
  <1>2. PICK o \in Orgs : o = co[c].org
    BY <1>1 DEF Shape
  <1>. DEFINE D == Others(c, {"apply"})
  <1>3. Overlap("owner", o, D) /\ (backend = "memory" => D = {})
    BY <1>2, OthersNone DEF ReadMembers
  <1>4. \A d \in Coros \ {c} : Applying(co[d], o) => d \in D
    BY <1>2 DEF Others, Applying
  <1>. HIDE DEF D
  <1>5. /\ raced \subseteq raced' /\ (~Raced("owner", o)' => D = {})
        /\ \A p : p # o => (Raced("owner", p)' <=> Raced("owner", p))
        /\ \A y \in raced' : y \in raced \/ backend # "memory" \/ y[1] \in {"counter", "invite"}
    BY <1>3, Marked, MarkedAlone
  <1>6. CASE Become(c, Idle)
    BY <1>1, <1>5, <1>6, ReturnInv DEF Shape, DelSteps
  <1>7. CASE co[c].user \in members[o] /\ ~(StepsDown(c) /\ LastOwner(o, co[c].user)) /\ Goto(c, "apply")
    <2>1. PICK r : r = With(co[c], "apply") /\ Become(c, r)
      BY <1>7, Going
    <2>2. /\ r \in Frames /\ r.pc = "apply" /\ r.op = co[c].op /\ r.org = co[c].org /\ r.text = co[c].text
          /\ r.user = co[c].user /\ r.role = co[c].role /\ r.inv = co[c].inv
      BY <1>1, <2>1, MovedTo DEF Steps
    <2>3. Shape(r) /\ Belongs(r)
      BY <1>1, <2>2 DEF Shape, Belongs, DelSteps, SendSteps, JoinSteps
    <2>4. /\ CalmNames(co[c], r) /\ CalmClaims(co[c], r) /\ CalmCap(co[c], r) /\ CalmWipes(co[c], r)
          /\ CalmTickets(co[c], r) /\ CalmSends(co[c], r) /\ CalmCount(co[c], r)
      BY <1>1, <2>2 DEF CalmNames, CalmClaims, CalmCap, CalmWipes, CalmTickets, CalmSends,
         CalmCount, Creating, Refers, Adding, Writing, Wiping, Holding, Joining, Sending, DelSteps,
         SendSteps, JoinSteps
    <2>5. \A p \in Orgs : ~Deletes(co[c], p)
      BY <1>1 DEF Deletes, Shape, DelSteps
    <2>6. /\ Typed' /\ NamedFirst' /\ SlugsClaimed' /\ CapKept' /\ WipedClean' /\ Tickets'
          /\ SentOnce' /\ Counted' /\ Alone' /\ co'[c] = r /\ Only(c)
      BY <1>1, <1>5, <2>1, <2>2, <2>3, <2>4, <2>5, Stays DEF data
    <2>7. OwnersLeft'
      <3>1. \A p \in Orgs : /\ Settled(p)' => Settled(p)
                            /\ Owners(p)' = Owners(p) /\ members'[p] = members[p]
        BY <1>1, <1>5, <2>5, <2>6, SettledStays DEF data, stored, Owners
      <3>2. \A p \in Orgs, d \in Coros : Applying(co'[d], p) =>
              (Applying(co[d], p) /\ co'[d] = co[d]) \/ (d = c /\ p = o)
        BY <1>2, <2>2, <2>6 DEF Only, Applying
      <3>3. ~Raced("owner", o)' => \A d \in Coros : Applying(co'[d], o) => d = c
        BY <1>4, <1>5, <2>6 DEF Only, Applying
      <3>4. co'[c].user \in members[o] /\ (Down(co'[c]) => Owners(o) # {co'[c].user})
        BY <1>7, <2>2, <2>6 DEF Down, StepsDown, LastOwner
      <3>5. \A p \in Orgs : ~Raced("owner", p)' => ~Raced("owner", p)
        BY <1>5 DEF Raced
      <3>6. \A p \in Orgs : ~Raced("owner", p)' =>
              \A d, e \in Coros : Applying(co'[d], p) /\ Applying(co'[e], p) => d = e
        BY <3>2, <3>3, <3>5 DEF IInv, OwnersLeft
      <3>7. \A p \in Orgs : Settled(p)' => \A d \in Coros : Applying(co'[d], p) =>
              co'[d].user \in members[p] /\ (Down(co'[d]) => Owners(p) # {co'[d].user})
        BY <3>1, <3>2, <3>4 DEF IInv, OwnersLeft
      <3>8. \A p \in Orgs : Settled(p)' /\ p \in owned => Owners(p) # {}
        BY <3>1 DEF IInv, OwnersLeft
      <3>9. owned' = owned
        BY <1>1 DEF data, stored
      <3>10. QED
        BY <3>1, <3>6, <3>7, <3>8, <3>9 DEF OwnersLeft
    <2>8. QED
      BY <2>6, <2>7 DEF IInv
  <1>8. QED
    BY <1>2, <1>6, <1>7, Returning DEF ReadMembers

LEMMA CheckPendingInv ==
  ASSUME IInv, NEW c \in Coros, Turn(c), CheckPending(c)
  PROVE  IInv'
  <1>1. co[c] \in Frames /\ Shape(co[c]) /\ co[c].pc = "pending" /\ UNCHANGED data
    BY Here DEF CheckPending, At, data, stored, orgRows, memberRows, invitation, cacheKeys
  <1>2. PICK o \in Orgs : o = co[c].org
    BY <1>1 DEF Shape
  <1>. DEFINE D == Others(c, {"incr", "expire", "create", "insertinv"})
  <1>3. Overlap("invite", o, D)
    BY <1>2 DEF CheckPending
  <1>4. \A d \in Coros \ {c} : Sending(co[d], o) => d \in D
    BY <1>2 DEF Others, Sending, SendSteps
  <1>. HIDE DEF D
  <1>5. /\ raced \subseteq raced' /\ (~Raced("invite", o)' => D = {})
        /\ \A p : p # o => (Raced("invite", p)' <=> Raced("invite", p))
        /\ \A y \in raced' : y \in raced \/ backend # "memory" \/ y[1] \in {"counter", "invite"}
    BY <1>3, Marked, MarkedAlone
  <1>6. CASE Become(c, Idle)
    BY <1>1, <1>5, <1>6, ReturnInv DEF Shape, DelSteps, SendSteps
  <1>7. CASE ~(\E i \in PendingOf(o) : i.email = co[c].text) /\ Goto(c, "incr")
    <2>1. PICK r : r = With(co[c], "incr") /\ Become(c, r)
      BY <1>7, Going
    <2>2. /\ r \in Frames /\ r.pc = "incr" /\ r.op = co[c].op /\ r.org = co[c].org /\ r.text = co[c].text
          /\ r.user = co[c].user /\ r.role = co[c].role /\ r.inv = co[c].inv
      BY <1>1, <2>1, MovedTo DEF Steps
    <2>3. Shape(r) /\ Belongs(r)
      BY <1>1, <2>2 DEF Shape, Belongs, DelSteps, SendSteps, JoinSteps
    <2>4. /\ CalmNames(co[c], r) /\ CalmClaims(co[c], r) /\ CalmCap(co[c], r) /\ CalmOwners(co[c], r)
          /\ CalmWipes(co[c], r) /\ CalmTickets(co[c], r) /\ CalmCount(co[c], r)
      BY <1>1, <2>2 DEF CalmNames, CalmClaims, CalmCap, CalmOwners, CalmWipes, CalmTickets,
         CalmCount, Creating, Refers, Adding, Applying, Writing, Wiping, Holding, Joining, DelSteps,
         SendSteps, JoinSteps
    <2>5. \A p \in Orgs : ~Deletes(co[c], p)
      BY <1>1 DEF Deletes, Shape, DelSteps
    <2>6. /\ Typed' /\ NamedFirst' /\ SlugsClaimed' /\ CapKept' /\ OwnersLeft' /\ WipedClean'
          /\ Tickets' /\ Counted' /\ Alone' /\ co'[c] = r /\ Only(c)
      BY <1>1, <1>5, <2>1, <2>2, <2>3, <2>4, <2>5, Stays DEF data
    <2>7. SentOnce'
      <3>1. \A p \in Orgs : PendingOf(p)' = PendingOf(p)
        BY <1>1 DEF data, stored, PendingOf
      <3>2. \A p \in Orgs, d \in Coros : Sending(co'[d], p) =>
              (Sending(co[d], p) /\ co'[d] = co[d]) \/ (d = c /\ p = o)
        BY <1>2, <2>2, <2>6 DEF Only, Sending
      <3>3. ~Raced("invite", o)' => \A d \in Coros : Sending(co'[d], o) => d = c
        BY <1>4, <1>5, <2>6 DEF Only, Sending
      <3>4. \A p \in Orgs : ~Raced("invite", p)' => ~Raced("invite", p)
        BY <1>5 DEF Raced
      <3>5. co'[c].text = co[c].text
        BY <2>2, <2>6
      <3>6. \A p \in Orgs : ~Raced("invite", p)' =>
              /\ \A d, e \in Coros : Sending(co'[d], p) /\ Sending(co'[e], p) => d = e
              /\ \A d \in Coros : Sending(co'[d], p) => \A i \in PendingOf(p) : i.email # co'[d].text
              /\ \A i, j \in PendingOf(p) : i.email = j.email => i = j
        BY <1>7, <3>2, <3>3, <3>4, <3>5 DEF IInv, SentOnce
      <3>7. QED
        BY <3>1, <3>6 DEF SentOnce
    <2>8. QED
      BY <2>6, <2>7 DEF IInv
  <1>8. QED
    BY <1>2, <1>6, <1>7, Returning DEF CheckPending

(* The adapter has found the organization and will write a row of it. *)
LEMMA CheckOrgInv ==
  ASSUME IInv, NEW c \in Coros, NEW next, CheckOrg(c, next),
         \/ co[c].pc = "add" /\ next = "insert" /\ backend # "memory"
         \/ co[c].pc = "create" /\ next = "insertinv" /\ backend \in {"mongodb", "dynamodb"}
  PROVE  IInv'
  <1>1. /\ co[c] \in Frames /\ Shape(co[c]) /\ co[c].pc \in {"add", "create"} /\ UNCHANGED data
        /\ backend # "memory"
    BY Here DEF CheckOrg, data, stored, orgRows, memberRows, invitation, cacheKeys
  <1>2. PICK o \in Orgs : o = co[c].org
    BY <1>1 DEF Shape
  <1>. DEFINE D == Deleting(c)
  <1>3. Overlap("cascade", o, D)
    BY <1>2 DEF CheckOrg
  <1>4. \A d \in Coros \ {c} : Wiping(co[d], o) => d \in D
    BY <1>2 DEF Others, Deleting, Wiping, DelSteps
  <1>. HIDE DEF D
  <1>5. /\ raced \subseteq raced' /\ (~Raced("cascade", o)' => D = {})
        /\ \A p : p # o => (Raced("cascade", p)' <=> Raced("cascade", p))
        /\ \A y \in raced' : y \in raced \/ backend # "memory" \/ y[1] \in {"counter", "invite"}
    BY <1>1, <1>3, Marked, MarkedAlone
  <1>6. CASE Become(c, Idle)
    BY <1>1, <1>5, <1>6, ReturnInv DEF Shape, DelSteps, SendSteps, JoinSteps
  <1>7. CASE o \in orgs /\ Goto(c, next)
    <2>1. PICK r : r = With(co[c], next) /\ Become(c, r)
      BY <1>7, Going
    <2>2. /\ r \in Frames /\ r.pc = next /\ r.op = co[c].op /\ r.org = co[c].org /\ r.text = co[c].text
          /\ r.user = co[c].user /\ r.role = co[c].role /\ r.inv = co[c].inv
      BY <1>1, <2>1, MovedTo DEF Steps
    <2>3. Shape(r) /\ Belongs(r)
      BY <1>1, <2>2 DEF Shape, Belongs, DelSteps, SendSteps, JoinSteps
    <2>4. /\ CalmNames(co[c], r) /\ CalmClaims(co[c], r) /\ CalmCap(co[c], r) /\ CalmOwners(co[c], r)
          /\ CalmTickets(co[c], r) /\ CalmSends(co[c], r) /\ CalmCount(co[c], r)
      BY <1>1, <2>2 DEF CalmNames, CalmClaims, CalmCap, CalmOwners, CalmTickets, CalmSends,
         CalmCount, Creating, Refers, Adding, Applying, Holding, Joining, Sending, DelSteps,
         SendSteps, JoinSteps
    <2>5. \A p \in Orgs : ~Deletes(co[c], p)
      BY <1>1 DEF Deletes, Shape, DelSteps
    <2>6. /\ Typed' /\ NamedFirst' /\ SlugsClaimed' /\ CapKept' /\ OwnersLeft' /\ Tickets'
          /\ SentOnce' /\ Counted' /\ Alone' /\ co'[c] = r /\ Only(c)
      BY <1>1, <1>5, <2>1, <2>2, <2>3, <2>4, <2>5, Stays DEF data
    <2>7. WipedClean'
      <3>1. \A p \in Orgs : PendingOf(p)' = PendingOf(p) /\ members'[p] = members[p]
        BY <1>1 DEF data, stored, PendingOf
      <3>2. \A p \in Orgs, d \in Coros : Wiping(co'[d], p) => d # c /\ Wiping(co[d], p) /\ co'[d] = co[d]
        BY <1>1, <2>2, <2>6 DEF Only, Wiping, DelSteps
      <3>3. ~Raced("cascade", o)' => \A d \in Coros : ~Wiping(co'[d], o)
        BY <1>4, <1>5, <3>2
      <3>4. \A p \in Orgs, d \in Coros : Writing(co'[d], p) => Writing(co[d], p) \/ p = o
        BY <1>2, <2>2, <2>6 DEF Only, Writing
      <3>5. \A p \in Orgs : ~Raced("cascade", p)' => ~Raced("cascade", p)
        BY <1>5 DEF Raced
      <3>6. ASSUME NEW p \in Orgs, ~Raced("cascade", p)'
            PROVE  /\ \A d \in Coros : Writing(co'[d], p) =>
                        p \in orgs /\ \A e \in Coros : ~Wiping(co'[e], p)
                   /\ \A d \in Coros : Wiping(co'[d], p) => Wiped(co[d], p)'
                   /\ p \in born \ orgs => members[p] = {} /\ PendingOf(p) = {}
        <4>1. \A d \in Coros : Wiping(co'[d], p) => Wiped(co[d], p)'
          BY <3>1, <3>2, <3>5, <3>6 DEF IInv, WipedClean, Wiped
        <4>2. QED
          BY <1>7, <3>2, <3>3, <3>4, <3>5, <3>6, <4>1 DEF IInv, WipedClean
      <3>7. UNCHANGED <<orgs, born>>
        BY <1>1 DEF data, stored
      <3>8. QED
        BY <3>1, <3>6, <3>7 DEF WipedClean
    <2>8. QED
      BY <2>6, <2>7 DEF IInv
  <1>8. QED
    BY <1>2, <1>6, <1>7, Returning DEF CheckOrg

LEMMA DynamoNameInv ==
  ASSUME IInv, NEW c \in Coros, DynamoName(c)
  PROVE  IInv'
  <1>1. /\ co[c] \in Frames /\ Shape(co[c]) /\ co[c].pc = "name" /\ UNCHANGED data
        /\ backend = "dynamodb"
    BY Here DEF DynamoName, At, data, stored, orgRows, memberRows, invitation, cacheKeys
  <1>2. PICK o \in Orgs : o = co[c].org
    BY <1>1 DEF Shape
  <1>9. PICK s : s = co[c].text
    OBVIOUS
  <1>. DEFINE D == {d \in Coros \ {c} : At(d, "put")}
  <1>3. Overlap("slug", s, D)
    BY <1>9 DEF DynamoName
  <1>4. \A d \in Coros \ {c} : co[d].pc = "put" => d \in D
    BY DEF At
  <1>. HIDE DEF D
  <1>5. /\ raced \subseteq raced' /\ (~Raced("slug", s)' => D = {})
        /\ \A y \in raced' : y \in raced \/ backend # "memory" \/ y[1] \in {"counter", "invite"}
    BY <1>1, <1>3, Marked, MarkedAlone
  <1>6. CASE Become(c, Idle)
    BY <1>1, <1>5, <1>6, ReturnInv DEF Shape, DelSteps
  <1>7. CASE ~SlugTaken(c) /\ Goto(c, "put")
    <2>1. PICK r : r = With(co[c], "put") /\ Become(c, r)
      BY <1>7, Going
    <2>2. /\ r \in Frames /\ r.pc = "put" /\ r.op = co[c].op /\ r.org = co[c].org /\ r.text = co[c].text
          /\ r.user = co[c].user /\ r.role = co[c].role /\ r.inv = co[c].inv
      BY <1>1, <2>1, MovedTo DEF Steps
    <2>3. Shape(r) /\ Belongs(r)
      BY <1>1, <2>2 DEF Shape, Belongs, DelSteps, SendSteps, JoinSteps
    <2>4. /\ CalmNames(co[c], r) /\ CalmWipes(co[c], r) /\ CalmCap(co[c], r) /\ CalmOwners(co[c], r)
          /\ CalmTickets(co[c], r) /\ CalmSends(co[c], r) /\ CalmCount(co[c], r)
      BY <1>1, <2>2 DEF CalmNames, CalmWipes, CalmCap, CalmOwners, CalmTickets, CalmSends,
         CalmCount, Creating, Refers, Adding, Applying, Writing, Wiping, Holding, Joining, Sending,
         DelSteps, SendSteps, JoinSteps
    <2>5. \A p \in Orgs : ~Deletes(co[c], p)
      BY <1>1 DEF Deletes, Shape, DelSteps
    <2>6. /\ Typed' /\ NamedFirst' /\ WipedClean' /\ CapKept' /\ OwnersLeft' /\ Tickets'
          /\ SentOnce' /\ Counted' /\ Alone' /\ co'[c] = r /\ Only(c)
      BY <1>1, <1>5, <2>1, <2>2, <2>3, <2>4, <2>5, Stays DEF data
    <2>7. SlugsClaimed'
      <3>1. UNCHANGED <<orgs, slug, backend>>
        BY <1>1 DEF data, stored
      <3>2. \A p : p \in orgs /\ slug[p] = s => p = o
        BY <1>2, <1>9, <1>7 DEF SlugTaken, Named
      <3>3. \A d \in Coros : co'[d].pc = "put" => (co[d].pc = "put" /\ co'[d] = co[d] /\ d # c) \/ d = c
        BY <2>6 DEF Only
      <3>4. co'[c].text = s /\ co'[c].org = o
        BY <1>2, <1>9, <2>2, <2>6
      <3>5. ~Raced("slug", s)' => \A p \in Orgs : Claims(s, p)' => p = o
        BY <1>4, <1>5, <3>1, <3>2, <3>3, <3>4 DEF Claims
      <3>6. ASSUME NEW z, z # s
            PROVE  (Raced("slug", z) => Raced("slug", z)') /\ \A p \in Orgs : Claims(z, p)' => Claims(z, p)
        BY <1>5, <3>1, <3>3, <3>4, <3>6 DEF Claims, Raced
      <3>7. ASSUME NEW z, (backend = "dynamodb" => ~Raced("slug", z))'
            PROVE  \A p, q \in Orgs : Claims(z, p)' /\ Claims(z, q)' => p = q
        <4>1. CASE z = s
          BY <1>1, <3>1, <3>5, <3>7, <4>1
        <4>2. CASE z # s
          BY <3>1, <3>6, <3>7, <4>2 DEF IInv, SlugsClaimed
        <4>3. QED
          BY <4>1, <4>2
      <3>8. QED
        BY <3>7 DEF SlugsClaimed
    <2>8. QED
      BY <2>6, <2>7 DEF IInv
  <1>8. QED
    BY <1>6, <1>7, Returning DEF DynamoName

LEMMA ReadTokenInv ==
  ASSUME IInv, NEW c \in Coros, Turn(c), ReadToken(c)
  PROVE  IInv'
  <1>1. /\ co[c] \in Frames /\ Shape(co[c]) /\ co[c].pc = "token" /\ UNCHANGED data
        /\ co[c].op \in {"accept", "decline"}
        /\ invites \subseteq [id : Invs, org : Orgs, email : Emails, role : Roles]
    BY Here DEF ReadToken, At, data, stored, orgRows, memberRows, invitation, cacheKeys, Shape, Typed,
                TypeOK
  <1>2. PICK x \in Invs : x = co[c].inv
    BY <1>1 DEF Shape
  <1>. DEFINE D == HeldBy(c, x)
  <1>3. Overlap("token", x, D) /\ (backend = "memory" => D = {})
    <2>1. backend = "memory" => D = {}
      BY DEF Turn, HeldBy
    <2>2. QED
      BY <1>2, <2>1 DEF ReadToken
  <1>4. \A d \in Coros \ {c} : co[d].inv = x /\ co[d].pc \in {"user", "consume"} => d \in D
    BY DEF HeldBy
  <1>. HIDE DEF D
  <1>5. /\ raced \subseteq raced' /\ (~Raced("token", x)' => D = {})
        /\ \A p : p # x => (Raced("token", p)' <=> Raced("token", p))
        /\ \A y \in raced' : y \in raced \/ backend # "memory" \/ y[1] \in {"counter", "invite"}
    BY <1>3, Marked, MarkedAlone
  <1>6. CASE Become(c, Idle)
    BY <1>1, <1>5, <1>6, ReturnInv DEF Shape, DelSteps
  <1>7. ASSUME NEW i \in invites, i.id = x, NEW pc \in {"user", "consume"}, NEW op,
               op = IF pc = "user" THEN "accept" ELSE "decline",
               pc = "user" => co[c].op = "accept",
               co' = [co EXCEPT ![c].pc = pc, ![c].op = op, ![c].org = i.org, ![c].text = i.email,
                                ![c].role = i.role]
        PROVE  IInv'
    <2>. DEFINE r == [co[c] EXCEPT !.pc = pc, !.op = op, !.org = i.org, !.text = i.email, !.role = i.role]
    <2>1. Become(c, r)
      BY <1>7 DEF Become
    <2>2. i.org \in Orgs /\ i.email \in Emails /\ i.role \in Roles
      BY <1>1
    <2>3. /\ r \in Frames /\ r.pc = pc /\ r.op = op /\ r.org = i.org /\ r.text = i.email
          /\ r.user = co[c].user /\ r.inv = co[c].inv
      <3>1. op \in {"accept", "decline"} /\ pc \in Steps /\ co[c] \in Frames
        BY <1>1, <1>7 DEF Steps
      <3>2. QED
        BY <2>2, <3>1, ZenonT(30) DEF Frames, Steps
    <2>. HIDE DEF r
    <2>4. Shape(r) /\ Belongs(r)
      BY <1>1, <1>7, <2>2, <2>3 DEF Shape, Belongs, DelSteps, SendSteps, JoinSteps
    <2>5. slug[i.org] # Nothing
      BY <1>1, <2>2 DEF IInv, NamedFirst, Unnamed, PendingOf
    <2>6. /\ CalmNames(co[c], r) /\ CalmClaims(co[c], r) /\ CalmCap(co[c], r) /\ CalmOwners(co[c], r)
          /\ CalmWipes(co[c], r) /\ CalmSends(co[c], r) /\ CalmCount(co[c], r)
      BY <1>1, <1>7, <2>3, <2>5 DEF CalmNames, CalmClaims, CalmCap, CalmOwners, CalmWipes, CalmSends,
         CalmCount, Creating, Refers, Adding, Applying, Writing, Wiping, Sending, DelSteps, SendSteps
    <2>7. \A p \in Orgs : ~Deletes(co[c], p)
      BY <1>1 DEF Deletes, Shape, DelSteps
    <2>8. /\ Typed' /\ NamedFirst' /\ SlugsClaimed' /\ CapKept' /\ OwnersLeft' /\ WipedClean'
          /\ SentOnce' /\ Counted' /\ Alone' /\ co'[c] = r /\ Only(c)
      BY <1>1, <1>5, <2>1, <2>3, <2>4, <2>6, <2>7, Stays DEF data
    <2>9. Tickets'
      <3>1. UNCHANGED <<invites, admitted>>
        BY <1>1 DEF data, stored
      <3>2. \A j : ~Joining(co'[c], j) /\ (Holding(co'[c], j) => j = x)
        BY <1>2, <1>7, <2>3, <2>8 DEF Holding, Joining, JoinSteps
      <3>3. \A d \in Coros \ {c} : co'[d] = co[d]
        BY <2>8 DEF Only
      <3>4. /\ \A a \in admitted : a[1] # x
            /\ \A d \in Coros : ~Joining(co[d], x)
        BY <1>7 DEF IInv, Tickets
      <3>5. ~Raced("token", x)' => \A d \in Coros \ {c} : ~Holding(co[d], x)
        BY <1>4, <1>5, <3>4 DEF Holding
      <3>6. \A j \in Invs : ~Raced("token", j)' => ~Raced("token", j)
        BY <1>5 DEF Raced
      <3>7. ASSUME NEW j \in Invs, ~Raced("token", j)'
            PROVE  /\ \A d, e \in Coros : Holding(co'[d], j) /\ Holding(co'[e], j) => d = e
                   /\ \A d \in Coros : Holding(co'[d], j) => \A a \in admitted : a[1] # j
                   /\ \A a, b \in admitted : a[1] = j /\ b[1] = j => a = b
        <4>1. CASE j = x
          BY <3>3, <3>4, <3>5, <3>7, <4>1
        <4>2. CASE j # x
          BY <3>2, <3>3, <3>6, <3>7, <4>2 DEF IInv, Tickets
        <4>3. QED
          BY <4>1, <4>2
      <3>8. \A y \in invites : \A d \in Coros : ~Joining(co'[d], y.id)
        BY <3>2, <3>3 DEF IInv, Tickets
      <3>9. \A y \in invites : \A a \in admitted : a[1] # y.id
        BY DEF IInv, Tickets
      <3>10. QED
        BY <3>1, <3>7, <3>8, <3>9 DEF Tickets
    <2>10. QED
      BY <2>8, <2>9 DEF IInv
  <1>8. CASE \E i \in {y \in invites : y.id = co[c].inv}, late \in BOOLEAN :
               LET joins == co[c].op = "accept" /\ ~late
               IN co' = [co EXCEPT ![c].pc = IF joins THEN "user" ELSE "consume",
                                   ![c].op = IF joins THEN @ ELSE "decline",
                                   ![c].org = i.org, ![c].text = i.email, ![c].role = i.role]
    <2>1. PICK i \in invites, late \in BOOLEAN :
            /\ i.id = x
            /\ co' = [co EXCEPT ![c].pc = IF co[c].op = "accept" /\ ~late THEN "user" ELSE "consume",
                                ![c].op = IF co[c].op = "accept" /\ ~late THEN co[c].op ELSE "decline",
                                ![c].org = i.org, ![c].text = i.email, ![c].role = i.role]
      BY <1>2, <1>8, ZenonT(30)
    <2>2. CASE co[c].op = "accept" /\ ~late
      BY <1>7, <2>1, <2>2
    <2>3. CASE ~(co[c].op = "accept" /\ ~late)
      BY <1>7, <2>1, <2>3
    <2>4. QED
      BY <2>2, <2>3
  <1>9. QED
    BY <1>6, <1>8, Returning DEF ReadToken

(* The counter of the sends *)
LEMMA CountSendInv ==
  ASSUME IInv, NEW c \in Coros, CountSend(c)
  PROVE  IInv'
  <1>1. /\ co[c] \in Frames /\ Shape(co[c]) /\ co[c].pc = "incr" /\ UNCHANGED stored
        /\ raced' = raced /\ ttl' = ttl /\ count \in [Orgs -> Nat] /\ ttl \subseteq Orgs
        /\ \A o \in Orgs : o \in ttl => count[o] > 0
    BY Here DEF CountSend, At, stored, orgRows, memberRows, invitation, Typed, TypeOK
  <1>2. PICK o \in Orgs : o = co[c].org
    BY <1>1 DEF Shape, SendSteps
  <1>3. count' = [count EXCEPT ![o] = count[o] + 1]
    BY <1>2 DEF CountSend
  <1>4. PICK pc \in {"expire", "create", "idle"} :
          /\ pc = "expire" <=> count[o] = 0
          /\ IF pc = "idle" THEN Become(c, Idle) ELSE Become(c, With(co[c], pc))
    <2>1. CASE count[o] = 0
      BY <1>2, <2>1, Going DEF CountSend
    <2>2. CASE count[o] # 0
      BY <1>2, <2>2, Going, Returning DEF CountSend
    <2>3. QED
      BY <2>1, <2>2
  <1>5. PICK r \in Frames :
          /\ Become(c, r) /\ Shape(r) /\ Belongs(r) /\ r.pc = pc
          /\ pc # "idle" => r.op = co[c].op /\ r.org = co[c].org /\ r.text = co[c].text
                            /\ r.inv = co[c].inv
          /\ pc = "idle" => r = Idle
    <2>1. CASE pc = "idle"
      BY <1>4, <2>1, IdleTyped DEF Idle
    <2>2. CASE pc # "idle"
      <3>1. PICK r : r = With(co[c], pc) /\ Become(c, r)
        BY <1>4, <2>2
      <3>2. /\ r \in Frames /\ r.pc = pc /\ r.op = co[c].op /\ r.org = co[c].org /\ r.text = co[c].text
            /\ r.user = co[c].user /\ r.role = co[c].role /\ r.inv = co[c].inv
        BY <1>1, <3>1, MovedTo DEF Steps
      <3>3. Shape(r) /\ Belongs(r)
        BY <1>1, <2>2, <3>2 DEF Shape, Belongs, DelSteps, SendSteps, JoinSteps
      <3>4. QED
        BY <2>2, <3>1, <3>2, <3>3
    <2>3. QED
      BY <2>1, <2>2
  <1>6. /\ CalmNames(co[c], r) /\ CalmClaims(co[c], r) /\ CalmCap(co[c], r) /\ CalmOwners(co[c], r)
        /\ CalmWipes(co[c], r) /\ CalmTickets(co[c], r) /\ CalmSends(co[c], r)
    <2>1. CASE pc = "idle"
      BY <1>1, <1>5, <2>1, CalmIdle DEF Calm
    <2>2. CASE pc # "idle"
      BY <1>1, <1>5, <2>2 DEF CalmNames, CalmClaims, CalmCap, CalmOwners, CalmWipes, CalmTickets,
         CalmSends, Creating, Refers, Adding, Applying, Writing, Wiping, Holding, Joining, Sending,
         DelSteps, SendSteps, JoinSteps
    <2>3. QED
      BY <2>1, <2>2
  <1>7. \A p \in Orgs : ~Deletes(co[c], p)
    BY <1>1 DEF Deletes, Shape, DelSteps
  <1>8. /\ NamedFirst' /\ SlugsClaimed' /\ CapKept' /\ OwnersLeft' /\ WipedClean'
        /\ Tickets' /\ SentOnce' /\ Alone' /\ co'[c] = r /\ Only(c)
    BY <1>1, <1>5, <1>6, <1>7, Stays
  <1>9. Typed'
    <2>1. count' \in [Orgs -> Nat] /\ \A p \in Orgs : p \in ttl => count'[p] > 0
      BY <1>1, <1>3
    <2>2. /\ co' \in [Coros -> Frames] /\ \A d \in Coros : co'[d] \in Frames /\ Shape(co'[d])
          /\ \A d \in Coros : Belongs(co[d])'
      BY <1>1, <1>5, BecomeTyped, Here DEF stored
    <2>3. TypeOK'
      BY <1>1, <2>1, <2>2 DEF stored, IInv, Typed, TypeOK
    <2>4. QED
      BY <1>1, <2>1, <2>2, <2>3 DEF stored, IInv, Typed
  <1>10. Counted'
    <2>1. ASSUME NEW p \in Orgs, count'[p] > 0, p \notin ttl
          PROVE  Raced("counter", p) \/ \E d \in Coros : co'[d].pc = "expire" /\ co'[d].org = p
      <3>1. CASE count[p] > 0
        <4>1. Raced("counter", p) \/ \E d \in Coros : co[d].pc = "expire" /\ co[d].org = p
          BY <2>1, <3>1 DEF IInv, Counted
        <4>2. QED
          BY <1>1, <1>8, <4>1 DEF Only
      <3>2. CASE ~(count[p] > 0)
        <4>1. p = o /\ count[o] = 0
          BY <1>1, <1>3, <2>1, <3>2
        <4>2. QED
          BY <1>2, <1>4, <1>5, <1>8, <4>1
      <3>3. QED
        BY <3>1, <3>2
    <2>2. QED
      BY <1>1, <2>1 DEF Counted, Raced
  <1>11. QED
    BY <1>8, <1>9, <1>10 DEF IInv

LEMMA ExpireCounterInv ==
  ASSUME IInv, NEW c \in Coros, ExpireCounter(c)
  PROVE  IInv'
  <1>1. /\ co[c] \in Frames /\ Shape(co[c]) /\ co[c].pc = "expire" /\ UNCHANGED stored
        /\ raced' = raced /\ count' = count /\ ttl \subseteq Orgs
        /\ \A o \in Orgs : o \in ttl => count[o] > 0
    BY Here DEF ExpireCounter, At, stored, orgRows, memberRows, invitation, Typed, TypeOK
  <1>2. PICK o \in Orgs : o = co[c].org
    BY <1>1 DEF Shape
  <1>3. ttl' = IF count[o] > 0 THEN ttl \cup {o} ELSE ttl
    BY <1>2 DEF ExpireCounter
  <1>4. PICK r : r = With(co[c], "create") /\ Become(c, r)
    BY Going DEF ExpireCounter
  <1>5. /\ r \in Frames /\ r.pc = "create" /\ r.op = co[c].op /\ r.org = co[c].org /\ r.text = co[c].text
        /\ r.user = co[c].user /\ r.role = co[c].role /\ r.inv = co[c].inv
    BY <1>1, <1>4, MovedTo DEF Steps
  <1>6. Shape(r) /\ Belongs(r)
    BY <1>1, <1>5 DEF Shape, Belongs, DelSteps, SendSteps, JoinSteps
  <1>7. /\ CalmNames(co[c], r) /\ CalmClaims(co[c], r) /\ CalmCap(co[c], r) /\ CalmOwners(co[c], r)
        /\ CalmWipes(co[c], r) /\ CalmTickets(co[c], r) /\ CalmSends(co[c], r)
    BY <1>1, <1>5 DEF CalmNames, CalmClaims, CalmCap, CalmOwners, CalmWipes, CalmTickets,
       CalmSends, Creating, Refers, Adding, Applying, Writing, Wiping, Holding, Joining, Sending,
       DelSteps, SendSteps, JoinSteps
  <1>8. \A p \in Orgs : ~Deletes(co[c], p)
    BY <1>1 DEF Deletes, Shape, DelSteps
  <1>9. /\ NamedFirst' /\ SlugsClaimed' /\ CapKept' /\ OwnersLeft' /\ WipedClean'
        /\ Tickets' /\ SentOnce' /\ Alone' /\ co'[c] = r /\ Only(c)
    BY <1>1, <1>4, <1>5, <1>6, <1>7, <1>8, Stays
  <1>10. Typed'
    <2>1. ttl' \subseteq Orgs /\ \A p \in Orgs : p \in ttl' => count[p] > 0
      BY <1>1, <1>3
    <2>2. /\ co' \in [Coros -> Frames] /\ \A d \in Coros : co'[d] \in Frames /\ Shape(co'[d])
          /\ \A d \in Coros : Belongs(co[d])'
      BY <1>1, <1>4, <1>5, <1>6, BecomeTyped, Here DEF stored
    <2>3. TypeOK'
      BY <1>1, <2>1, <2>2 DEF stored, IInv, Typed, TypeOK
    <2>4. QED
      BY <1>1, <2>1, <2>2, <2>3 DEF stored, IInv, Typed
  <1>11. Counted'
    <2>1. ASSUME NEW p \in Orgs, count[p] > 0, p \notin ttl'
          PROVE  Raced("counter", p) \/ \E d \in Coros : co'[d].pc = "expire" /\ co'[d].org = p
      <3>1. p # o /\ p \notin ttl
        BY <1>3, <2>1
      <3>2. Raced("counter", p) \/ \E d \in Coros : co[d].pc = "expire" /\ co[d].org = p
        BY <2>1, <3>1 DEF IInv, Counted
      <3>3. QED
        BY <1>2, <1>9, <3>1, <3>2 DEF Only
    <2>2. QED
      BY <1>1, <2>1 DEF Counted, Raced
  <1>12. QED
    BY <1>9, <1>10, <1>11 DEF IInv

(* Nobody takes a step, and the rows stay. *)
LEMMA WindowEndsInv ==
  ASSUME IInv, WindowEnds
  PROVE  IInv'
  <1>1. PICK o \in ttl : ttl' = ttl \ {o} /\ count' = [count EXCEPT ![o] = 0]
    BY DEF WindowEnds
  <1>2. UNCHANGED <<stored, co, raced>> /\ count \in [Orgs -> Nat] /\ ttl \subseteq Orgs
    BY DEF WindowEnds, stored, orgRows, memberRows, invitation, IInv, Typed, TypeOK
  <1>3. Typed'
    <2>1. /\ count' \in [Orgs -> Nat] /\ ttl' \subseteq Orgs
          /\ \A p \in Orgs : p \in ttl' => count'[p] > 0
      BY <1>1, <1>2 DEF IInv, Typed, TypeOK
    <2>2. TypeOK'
      BY <1>2, <2>1 DEF stored, IInv, Typed, TypeOK
    <2>3. QED
      BY <1>2, <2>1, <2>2 DEF stored, IInv, Typed, Belongs
  <1>4. Counted'
    BY <1>1, <1>2 DEF IInv, Counted, Raced
  <1>5. NamedFirst' /\ SlugsClaimed'
    BY <1>2 DEF stored, IInv, NamedFirst, Unnamed, PendingOf, SlugsClaimed, Claims, Raced
  <1>6. CapKept' /\ OwnersLeft'
    BY <1>2 DEF stored, IInv, CapKept, Adders, OwnersLeft, Settled, BeingDeleted, At, Owners, Raced
  <1>7. WipedClean' /\ Tickets' /\ SentOnce' /\ Alone'
    BY <1>2 DEF stored, IInv, WipedClean, Wiped, Tickets, SentOnce, Alone, PendingOf, Raced
  <1>8. QED
    BY <1>3, <1>4, <1>5, <1>6, <1>7 DEF IInv

-----------------------------------------------------------------------------
(* Names and new organizations *)

LEMMA CreateOrganizationInv ==
  ASSUME IInv, NEW c \in Coros, CreateOrganization(c)
  PROVE  IInv'
  <1>1. PICK o \in Orgs \ born, u \in Users, s \in Slugs :
          co' = [co EXCEPT ![c] = [Idle EXCEPT !.op = "create", !.pc = "slug", !.org = o, !.user = u,
                                               !.role = "owner", !.text = s]] /\ born' = born \cup {o}
    BY DEF CreateOrganization
  <1>2. /\ UNCHANGED <<backend, orgs, slug, members, role, admitted, owned, invites, count, ttl, raced>>
        /\ co[c] = Idle /\ Typed
    BY Here DEF CreateOrganization, orgRows, memberRows, invitation, cacheKeys
  <1>. DEFINE r == [Idle EXCEPT !.op = "create", !.pc = "slug", !.org = o, !.user = u,
                                !.role = "owner", !.text = s]
  <1>3. Become(c, r)
    BY <1>1 DEF Become
  <1>4. /\ r \in Frames /\ r.op = "create" /\ r.pc = "slug" /\ r.org = o /\ r.user = u /\ r.role = "owner"
        /\ r.text = s
    BY RolesAssumption DEF Frames, Idle
  <1>. HIDE DEF r
  <1>5. Shape(r) /\ Belongs(r)
    BY <1>1, <1>4 DEF Shape, Belongs, DelSteps, SendSteps, JoinSteps
  <1>6. co'[c] = r /\ Only(c)
    BY <1>2, <1>3, Became
  <1>7. Typed'
    <2>1. /\ co' \in [Coros -> Frames] /\ \A d \in Coros : co'[d] \in Frames /\ Shape(co'[d])
          /\ \A d \in Coros : Belongs(co[d])'
      BY <1>2, <1>3, <1>4, <1>5, BecomeTyped
    <2>2. TypeOK'
      BY <1>1, <1>2, <2>1 DEF Typed, TypeOK
    <2>3. QED
      BY <1>2, <2>1, <2>2 DEF Typed
  <1>8. slug[o] = Nothing /\ Unnamed(o) /\ o \notin born
    BY DEF IInv, NamedFirst
  <1>9. \A d \in Coros : ~(Creating(co[d]) /\ co[d].org = o)
    BY <1>8 DEF IInv, NamedFirst
  <1>10. NamedFirst'
    <2>1. \A p \in Orgs, d \in Coros : Refers(co'[d], p) => Refers(co[d], p)
      BY <1>4, <1>6 DEF Refers, Creating, Only
    <2>2. \A p \in Orgs : Unnamed(p) => Unnamed(p)'
      BY <1>2, <2>1 DEF Unnamed, PendingOf
    <2>3. \A d \in Coros : Creating(co'[d]) => (d = c /\ co'[d].org = o) \/ (d # c /\ Creating(co[d]) /\ co'[d] = co[d])
      BY <1>4, <1>6 DEF Only
    <2>4. \A p \in Orgs : slug'[p] = Nothing => Unnamed(p)'
      BY <1>2, <2>2 DEF IInv, NamedFirst
    <2>5. \A d \in Coros : Creating(co'[d]) => co'[d].org \in born' /\ slug'[co'[d].org] = Nothing
      BY <1>1, <1>2, <1>8, <2>3 DEF IInv, NamedFirst
    <2>6. \A d, e \in Coros : Creating(co'[d]) /\ Creating(co'[e]) /\ co'[d].org = co'[e].org => d = e
      BY <1>9, <2>3 DEF IInv, NamedFirst
    <2>7. \A p \in Orgs : slug'[p] # Nothing => p \in born'
      BY <1>1, <1>2 DEF IInv, NamedFirst
    <2>8. QED
      BY <2>4, <2>5, <2>6, <2>7 DEF NamedFirst
  <1>11. /\ CalmClaims(co[c], r) /\ CalmOwners(co[c], r) /\ CalmWipes(co[c], r) /\ CalmTickets(co[c], r)
         /\ CalmSends(co[c], r) /\ CalmCount(co[c], r) /\ \A p \in Orgs : ~Deletes(co[c], p)
    BY <1>2, <1>4 DEF CalmClaims, CalmOwners, CalmWipes, CalmTickets, CalmSends, CalmCount, Applying,
       Writing, Wiping, Holding, Joining, Sending, DelSteps, SendSteps, JoinSteps, Idle, Deletes
  <1>12. SlugsClaimed' /\ OwnersLeft' /\ Counted' /\ Alone'
    BY <1>2, <1>6, <1>11, ClaimsKept, OwnersStay, CountStays, AloneStays DEF IInv
  <1>13. WipedClean'
    <2>1. \A p \in Orgs : p \in born' \ born => members[p] = {} /\ PendingOf(p) = {}
      BY <1>1, <1>8 DEF Unnamed
    <2>2. QED
      BY <1>2, <1>6, <1>11, <2>1, WipesStay DEF IInv
  <1>14. Tickets' /\ SentOnce'
    BY <1>2, <1>6, <1>11, TicketsStay, SendsStay DEF IInv, Typed, TypeOK
  <1>15. CapKept'
    <2>1. ASSUME NEW p \in Orgs, p # o
          PROVE  /\ IsFiniteSet(members'[p])
                 /\ Cardinality(members'[p]) + Cardinality(Adders(p)') < MaxMembers + Cardinality(Coros)
                 /\ ~Raced("cap", p)' => Cardinality(members'[p]) + Cardinality(Adders(p)') <= MaxMembers
      <3>1. ~Adding(co'[c], p)
        BY <1>4, <1>6, <2>1 DEF Adding
      <3>2. QED
        BY <1>2, <1>6, <3>1, CapLess DEF IInv, Typed, TypeOK
    <2>2. PICK A : A = Adders(o)'
      OBVIOUS
    <2>3. A = {c}
      <3>1. \A d \in Coros \ {c} : ~Adding(co'[d], o)
        BY <1>6, <1>8, <1>9 DEF Only, Adding, Unnamed, Refers, Creating
      <3>2. Adding(co'[c], o)
        BY <1>4, <1>6 DEF Adding, Creating
      <3>3. QED
        BY <2>2, <3>1, <3>2 DEF Adders
    <2>4. members'[o] = {} /\ IsFiniteSet(members'[o]) /\ Cardinality(members'[o]) = 0
      BY <1>2, <1>8, FS_EmptySet DEF Unnamed
    <2>5. Cardinality(A) = 1
      BY <2>3, FS_Singleton
    <2>6. /\ Cardinality(members'[o]) + Cardinality(A) < MaxMembers + Cardinality(Coros)
          /\ Cardinality(members'[o]) + Cardinality(A) <= MaxMembers
      BY <2>4, <2>5, AddersFinite, BoundsAssumption
    <2>7. \A p \in Orgs :
            /\ IsFiniteSet(members'[p])
            /\ Cardinality(members'[p]) + Cardinality(Adders(p)') < MaxMembers + Cardinality(Coros)
            /\ ~Raced("cap", p)' => Cardinality(members'[p]) + Cardinality(Adders(p)') <= MaxMembers
      BY <2>1, <2>2, <2>4, <2>6
    <2>8. QED
      BY <2>7 DEF CapKept
  <1>16. QED
    BY <1>7, <1>10, <1>12, <1>13, <1>14, <1>15 DEF IInv

(* An organization gets a slug that no other has, or that it has claimed. *)
LEMMA PutNameInv ==
  ASSUME IInv, NEW c \in Coros, co[c].pc \in {"name", "put"}, PutName(c), ~Gone(c),
         UNCHANGED <<backend, born, members, role, admitted, owned, invites, count, ttl, raced>>,
         co[c].pc = "put" \/ (backend # "dynamodb" /\ ~SlugTaken(c))
  PROVE  IInv'
  <1>1. co[c] \in Frames /\ Shape(co[c]) /\ Belongs(co[c]) /\ Typed
    BY Here
  <1>2. PICK o \in Orgs, s \in Slugs \cup {Suffix[p] : p \in Orgs} :
          o = co[c].org /\ s = co[c].text /\ s # Nothing
    BY <1>1, NamesAssumption DEF Shape
  <1>3. slug' = [slug EXCEPT ![o] = s] /\ slug \in [Orgs -> Slugs \cup {Suffix[p] : p \in Orgs} \cup {Nothing}]
    BY <1>1, <1>2 DEF PutName, Typed
  <1>4. PICK r \in Frames :
          /\ Become(c, r) /\ Shape(r) /\ Belongs(r)
          /\ IF co[c].op = "create" THEN r.pc = "add" /\ r.op = "create" /\ r.org = o /\ orgs' = orgs \cup {o}
             ELSE r = Idle /\ orgs' = orgs /\ o \in orgs
    <2>1. CASE co[c].op = "create"
      <3>1. PICK r : r = With(co[c], "add") /\ Become(c, r)
        BY <2>1, Going DEF PutName
      <3>2. /\ r \in Frames /\ r.pc = "add" /\ r.op = co[c].op /\ r.org = co[c].org /\ r.text = co[c].text
            /\ r.user = co[c].user /\ r.role = co[c].role /\ r.inv = co[c].inv
        BY <1>1, <3>1, MovedTo DEF Steps
      <3>3. Shape(r) /\ Belongs(r)
        BY <1>1, <2>1, <3>2 DEF Shape, Belongs, DelSteps, SendSteps, JoinSteps
      <3>4. orgs' = orgs \cup {o}
        BY <1>2, <2>1 DEF PutName
      <3>5. QED
        BY <1>2, <2>1, <3>1, <3>2, <3>3, <3>4
    <2>2. CASE co[c].op # "create"
      BY <1>1, <1>2, <2>2, IdleTyped, Returning DEF PutName, Gone, Shape
    <2>3. QED
      BY <2>1, <2>2
  <1>5. co'[c] = r /\ Only(c)
    BY <1>1, <1>4, Became
  <1>6. o \in born /\ (co[c].op = "create" => Unnamed(o) /\ Creating(co[c]))
    BY <1>1, <1>2, <1>4 DEF IInv, NamedFirst, Creating, Typed, TypeOK
  <1>7. Typed'
    <2>1. /\ co' \in [Coros -> Frames] /\ \A d \in Coros : co'[d] \in Frames /\ Shape(co'[d])
          /\ \A d \in Coros : Belongs(co[d])'
      BY <1>1, <1>4, BecomeTyped
    <2>2. TypeOK'
      BY <1>1, <1>4, <1>6, <2>1 DEF Typed, TypeOK
    <2>3. slug' \in [Orgs -> Slugs \cup {Suffix[p] : p \in Orgs} \cup {Nothing}]
      BY <1>3
    <2>4. QED
      BY <1>1, <2>1, <2>2, <2>3 DEF Typed
  <1>8. \A p \in Orgs : slug'[p] = IF p = o THEN s ELSE slug[p]
    BY <1>3
  <1>9. ~Creating(r) /\ \A p \in Orgs : Refers(r, p) => p = o
    BY <1>4 DEF Creating, Refers, Idle
  <1>10. NamedFirst'
    <2>1. \A p \in Orgs : slug'[p] = Nothing => Unnamed(p)'
      <3>1. ASSUME NEW p \in Orgs, slug'[p] = Nothing
            PROVE  Unnamed(p)'
        <4>1. p # o /\ Unnamed(p)
          BY <1>2, <1>8, <3>1 DEF IInv, NamedFirst
        <4>2. p \notin orgs' /\ PendingOf(p)' = {}
          BY <1>4, <4>1 DEF Unnamed, PendingOf
        <4>3. \A d \in Coros : ~Refers(co'[d], p)
          BY <1>5, <1>9, <4>1 DEF Unnamed, Only
        <4>4. QED
          BY <4>1, <4>2, <4>3 DEF Unnamed
      <3>2. QED
        BY <3>1
    <2>2. \A p \in Orgs : slug'[p] # Nothing => p \in born'
      BY <1>6, <1>8 DEF IInv, NamedFirst
    <2>3. \A d \in Coros : Creating(co'[d]) => d # c /\ Creating(co[d]) /\ co'[d] = co[d]
      BY <1>5, <1>9 DEF Only
    <2>4. ASSUME NEW d \in Coros, d # c, Creating(co[d])
          PROVE  co[d].org \in born /\ co[d].org # o /\ slug'[co[d].org] = Nothing
      <3>1. co[d].org \in born /\ slug[co[d].org] = Nothing /\ born \subseteq Orgs
        BY <1>1, <2>4 DEF IInv, NamedFirst, Typed, TypeOK
      <3>2. co[d].org # o
        BY <1>2, <1>4, <1>6, <2>4, <3>1 DEF IInv, NamedFirst, Unnamed
      <3>3. QED
        BY <1>8, <3>1, <3>2
    <2>5. \A d \in Coros : Creating(co'[d]) => co'[d].org \in born' /\ slug'[co'[d].org] = Nothing
      BY <2>3, <2>4
    <2>6. \A d, e \in Coros : Creating(co'[d]) /\ Creating(co'[e]) /\ co'[d].org = co'[e].org => d = e
      BY <2>3 DEF IInv, NamedFirst
    <2>7. QED
      BY <2>1, <2>2, <2>5, <2>6 DEF NamedFirst
  <1>11. SlugsClaimed'
    <2>1. \A d \in Coros : co'[d].pc = "put" => d # c /\ co[d].pc = "put" /\ co'[d] = co[d]
      BY <1>4, <1>5 DEF Only, Idle
    <2>2. ASSUME NEW z, NEW p \in Orgs, Claims(z, p)'
          PROVE  Claims(z, p) \/ (z = s /\ p = o)
      BY <1>4, <1>8, <2>1, <2>2 DEF Claims
    <2>3. Claims(s, o) \/ \A p \in Orgs : Claims(s, p) => p = o
      <3>1. CASE co[c].pc = "put"
        BY <1>2, <3>1 DEF Claims
      <3>2. CASE co[c].pc # "put"
        BY <1>1, <1>2, <3>2 DEF Claims, SlugTaken, Named, Typed, Belongs
      <3>3. QED
        BY <3>1, <3>2
    <2>4. ASSUME NEW z, (backend = "dynamodb" => ~Raced("slug", z))', NEW p \in Orgs, NEW q \in Orgs,
                 Claims(z, p)', Claims(z, q)'
          PROVE  p = q
      <3>1. backend = "dynamodb" => ~Raced("slug", z)
        BY <2>4 DEF Raced
      <3>2. \A x, y \in Orgs : Claims(z, x) /\ Claims(z, y) => x = y
        BY <3>1 DEF IInv, SlugsClaimed
      <3>3. /\ Claims(z, p) \/ (z = s /\ p = o)
            /\ Claims(z, q) \/ (z = s /\ q = o)
        BY <2>2, <2>4
      <3>4. QED
        BY <2>3, <3>2, <3>3
    <2>5. QED
      BY <2>4 DEF SlugsClaimed
  <1>12. /\ CalmCap(co[c], r) /\ CalmOwners(co[c], r) /\ CalmWipes(co[c], r) /\ CalmTickets(co[c], r)
         /\ CalmSends(co[c], r) /\ CalmCount(co[c], r) /\ \A p \in Orgs : ~Deletes(co[c], p)
    BY <1>1, <1>2, <1>4, <1>6 DEF CalmCap, CalmOwners, CalmWipes, CalmTickets, CalmSends, CalmCount,
       Applying, Adding, Writing, Wiping, Holding, Joining, Sending, DelSteps, SendSteps, JoinSteps,
       Idle, Deletes, Creating, Shape
  <1>13. CapKept' /\ Tickets' /\ SentOnce' /\ Counted' /\ Alone'
    BY <1>5, <1>12, CapStays, TicketsStay, SendsStay, CountStays, AloneStays DEF IInv, Typed, TypeOK
  <1>14. \A p \in Orgs : p # o => (p \in orgs' <=> p \in orgs)
    BY <1>4
  <1>15. orgs \subseteq orgs'
    BY <1>4
  <1>16. OwnersLeft'
    <2>1. \A p \in Orgs, d \in Coros : Applying(co'[d], p) => Applying(co[d], p) /\ co'[d] = co[d]
      BY <1>5, <1>12 DEF CalmOwners, Only
    <2>2. ASSUME NEW p \in Orgs, Settled(p)', p \in orgs
          PROVE  Settled(p)
      <3>1. \A d \in Coros : Deletes(co[d], p) => Deletes(co'[d], p)
        BY <1>5, <1>12 DEF Only
      <3>2. QED
        BY <2>2, <3>1 DEF Settled, BeingDeleted, At, Deletes, Raced
    <2>3. \A p \in Orgs : Owners(p)' = Owners(p) /\ (Raced("owner", p)' <=> Raced("owner", p))
      BY DEF Owners, Raced
    <2>4. ASSUME NEW p \in Orgs, Settled(p)', p \notin orgs
          PROVE  p \notin owned /\ \A d \in Coros : ~Applying(co[d], p)
      <3>1. Unnamed(p)
        BY <1>4, <1>6, <2>4 DEF Settled
      <3>2. QED
        BY <3>1 DEF Unnamed, Refers, Applying, Creating
    <2>5. \A p \in Orgs : Settled(p)' => \A d \in Coros : Applying(co'[d], p) =>
            co'[d].user \in members[p] /\ (Down(co'[d]) => Owners(p) # {co'[d].user})
      BY <2>1, <2>2, <2>4 DEF IInv, OwnersLeft
    <2>6. \A p \in Orgs : Settled(p)' /\ p \in owned => Owners(p) # {}
      BY <2>2, <2>4 DEF IInv, OwnersLeft
    <2>7. \A p \in Orgs : ~Raced("owner", p)' =>
            \A d, e \in Coros : Applying(co'[d], p) /\ Applying(co'[e], p) => d = e
      BY <2>1, <2>3 DEF IInv, OwnersLeft
    <2>8. QED
      BY <2>3, <2>5, <2>6, <2>7 DEF OwnersLeft
  <1>17. WipedClean'
    <2>1. \A p \in Orgs : /\ PendingOf(p)' = PendingOf(p)
                          /\ Raced("cascade", p)' <=> Raced("cascade", p)
      BY DEF PendingOf, Raced
    <2>2. \A d \in Coros : CalmWipes(co[d], co'[d])
      BY <1>5, <1>12 DEF Only, CalmWipes
    <2>3. ASSUME NEW p \in Orgs, NEW d \in Coros, Wiping(co'[d], p)
          PROVE  Wiping(co[d], p) /\ (Wiped(co[d], p) => Wiped(co[d], p)')
      BY <2>1, <2>2, <2>3 DEF CalmWipes, Wiped
    <2>4. \A p \in Orgs, d \in Coros : Writing(co'[d], p) => Writing(co[d], p)
      BY <2>2 DEF CalmWipes
    <2>5. ASSUME NEW p \in Orgs, ~Raced("cascade", p)'
          PROVE  /\ \A d \in Coros : Writing(co'[d], p) => p \in orgs' /\ \A e \in Coros : ~Wiping(co'[e], p)
                 /\ \A d \in Coros : Wiping(co'[d], p) => Wiped(co[d], p)'
                 /\ p \in born' \ orgs' => members'[p] = {} /\ PendingOf(p)' = {}
      BY <1>15, <2>1, <2>3, <2>4, <2>5 DEF IInv, WipedClean
    <2>6. QED
      BY <2>5 DEF WipedClean
  <1>18. QED
    BY <1>7, <1>10, <1>11, <1>13, <1>16, <1>17 DEF IInv

LEMMA NamingInv ==
  ASSUME IInv, NEW c \in Coros,
         MemoryName(c) \/ SqlName(c) \/ MongoName(c) \/ DynamoPut(c)
  PROVE  IInv'
  <1>1. co[c].pc \in {"name", "put"} /\ Shape(co[c])
    BY Here DEF MemoryName, SqlName, MongoName, NameOnce, DynamoPut, At
  <1>2. UNCHANGED <<backend, born, members, role, admitted, owned, invites, count, ttl, raced>>
    BY DEF MemoryName, SqlName, MongoName, NameOnce, DynamoPut, memberRows, invitation, cacheKeys
  <1>3. CASE Become(c, Idle) /\ UNCHANGED orgRows
    <2>1. UNCHANGED data
      BY <1>2, <1>3 DEF data, stored, orgRows
    <2>2. QED
      BY <1>1, <1>2, <1>3, <2>1, ReturnInv DEF Shape, DelSteps
  <1>4. CASE PutName(c) /\ ~Gone(c)
    <2>1. co[c].pc = "put" \/ (backend # "dynamodb" /\ ~SlugTaken(c)) \/ (Become(c, Idle) /\ UNCHANGED orgRows)
      BY Returning DEF MemoryName, SqlName, MongoName, NameOnce, DynamoPut, At
    <2>2. QED
      BY <1>1, <1>2, <1>3, <1>4, <2>1, PutNameInv
  <1>5. QED
    BY <1>3, <1>4, Returning DEF MemoryName, SqlName, MongoName, NameOnce, DynamoPut

-----------------------------------------------------------------------------
(* Steps that write a row *)

LEMMA Writes ==
  ASSUME IInv, NEW c \in Coros, NEW r \in Frames, Shape(r), Belongs(r), Become(c, r),
         UNCHANGED <<backend, born, orgs, slug, count, ttl, raced>>,
         CalmNames(co[c], r), CalmClaims(co[c], r), CalmCount(co[c], r),
         members' \in [Orgs -> SUBSET Users], role' \in [Orgs -> [Users -> Roles]],
         owned' \subseteq Orgs, admitted' \subseteq Invs \X Users,
         invites' \subseteq [id : Invs, org : Orgs, email : Emails, role : Roles],
         backend = "sql" => invites' = {},
         \A p \in Orgs : slug[p] = Nothing =>
             p \notin owned' /\ members'[p] = {} /\ PendingOf(p)' = {}
  PROVE  Typed' /\ NamedFirst' /\ SlugsClaimed' /\ Counted' /\ Alone' /\ co'[c] = r /\ Only(c)
  <1>1. co'[c] = r /\ Only(c) /\ Typed
    BY Became DEF IInv
  <1>2. Typed'
    <2>1. /\ co' \in [Coros -> Frames] /\ \A d \in Coros : co'[d] \in Frames /\ Shape(co'[d])
          /\ \A d \in Coros : Belongs(co[d])'
      BY <1>1, BecomeTyped
    <2>2. TypeOK'
      BY <1>1, <2>1 DEF Typed, TypeOK
    <2>3. QED
      BY <1>1, <2>1, <2>2 DEF Typed
  <1>3. \A p \in Orgs : slug[p] = Nothing => p \notin orgs'
    BY DEF IInv, NamedFirst, Unnamed
  <1>4. NamedFirst'
    BY <1>1, <1>3, NamesKept DEF IInv
  <1>5. SlugsClaimed' /\ Counted' /\ Alone'
    BY <1>1, ClaimsKept, CountStays, AloneStays DEF IInv
  <1>6. QED
    BY <1>1, <1>2, <1>4, <1>5

(* A row of an organization that is being deleted is written only by those   *)
(* who are marked.                                                            *)
LEMMA WrittenClean ==
  ASSUME IInv, NEW c \in Coros, NEW o \in Orgs, Only(c), co'[c] = Idle,
         UNCHANGED <<orgs, born, raced>>,
         Writing(co[c], o) \/ (backend = "memory" /\ o \in orgs),
         \A p \in Orgs \ {o} : members'[p] = members[p] /\ PendingOf(p)' = PendingOf(p)
  PROVE  WipedClean'
  <1>1. \A p \in Orgs, d \in Coros : /\ Writing(co'[d], p) => Writing(co[d], p)
                                     /\ Wiping(co'[d], p) => Wiping(co[d], p) /\ co'[d] = co[d]
    BY DEF Only, Idle, Writing, Wiping, DelSteps
  <1>2. \A p \in Orgs : Raced("cascade", p)' <=> Raced("cascade", p)
    BY DEF Raced
  <1>3. backend = "memory" => \A d \in Coros, p \in Orgs : ~Wiping(co[d], p)
    BY Here DEF Wiping, Belongs, DelSteps
  <1>4. ~Raced("cascade", o) => o \in orgs /\ \A d \in Coros : ~Wiping(co[d], o)
    BY <1>3 DEF IInv, WipedClean
  <1>5. ASSUME NEW p \in Orgs, ~Raced("cascade", p)'
        PROVE  /\ \A d \in Coros : Writing(co'[d], p) => p \in orgs' /\ \A e \in Coros : ~Wiping(co'[e], p)
               /\ \A d \in Coros : Wiping(co'[d], p) => Wiped(co[d], p)'
               /\ p \in born' \ orgs' => members'[p] = {} /\ PendingOf(p)' = {}
    <2>1. CASE p = o
      BY <1>1, <1>2, <1>4, <1>5, <2>1
    <2>2. CASE p # o
      <3>1. \A d \in Coros : Wiping(co'[d], p) => Wiped(co[d], p)'
        BY <1>1, <1>2, <1>5, <2>2 DEF IInv, WipedClean, Wiped
      <3>2. QED
        BY <1>1, <1>2, <1>5, <2>2, <3>1 DEF IInv, WipedClean
    <2>3. QED
      BY <2>1, <2>2
  <1>6. QED
    BY <1>5 DEF WipedClean

LEMMA NamedRef ==
  ASSUME IInv, NEW c \in Coros, NEW o \in Orgs, Refers(co[c], o)
  PROVE  slug[o] # Nothing
  BY DEF IInv, NamedFirst, Unnamed

LEMMA InsertMemberInv ==
  ASSUME IInv, NEW c \in Coros, NEW o \in Orgs, o = co[c].org, InsertMember(c),
         UNCHANGED <<backend, born, orgs, slug, invites, count, ttl, raced>>,
         \/ co[c].pc = "add" /\ backend = "memory" /\ o \in orgs
         \/ co[c].pc = "insert"
  PROVE  IInv'
  <1>1. /\ co[c] \in Frames /\ Shape(co[c]) /\ co[c].pc \in {"add", "insert"}
        /\ co[c].op \in {"create", "add", "accept"} /\ Typed
    BY Here DEF Shape, JoinSteps
  <1>2. PICK u \in Users : u = co[c].user
    BY <1>1 DEF Shape
  <1>3. PICK x \in Roles : x = co[c].role
    BY <1>1 DEF Frames
  <1>4. Become(c, Idle)
    BY Returning DEF InsertMember
  <1>5. CASE UNCHANGED memberRows
    <2>1. UNCHANGED data
      BY <1>5 DEF data, stored, memberRows
    <2>2. QED
      BY <1>1, <1>4, <2>1, ReturnInv DEF Shape, DelSteps
  <1>6. CASE ~(UNCHANGED memberRows)
    <2>1. u \notin members[o]
      BY <1>2, <1>6 DEF InsertMember
    <2>2. /\ members' = [members EXCEPT ![o] = members[o] \cup {u}]
          /\ role' = [role EXCEPT ![o][u] = x]
      BY <1>2, <1>3, <2>1 DEF InsertMember
    <2>3. admitted' = admitted \cup IF co[c].op = "accept" THEN {<<co[c].inv, u>>} ELSE {}
      BY <1>2, <2>1 DEF InsertMember
    <2>4. owned' = IF x = "owner" THEN owned \cup {o} ELSE owned
      BY <1>2, <1>3, <2>1 DEF InsertMember
    <2>5. co'[c] = Idle /\ Only(c)
      BY <1>1, <1>4, Became
    <2>6. Calm(co[c], Idle)
      BY <1>1, CalmIdle
    <2>7. /\ \A p \in Orgs : p # o => members'[p] = members[p] /\ role'[p] = role[p]
          /\ members'[o] = members[o] \cup {u}
          /\ role'[o][u] = x /\ \A v \in Users : v # u => role'[o][v] = role[o][v]
      BY <1>1, <1>2, <2>2 DEF Typed, TypeOK
    <2>8. slug[o] # Nothing
      BY <1>1, NamedRef DEF Refers, Creating
    <2>9. Typed' /\ NamedFirst' /\ SlugsClaimed' /\ Counted' /\ Alone'
      <3>1. members' \in [Orgs -> SUBSET Users] /\ role' \in [Orgs -> [Users -> Roles]]
        BY <1>1, <2>2 DEF Typed, TypeOK
      <3>2. owned' \subseteq Orgs /\ admitted' \subseteq Invs \X Users
        BY <1>1, <2>3, <2>4 DEF Shape, Typed
      <3>3. /\ invites' \subseteq [id : Invs, org : Orgs, email : Emails, role : Roles]
            /\ backend = "sql" => invites' = {}
        BY <1>1 DEF Typed, TypeOK
      <3>4. \A p \in Orgs : slug[p] = Nothing =>
              p \notin owned' /\ members'[p] = {} /\ PendingOf(p)' = {}
        BY <2>4, <2>7, <2>8 DEF IInv, NamedFirst, Unnamed, PendingOf
      <3>5. CalmNames(co[c], Idle) /\ CalmClaims(co[c], Idle) /\ CalmCount(co[c], Idle)
        BY <2>6 DEF Calm
      <3>6. QED
        BY <1>4, <3>1, <3>2, <3>3, <3>4, <3>5, IdleTyped, Writes
    <2>10. CapKept'
      <3>1. \A p \in Orgs : ~Adding(co'[c], p)
        BY <2>5 DEF Adding, Creating, Idle
      <3>2. ASSUME NEW p \in Orgs, p # o
            PROVE  /\ IsFiniteSet(members'[p])
                   /\ Cardinality(members'[p]) + Cardinality(Adders(p)') < MaxMembers + Cardinality(Coros)
                   /\ ~Raced("cap", p)' => Cardinality(members'[p]) + Cardinality(Adders(p)') <= MaxMembers
        BY <2>5, <2>7, <3>1, <3>2, CapLess DEF IInv
      <3>3. PICK A : A = Adders(o)'
        OBVIOUS
      <3>4. A = Adders(o) \ {c} /\ c \in Adders(o)
        BY <1>1, <2>5, <3>1, <3>3 DEF Adders, Adding, Only
      <3>5. IsFiniteSet(A) /\ Cardinality(A) = Cardinality(Adders(o)) - 1
        BY <3>4, AddersFinite, FS_RemoveElement
      <3>6. IsFiniteSet(members[o])
        BY DEF IInv, CapKept
      <3>7. IsFiniteSet(members'[o]) /\ Cardinality(members'[o]) = Cardinality(members[o]) + 1
        <4>1. /\ IsFiniteSet(members[o] \cup {u})
              /\ u \notin members[o] => Cardinality(members[o] \cup {u}) = Cardinality(members[o]) + 1
          BY <3>6, FS_AddElement
        <4>2. QED
          BY <2>1, <2>7, <4>1
      <3>8. Cardinality(members'[o]) + Cardinality(A) <= Cardinality(members[o]) + Cardinality(Adders(o))
        BY <3>5, <3>6, <3>7, FS_CardinalityType, AddersFinite
      <3>9. /\ Cardinality(members'[o]) + Cardinality(A) < MaxMembers + Cardinality(Coros)
            /\ ~Raced("cap", o)' => Cardinality(members'[o]) + Cardinality(A) <= MaxMembers
        BY <3>3, <3>5, <3>7, <3>8, CapSums DEF IInv
      <3>10. \A p \in Orgs :
              /\ IsFiniteSet(members'[p])
              /\ Cardinality(members'[p]) + Cardinality(Adders(p)') < MaxMembers + Cardinality(Coros)
              /\ ~Raced("cap", p)' => Cardinality(members'[p]) + Cardinality(Adders(p)') <= MaxMembers
        BY <3>2, <3>3, <3>7, <3>9
      <3>11. QED
        BY <3>10 DEF CapKept
    <2>11. OwnersLeft'
      <3>1. \A p \in Orgs, d \in Coros : Applying(co'[d], p) => Applying(co[d], p) /\ co'[d] = co[d]
        BY <2>5 DEF Only, Applying, Idle
      <3>2. \A p \in Orgs : ~Deletes(co[c], p)
        BY <1>1 DEF Deletes
      <3>3. \A p \in Orgs : Settled(p)' => Settled(p)
        BY <2>5, <3>2, SettledStays
      <3>4. \A p \in Orgs : p # o => Owners(p)' = Owners(p)
        BY <2>7 DEF Owners
      <3>5. Owners(o) \subseteq Owners(o)' /\ Owners(o)' \subseteq Owners(o) \cup {u}
        <4>1. members[o] \subseteq Users
          BY <1>1 DEF Typed, TypeOK
        <4>2. QED
          BY <2>1, <2>7, <4>1 DEF Owners
      <3>6. x = "owner" => u \in Owners(o)'
        BY <2>7 DEF Owners
      <3>7. ASSUME NEW p \in Orgs, Settled(p)', NEW d \in Coros, Applying(co'[d], p)
            PROVE  co'[d].user \in members'[p] /\ (Down(co'[d]) => Owners(p)' # {co'[d].user})
        <4>1. co[d].user \in members[p] /\ (Down(co[d]) => Owners(p) # {co[d].user}) /\ co'[d] = co[d]
          BY <3>1, <3>3, <3>7 DEF IInv, OwnersLeft
        <4>2. CASE p = o
          BY <2>1, <2>7, <3>5, <4>1, <4>2
        <4>3. CASE p # o
          BY <2>7, <3>4, <4>1, <4>3
        <4>4. QED
          BY <4>2, <4>3
      <3>8. ASSUME NEW p \in Orgs, Settled(p)', p \in owned'
            PROVE  Owners(p)' # {}
        <4>1. p \in owned => Owners(p) # {}
          BY <3>3, <3>8 DEF IInv, OwnersLeft
        <4>2. QED
          BY <2>4, <3>4, <3>5, <3>6, <3>8, <4>1
      <3>9. \A p \in Orgs : ~Raced("owner", p)' =>
              \A d, e \in Coros : Applying(co'[d], p) /\ Applying(co'[e], p) => d = e
        BY <3>1 DEF IInv, OwnersLeft, Raced
      <3>10. QED
        BY <3>7, <3>8, <3>9 DEF OwnersLeft
    <2>12. WipedClean'
      <3>1. Writing(co[c], o) \/ (backend = "memory" /\ o \in orgs)
        BY DEF Writing
      <3>2. \A p \in Orgs \ {o} : members'[p] = members[p] /\ PendingOf(p)' = PendingOf(p)
        BY <2>7 DEF PendingOf
      <3>3. QED
        BY <2>5, <3>1, <3>2, WrittenClean
    <2>13. Tickets'
      <3>1. PICK i : i = co[c].inv
        OBVIOUS
      <3>2. \A j \in Invs, d \in Coros : /\ Holding(co'[d], j) => d # c /\ Holding(co[d], j)
                                         /\ Joining(co'[d], j) => d # c /\ Joining(co[d], j)
        BY <2>5 DEF Only, Holding, Joining, JoinSteps, Idle
      <3>3. co[c].op = "accept" => i \in Invs /\ Holding(co[c], i) /\ Joining(co[c], i)
        BY <1>1, <3>1 DEF Holding, Joining, JoinSteps, Shape
      <3>4. \A a \in admitted' : a \in admitted \/ (a = <<i, u>> /\ co[c].op = "accept")
        BY <2>3, <3>1
      <3>5. ASSUME NEW j \in Invs, ~Raced("token", j)'
            PROVE  /\ \A d, e \in Coros : Holding(co'[d], j) /\ Holding(co'[e], j) => d = e
                   /\ \A d \in Coros : Holding(co'[d], j) => \A a \in admitted' : a[1] # j
                   /\ \A a, b \in admitted' : a[1] = j /\ b[1] = j => a = b
        <4>1. /\ \A d, e \in Coros : Holding(co[d], j) /\ Holding(co[e], j) => d = e
              /\ \A d \in Coros : Holding(co[d], j) => \A a \in admitted : a[1] # j
              /\ \A a, b \in admitted : a[1] = j /\ b[1] = j => a = b
          BY <3>5 DEF IInv, Tickets, Raced
        <4>2. co[c].op = "accept" /\ j = i =>
                /\ \A a \in admitted : a[1] # j
                /\ \A d \in Coros : ~Holding(co'[d], j)
          BY <3>2, <3>3, <4>1
        <4>3. QED
          BY <3>2, <3>4, <4>1, <4>2
      <3>6. \A y \in invites : y.id \in Invs
        BY <1>1 DEF Typed, TypeOK
      <3>7. \A y \in invites : \A a \in admitted' : a[1] # y.id
        BY <3>3, <3>4 DEF IInv, Tickets
      <3>8. \A y \in invites : \A d \in Coros : ~Joining(co'[d], y.id)
        BY <3>2, <3>6 DEF IInv, Tickets
      <3>9. QED
        BY <3>5, <3>7, <3>8 DEF Tickets
    <2>14. SentOnce'
      BY <2>5, <2>6, SendsStay DEF Calm, IInv
    <2>15. QED
      BY <2>9, <2>10, <2>11, <2>12, <2>13, <2>14 DEF IInv
  <1>7. QED
    BY <1>5, <1>6

LEMMA AddMemberInv ==
  ASSUME IInv, NEW c \in Coros, MemoryAddMember(c) \/ PutMember(c)
  PROVE  IInv'
  <1>1. /\ co[c] \in Frames /\ Shape(co[c]) /\ co[c].pc \in {"add", "insert"}
        /\ UNCHANGED <<backend, born, orgs, slug, invites, count, ttl, raced>>
    BY Here DEF MemoryAddMember, PutMember, At, orgRows, invitation, cacheKeys
  <1>2. PICK o \in Orgs : o = co[c].org
    BY <1>1 DEF Shape
  <1>3. CASE InsertMember(c) /\ (co[c].pc = "insert" \/ (backend = "memory" /\ o \in orgs /\ co[c].pc = "add"))
    BY <1>1, <1>2, <1>3, InsertMemberInv
  <1>4. CASE Become(c, Idle) /\ UNCHANGED memberRows
    <2>1. UNCHANGED data
      BY <1>1, <1>4 DEF data, stored, memberRows
    <2>2. QED
      BY <1>1, <1>4, <2>1, ReturnInv DEF Shape, DelSteps
  <1>5. QED
    BY <1>2, <1>3, <1>4, Returning DEF MemoryAddMember, PutMember, At

(* A removal or a demotion is applied. *)
LEMMA ApplyToMemberInv ==
  ASSUME IInv, NEW c \in Coros, ApplyToMember(c)
  PROVE  IInv'
  <1>1. /\ co[c] \in Frames /\ Shape(co[c]) /\ co[c].pc = "apply" /\ co[c].op \in {"remove", "role"}
        /\ Become(c, Idle) /\ Typed
        /\ UNCHANGED <<backend, born, orgs, slug, admitted, invites, count, ttl, raced>>
    BY Here, Returning DEF ApplyToMember, At, orgRows, invitation, cacheKeys, Shape
  <1>2. PICK o \in Orgs : o = co[c].org
    BY <1>1 DEF Shape
  <1>3. PICK u \in Users, x \in Roles : u = co[c].user /\ x = co[c].role
    BY <1>1 DEF Shape, Frames
  <1>4. co'[c] = Idle /\ Only(c) /\ Calm(co[c], Idle)
    BY <1>1, Became, CalmIdle
  <1>5. slug[o] # Nothing
    BY <1>1, <1>2, NamedRef DEF Refers, Creating
  <1>. DEFINE Removed == /\ co[c].op = "remove" /\ owned' = owned
                         /\ members' = [members EXCEPT ![o] = members[o] \ {u}]
                         /\ role' = [role EXCEPT ![o][u] = "member"]
              Changed == /\ co[c].op = "role" /\ members' = members
                         /\ role' = IF u \in members[o] THEN [role EXCEPT ![o][u] = x] ELSE role
                         /\ owned' = IF u \in members[o] /\ x = "owner" THEN owned \cup {o} ELSE owned
  <1>6. Removed \/ Changed
    BY <1>2, <1>3 DEF ApplyToMember, RemoveRow, ChangeRole
  <1>7. /\ members' \in [Orgs -> SUBSET Users] /\ role' \in [Orgs -> [Users -> Roles]]
        /\ owned' \subseteq owned \cup {o} /\ owned \subseteq owned'
        /\ \A p \in Orgs : members'[p] \subseteq members[p]
        /\ \A p \in Orgs : p # o => members'[p] = members[p] /\ role'[p] = role[p]
        /\ \A v \in Users : v # u => (v \in members'[o] <=> v \in members[o]) /\ role'[o][v] = role[o][v]
    <2>1. members \in [Orgs -> SUBSET Users] /\ role \in [Orgs -> [Users -> Roles]]
      BY <1>1 DEF Typed, TypeOK
    <2>2. CASE Removed
      BY <2>1, <2>2, RolesAssumption
    <2>3. CASE Changed
      BY <2>1, <2>3
    <2>4. QED
      BY <1>6, <2>2, <2>3
  <1>8. Typed' /\ NamedFirst' /\ SlugsClaimed' /\ Counted' /\ Alone'
    <2>1. owned' \subseteq Orgs /\ admitted' \subseteq Invs \X Users
      BY <1>1, <1>7 DEF Typed
    <2>2. /\ invites' \subseteq [id : Invs, org : Orgs, email : Emails, role : Roles]
          /\ backend = "sql" => invites' = {}
      BY <1>1 DEF Typed, TypeOK
    <2>3. \A p \in Orgs : slug[p] = Nothing =>
            p \notin owned' /\ members'[p] = {} /\ PendingOf(p)' = {}
      BY <1>1, <1>5, <1>7 DEF IInv, NamedFirst, Unnamed, PendingOf
    <2>4. CalmNames(co[c], Idle) /\ CalmClaims(co[c], Idle) /\ CalmCount(co[c], Idle)
      BY <1>4 DEF Calm
    <2>5. QED
      BY <1>1, <1>7, <2>1, <2>2, <2>3, <2>4, IdleTyped, Writes
  <1>9. CapKept' /\ WipedClean' /\ Tickets' /\ SentOnce'
    <2>1. \A p \in Orgs : p \notin born' \ born
      BY <1>1
    <2>2. QED
      BY <1>1, <1>4, <1>7, <2>1, CapStays, WipesStay, TicketsStay, SendsStay DEF Calm, IInv, Typed, TypeOK
  <1>10. OwnersLeft'
    <2>1. \A p \in Orgs, d \in Coros : Applying(co'[d], p) => d # c /\ Applying(co[d], p) /\ co'[d] = co[d]
      BY <1>4 DEF Only, Applying, Idle
    <2>2. \A p \in Orgs : ~Deletes(co[c], p)
      BY <1>1 DEF Deletes
    <2>3. \A p \in Orgs : Settled(p)' => Settled(p)
      BY <1>1, <1>4, <2>2, SettledStays
    <2>4. \A p \in Orgs : p # o => Owners(p)' = Owners(p)
      BY <1>7 DEF Owners
    <2>5. Applying(co[c], o)
      BY <1>1, <1>2 DEF Applying
    <2>6. Settled(o)' => \A d \in Coros : ~Applying(co'[d], o)
      BY <2>1, <2>3, <2>5 DEF IInv, OwnersLeft, Settled
    <2>7. ASSUME Settled(o)', o \in owned'
          PROVE  Owners(o)' # {}
      <3>1. /\ u \in members[o] /\ (Down(co[c]) => Owners(o) # {u})
            /\ o \in owned => Owners(o) # {}
        BY <1>3, <2>3, <2>5, <2>7 DEF IInv, OwnersLeft
      <3>2. \A v \in Owners(o) : v # u => v \in Owners(o)'
        <4>1. members[o] \subseteq Users
          BY <1>1 DEF Typed, TypeOK
        <4>2. QED
          BY <1>7, <4>1 DEF Owners
      <3>3. CASE Down(co[c])
        <4>1. o \in owned
          BY <1>3, <1>6, <2>7, <3>3 DEF Down
        <4>2. QED
          BY <3>1, <3>2, <3>3, <4>1
      <3>4. CASE ~Down(co[c])
        <4>1. x = "owner" /\ Changed
          BY <1>3, <1>6, <3>4 DEF Down
        <4>2. u \in members'[o] /\ role'[o][u] = "owner"
          BY <1>1, <3>1, <4>1 DEF Typed, TypeOK
        <4>3. QED
          BY <4>2 DEF Owners
      <3>5. QED
        BY <3>3, <3>4
    <2>8. \A p \in Orgs : Settled(p)' => \A d \in Coros : Applying(co'[d], p) =>
            co'[d].user \in members'[p] /\ (Down(co'[d]) => Owners(p)' # {co'[d].user})
      BY <1>7, <2>1, <2>3, <2>4, <2>6 DEF IInv, OwnersLeft
    <2>9. \A p \in Orgs : Settled(p)' /\ p \in owned' => Owners(p)' # {}
      BY <1>7, <2>3, <2>4, <2>7 DEF IInv, OwnersLeft
    <2>10. \A p \in Orgs : ~Raced("owner", p)' =>
            \A d, e \in Coros : Applying(co'[d], p) /\ Applying(co'[e], p) => d = e
      BY <1>1, <2>1 DEF IInv, OwnersLeft, Raced
    <2>11. QED
      BY <2>8, <2>9, <2>10 DEF OwnersLeft
  <1>11. QED
    BY <1>8, <1>9, <1>10 DEF IInv

LEMMA NewInvitationInv ==
  ASSUME IInv, NEW c \in Coros, MemoryInvite(c) \/ PutInvitation(c)
  PROVE  IInv'
  <1>1. /\ co[c] \in Frames /\ Shape(co[c]) /\ Belongs(co[c]) /\ co[c].pc \in {"create", "insertinv"}
        /\ co[c].op = "invite" /\ Typed
        /\ UNCHANGED <<backend, born, orgs, slug, members, role, admitted, owned, count, ttl, raced>>
    BY Here DEF MemoryInvite, PutInvitation, At, orgRows, memberRows, cacheKeys, Shape, SendSteps
  <1>2. PICK o \in Orgs : o = co[c].org
    BY <1>1 DEF Shape
  <1>3. CASE Become(c, Idle) /\ UNCHANGED invites
    <2>1. UNCHANGED data
      BY <1>1, <1>3 DEF data, stored
    <2>2. QED
      BY <1>1, <1>3, <2>1, ReturnInv DEF Shape, DelSteps
  <1>4. CASE NewInvitation(c) /\ (co[c].pc = "insertinv" \/ (backend = "memory" /\ o \in orgs))
    <2>1. PICK i \in Invs \ ({x.id : x \in invites} \cup {a[1] : a \in admitted}
                            \cup {co[d].inv : d \in Coros}) :
            /\ invites' = invites \cup {[id |-> i, org |-> co[c].org, email |-> co[c].text,
                                         role |-> co[c].role]}
            /\ Return(c, "done")
      BY <1>4 DEF NewInvitation
    <2>2. PICK e \in Emails, x \in Roles : e = co[c].text /\ x = co[c].role
      BY <1>1 DEF Shape, Frames
    <2>3. PICK row \in [id : Invs, org : Orgs, email : Emails, role : Roles] :
            row.id = i /\ row.org = o /\ row.email = e /\ invites' = invites \cup {row}
      BY <1>2, <2>1, <2>2
    <2>4. co'[c] = Idle /\ Only(c) /\ Calm(co[c], Idle) /\ Become(c, Idle)
      BY <1>1, <2>1, Became, CalmIdle, Returning
    <2>5. slug[o] # Nothing
      BY <1>1, <1>2, NamedRef DEF Refers, Creating
    <2>6. Typed' /\ NamedFirst' /\ SlugsClaimed' /\ Counted' /\ Alone'
      <3>1. /\ members' \in [Orgs -> SUBSET Users] /\ role' \in [Orgs -> [Users -> Roles]]
            /\ owned' \subseteq Orgs /\ admitted' \subseteq Invs \X Users
        BY <1>1 DEF Typed, TypeOK
      <3>2. /\ invites' \subseteq [id : Invs, org : Orgs, email : Emails, role : Roles]
            /\ backend = "sql" => invites' = {}
        BY <1>1, <1>4, <2>3 DEF Typed, TypeOK, Belongs
      <3>3. \A p \in Orgs : slug[p] = Nothing =>
              p \notin owned' /\ members'[p] = {} /\ PendingOf(p)' = {}
        BY <1>1, <2>3, <2>5 DEF IInv, NamedFirst, Unnamed, PendingOf
      <3>4. CalmNames(co[c], Idle) /\ CalmClaims(co[c], Idle) /\ CalmCount(co[c], Idle)
        BY <2>4 DEF Calm
      <3>5. QED
        BY <1>1, <2>4, <3>1, <3>2, <3>3, <3>4, IdleTyped, Writes
    <2>7. CapKept'
      BY <1>1, <2>4, CapStays DEF Calm, IInv
    <2>8. OwnersLeft'
      <3>1. \A p \in Orgs : ~Deletes(co[c], p)
        BY <1>1 DEF Deletes
      <3>2. QED
        BY <1>1, <2>4, <3>1, OwnersStay DEF Calm, IInv
    <2>9. WipedClean'
      <3>1. Writing(co[c], o) \/ (backend = "memory" /\ o \in orgs)
        BY <1>2, <1>4 DEF Writing
      <3>2. \A p \in Orgs \ {o} : members'[p] = members[p] /\ PendingOf(p)' = PendingOf(p)
        BY <1>1, <2>3 DEF PendingOf
      <3>3. QED
        BY <1>1, <2>4, <3>1, <3>2, WrittenClean
    <2>10. Tickets'
      <3>1. \A a \in admitted : a[1] # i
        BY <2>1
      <3>2. \A d \in Coros : co[d].inv # i
        BY <2>1
      <3>3. \A d \in Coros : \A j \in Invs : /\ Holding(co'[d], j) => Holding(co[d], j)
                                             /\ Joining(co'[d], j) => Joining(co[d], j)
        BY <2>4 DEF Calm, CalmTickets, Only
      <3>4. \A y \in invites' : y.id \in Invs /\ (y \in invites \/ y.id = i)
        BY <1>1, <2>3 DEF Typed, TypeOK
      <3>5. \A y \in invites' : \A a \in admitted' : a[1] # y.id
        BY <1>1, <3>1, <3>4 DEF IInv, Tickets
      <3>6. \A y \in invites' : \A d \in Coros : ~Joining(co'[d], y.id)
        BY <3>2, <3>3, <3>4 DEF IInv, Tickets, Joining
      <3>7. \A j \in Invs : ~Raced("token", j)' =>
              /\ \A d, f \in Coros : Holding(co'[d], j) /\ Holding(co'[f], j) => d = f
              /\ \A d \in Coros : Holding(co'[d], j) => \A a \in admitted' : a[1] # j
              /\ \A a, b \in admitted' : a[1] = j /\ b[1] = j => a = b
        BY <1>1, <3>3 DEF IInv, Tickets, Raced
      <3>8. QED
        BY <3>5, <3>6, <3>7 DEF Tickets
    <2>11. SentOnce'
      <3>1. Sending(co[c], o)
        BY <1>1, <1>2 DEF Sending, SendSteps
      <3>2. \A p \in Orgs, d \in Coros : Sending(co'[d], p) => d # c /\ Sending(co[d], p) /\ co'[d] = co[d]
        BY <2>4 DEF Only, Sending, SendSteps, Idle
      <3>3. \A p \in Orgs : p # o => PendingOf(p)' = PendingOf(p)
        BY <2>3 DEF PendingOf
      <3>4. PendingOf(o)' = PendingOf(o) \cup {row}
        BY <2>3 DEF PendingOf
      <3>5. ~Raced("invite", o) => /\ \A d \in Coros : ~Sending(co'[d], o)
                                   /\ \A y \in PendingOf(o) : y.email # e
        BY <2>2, <3>1, <3>2 DEF IInv, SentOnce
      <3>6. ASSUME NEW p \in Orgs, ~Raced("invite", p)'
            PROVE  /\ \A d, f \in Coros : Sending(co'[d], p) /\ Sending(co'[f], p) => d = f
                   /\ \A d \in Coros : Sending(co'[d], p) => \A y \in PendingOf(p)' : y.email # co'[d].text
                   /\ \A y, z \in PendingOf(p)' : y.email = z.email => y = z
        <4>1. ~Raced("invite", p)
          BY <1>1, <3>6 DEF Raced
        <4>2. CASE p = o
          BY <2>3, <3>4, <3>5, <4>1, <4>2 DEF IInv, SentOnce
        <4>3. CASE p # o
          BY <3>2, <3>3, <4>1, <4>3 DEF IInv, SentOnce
        <4>4. QED
          BY <4>2, <4>3
      <3>7. QED
        BY <3>6 DEF SentOnce
    <2>12. QED
      BY <2>6, <2>7, <2>8, <2>9, <2>10, <2>11 DEF IInv
  <1>5. QED
    BY <1>2, <1>3, <1>4, Returning DEF MemoryInvite, PutInvitation, At

LEMMA ConsumeInv ==
  ASSUME IInv, NEW c \in Coros, Consume(c)
  PROVE  IInv'
  <1>1. /\ co[c] \in Frames /\ Shape(co[c]) /\ co[c].pc = "consume" /\ Typed
        /\ co[c].op \in {"accept", "decline"}
        /\ UNCHANGED <<backend, born, orgs, slug, members, role, admitted, owned, count, ttl, raced>>
    BY Here DEF Consume, At, orgRows, memberRows, cacheKeys, Shape
  <1>2. PICK i \in Invs : i = co[c].inv
    BY <1>1 DEF Shape
  <1>3. invites' = {x \in invites : x.id # i}
    BY <1>2 DEF Consume
  <1>4. PICK r \in Frames :
          /\ Become(c, r) /\ Shape(r) /\ Belongs(r)
          /\ IF co[c].op = "accept"
             THEN r.pc = "org" /\ r.op = "accept" /\ r.org = co[c].org /\ r.inv = i ELSE r = Idle
    <2>1. CASE co[c].op = "accept"
      <3>1. PICK r : r = With(co[c], "org") /\ Become(c, r)
        BY <2>1, Going DEF Consume
      <3>2. /\ r \in Frames /\ r.pc = "org" /\ r.op = co[c].op /\ r.org = co[c].org /\ r.text = co[c].text
            /\ r.user = co[c].user /\ r.role = co[c].role /\ r.inv = co[c].inv
        BY <1>1, <3>1, MovedTo DEF Steps
      <3>3. Shape(r) /\ Belongs(r)
        BY <1>1, <2>1, <3>2 DEF Shape, Belongs, DelSteps, SendSteps, JoinSteps
      <3>4. QED
        BY <1>2, <2>1, <3>1, <3>2, <3>3
    <2>2. CASE co[c].op # "accept"
      BY <2>2, IdleTyped, Returning DEF Consume
    <2>3. QED
      BY <2>1, <2>2
  <1>5. /\ CalmNames(co[c], r) /\ CalmClaims(co[c], r) /\ CalmCount(co[c], r)
        /\ CalmCap(co[c], r) /\ CalmOwners(co[c], r) /\ CalmWipes(co[c], r) /\ CalmSends(co[c], r)
    <2>1. CASE r = Idle
      BY <1>1, <2>1, CalmIdle DEF Calm
    <2>2. CASE r # Idle
      BY <1>1, <1>4, <2>2 DEF CalmNames, CalmClaims, CalmCount, CalmCap, CalmOwners, CalmWipes, CalmSends,
         Creating, Refers, Adding, Applying, Writing, Wiping, Sending, DelSteps, SendSteps
    <2>3. QED
      BY <2>1, <2>2
  <1>6. Typed' /\ NamedFirst' /\ SlugsClaimed' /\ Counted' /\ Alone' /\ co'[c] = r /\ Only(c)
    <2>1. /\ members' \in [Orgs -> SUBSET Users] /\ role' \in [Orgs -> [Users -> Roles]]
          /\ owned' \subseteq Orgs /\ admitted' \subseteq Invs \X Users
          /\ invites' \subseteq [id : Invs, org : Orgs, email : Emails, role : Roles]
          /\ backend = "sql" => invites' = {}
      BY <1>1, <1>3 DEF Typed, TypeOK
    <2>2. \A p \in Orgs : slug[p] = Nothing =>
            p \notin owned' /\ members'[p] = {} /\ PendingOf(p)' = {}
      BY <1>1, <1>3 DEF IInv, NamedFirst, Unnamed, PendingOf
    <2>3. QED
      BY <1>1, <1>4, <1>5, <2>1, <2>2, Writes
  <1>7. /\ CapKept' /\ WipedClean' /\ SentOnce' /\ OwnersLeft'
    <2>1. \A p \in Orgs : p \notin born' \ born /\ ~Deletes(co[c], p)
      BY <1>1 DEF Deletes
    <2>2. QED
      BY <1>1, <1>3, <1>5, <1>6, <2>1, CapStays, WipesStay, SendsStay, OwnersStay DEF IInv
  <1>8. Tickets'
    <2>1. \A j \in Invs, d \in Coros : /\ Holding(co'[d], j) => Holding(co[d], j)
                                       /\ Joining(co'[d], j) => Joining(co[d], j) \/ j = i
      BY <1>1, <1>2, <1>4, <1>6 DEF Only, Holding, Joining, JoinSteps, Idle
    <2>2. \A y \in invites' : y \in invites /\ y.id \in Invs /\ y.id # i
      BY <1>1, <1>3 DEF Typed, TypeOK
    <2>3. \A y \in invites' : /\ \A a \in admitted' : a[1] # y.id
                              /\ \A d \in Coros : ~Joining(co'[d], y.id)
      BY <1>1, <2>1, <2>2 DEF IInv, Tickets
    <2>4. \A j \in Invs : ~Raced("token", j)' =>
            /\ \A d, e \in Coros : Holding(co'[d], j) /\ Holding(co'[e], j) => d = e
            /\ \A d \in Coros : Holding(co'[d], j) => \A a \in admitted' : a[1] # j
            /\ \A a, b \in admitted' : a[1] = j /\ b[1] = j => a = b
      BY <1>1, <2>1 DEF IInv, Tickets, Raced
    <2>5. QED
      BY <2>3, <2>4 DEF Tickets
  <1>9. QED
    BY <1>6, <1>7, <1>8 DEF IInv

(* Rows of invitations go, and the coroutine is where it was. *)
LEMMA PurgeNextInv ==
  ASSUME IInv, NEW c \in Coros, PurgeNext(c)
  PROVE  IInv'
  <1>1. /\ co[c] \in Frames /\ Shape(co[c]) /\ co[c].pc = "purge" /\ co[c].op = "list" /\ Typed
        /\ UNCHANGED <<backend, born, orgs, slug, members, role, admitted, owned, count, ttl, raced>>
    BY Here DEF PurgeNext, At, orgRows, memberRows, cacheKeys, Shape
  <1>2. CASE Become(c, Idle) /\ UNCHANGED invites
    <2>1. UNCHANGED data
      BY <1>1, <1>2 DEF data, stored
    <2>2. QED
      BY <1>1, <1>2, <2>1, ReturnInv
  <1>3. ASSUME NEW i \in co[c].list, NEW late \in BOOLEAN,
               invites' = IF late THEN {x \in invites : x.id # i} ELSE invites,
               co' = [co EXCEPT ![c].list = @ \ {i}]
        PROVE  IInv'
    <2>. DEFINE r == [co[c] EXCEPT !.list = co[c].list \ {i}]
    <2>1. Become(c, r)
      BY <1>3 DEF Become
    <2>2. /\ r \in Frames /\ r.pc = "purge" /\ r.op = "list" /\ r.org = co[c].org
      BY <1>1 DEF Frames
    <2>. HIDE DEF r
    <2>3. Shape(r) /\ Belongs(r)
      BY <1>1, <2>2 DEF Shape, Belongs, DelSteps, SendSteps, JoinSteps
    <2>4. Calm(co[c], r)
      BY <1>1, <2>2 DEF Calm, CalmNames, CalmClaims, CalmCap, CalmOwners, CalmWipes, CalmTickets,
         CalmSends, CalmCount, Creating, Refers, Adding, Applying, Writing, Wiping, Holding, Joining,
         Sending, DelSteps, SendSteps, JoinSteps
    <2>5. Typed' /\ NamedFirst' /\ SlugsClaimed' /\ Counted' /\ Alone' /\ co'[c] = r /\ Only(c)
      <3>1. /\ members' \in [Orgs -> SUBSET Users] /\ role' \in [Orgs -> [Users -> Roles]]
            /\ owned' \subseteq Orgs /\ admitted' \subseteq Invs \X Users
            /\ invites' \subseteq [id : Invs, org : Orgs, email : Emails, role : Roles]
            /\ backend = "sql" => invites' = {}
        BY <1>1, <1>3 DEF Typed, TypeOK
      <3>2. \A p \in Orgs : slug[p] = Nothing =>
              p \notin owned' /\ members'[p] = {} /\ PendingOf(p)' = {}
        BY <1>1, <1>3 DEF IInv, NamedFirst, Unnamed, PendingOf
      <3>3. CalmNames(co[c], r) /\ CalmClaims(co[c], r) /\ CalmCount(co[c], r)
        BY <2>4 DEF Calm
      <3>4. QED
        BY <1>1, <2>1, <2>2, <2>3, <3>1, <3>2, <3>3, Writes
    <2>6. /\ CapKept' /\ WipedClean' /\ SentOnce' /\ OwnersLeft' /\ Tickets'
      <3>1. \A p \in Orgs : p \notin born' \ born /\ ~Deletes(co[c], p)
        BY <1>1 DEF Deletes
      <3>2. invites' \subseteq invites
        BY <1>3
      <3>3. CapKept' /\ WipedClean' /\ SentOnce'
        BY <1>1, <2>4, <2>5, <3>1, <3>2, CapStays, WipesStay, SendsStay DEF IInv, Calm
      <3>4. OwnersLeft' /\ Tickets'
        BY <1>1, <2>4, <2>5, <3>1, <3>2, OwnersStay, TicketsStay DEF IInv, Calm, Typed, TypeOK
      <3>5. QED
        BY <3>3, <3>4
    <2>7. QED
      BY <2>5, <2>6 DEF IInv
  <1>4. QED
    <2>1. CASE co[c].list = {}
      BY <1>2, <2>1, Returning DEF PurgeNext
    <2>2. CASE co[c].list # {}
      BY <1>3, <2>2 DEF PurgeNext
    <2>3. QED
      BY <2>1, <2>2

-----------------------------------------------------------------------------
(* Deletions *)

LEMMA DeletionInv ==
  ASSUME IInv, NEW c \in Coros, NEW o \in Orgs, co[c].op = "delete", co[c].org = o,
         NEW r \in Frames, Shape(r), Belongs(r), Become(c, r),
         r = Idle \/ (r.pc \in DelSteps \ {"delmembers"} /\ r.org = o),
         IF r = Idle THEN o \notin orgs' ELSE orgs' = orgs,
         orgs' \subseteq orgs, \A p \in Orgs : p # o => (p \in orgs' <=> p \in orgs),
         members' \in [Orgs -> SUBSET Users], \A p \in Orgs : members'[p] \subseteq members[p],
         \A p \in Orgs : p # o => members'[p] = members[p],
         invites' \subseteq invites,
         UNCHANGED <<backend, born, slug, role, admitted, owned, count, ttl>>,
         raced \subseteq raced',
         \A x \in raced' : x \in raced \/ backend # "memory" \/ x[1] \in {"counter", "invite"},
         ~Raced("cascade", o)' => \A d \in Coros \ {c} : ~Writing(co[d], o),
         ~Raced("cascade", o)' /\ r # Idle => Wiped(r, o)',
         ~Raced("cascade", o)' /\ r = Idle => members'[o] = {} /\ PendingOf(o)' = {}
  PROVE  IInv'
  <1>1. /\ co[c] \in Frames /\ Shape(co[c]) /\ co[c].pc \in DelSteps /\ Typed
        /\ co'[c] = r /\ Only(c)
    BY Here, Became DEF Shape
  <1>2. r # Idle => r.op = "delete"
    BY DEF Shape
  <1>3. /\ CalmNames(co[c], r) /\ CalmClaims(co[c], r) /\ CalmCount(co[c], r) /\ CalmTickets(co[c], r)
        /\ CalmCap(co[c], r) /\ CalmOwners(co[c], r) /\ CalmSends(co[c], r)
    <2>1. CASE r = Idle
      BY <1>1, <2>1, CalmIdle DEF Calm, DelSteps
    <2>2. CASE r # Idle
      BY <1>1, <1>2, <2>2 DEF CalmNames, CalmClaims, CalmCount, CalmTickets, CalmCap, CalmOwners, CalmSends,
         Creating, Refers, Adding, Applying, Holding, Joining, Sending, DelSteps, SendSteps, JoinSteps
    <2>3. QED
      BY <2>1, <2>2
  <1>4. Typed'
    <2>1. /\ co' \in [Coros -> Frames] /\ \A d \in Coros : co'[d] \in Frames /\ Shape(co'[d])
          /\ \A d \in Coros : Belongs(co[d])'
      BY <1>1, BecomeTyped
    <2>2. TypeOK'
      BY <1>1, <2>1 DEF Typed, TypeOK
    <2>3. QED
      BY <1>1, <2>1, <2>2 DEF Typed
  <1>5. NamedFirst'
    <2>1. \A p \in Orgs : slug[p] = Nothing =>
            p \notin orgs' /\ p \notin owned' /\ members'[p] = {} /\ PendingOf(p)' = {}
      BY DEF IInv, NamedFirst, Unnamed, PendingOf
    <2>2. QED
      BY <1>1, <1>3, <2>1, NamesKept DEF IInv
  <1>6. SlugsClaimed' /\ CapKept' /\ Tickets' /\ SentOnce' /\ Counted' /\ Alone'
    <2>1. SlugsClaimed' /\ CapKept' /\ SentOnce'
      BY <1>1, <1>3, ClaimsKept, CapStays, SendsStay DEF IInv
    <2>2. Tickets' /\ Counted' /\ Alone'
      BY <1>1, <1>3, TicketsStay, CountStays, AloneStays DEF IInv, Typed, TypeOK
    <2>3. QED
      BY <2>1, <2>2
  <1>7. OwnersLeft'
    <2>1. \A p \in Orgs : Deletes(co[c], p) => Deletes(co'[c], p) \/ p \notin orgs' \/ Raced("partial", p)'
      BY <1>1, <1>2 DEF Deletes, DelSteps
    <2>2. ~Settled(o)'
      BY <1>1, <1>2 DEF Settled, BeingDeleted, At, DelSteps
    <2>3. \A p \in Orgs : Settled(p)' => members'[p] = members[p] /\ role'[p] = role[p]
      BY <2>2
    <2>4. QED
      BY <1>1, <1>3, <2>1, <2>3, OwnersStay DEF IInv
  <1>8. WipedClean'
    <2>1. \A p \in Orgs : /\ PendingOf(p)' \subseteq PendingOf(p)
                          /\ ~Raced("cascade", p)' => ~Raced("cascade", p)
      BY DEF PendingOf, Raced
    <2>2. \A p \in Orgs, d \in Coros : Writing(co'[d], p) => d # c /\ Writing(co[d], p)
      BY <1>1 DEF Only, Writing, Idle, DelSteps
    <2>3. \A p \in Orgs, d \in Coros : Wiping(co'[d], p) =>
            (d = c /\ p = o /\ r # Idle) \/ (d # c /\ Wiping(co[d], p) /\ co'[d] = co[d])
      BY <1>1 DEF Only, Wiping, Idle, DelSteps
    <2>4. ASSUME NEW p \in Orgs, ~Raced("cascade", p)', NEW d \in Coros, Wiping(co'[d], p)
          PROVE  Wiped(co[d], p)'
      <3>1. CASE d = c
        BY <1>1, <2>3, <2>4, <3>1 DEF Wiped
      <3>2. CASE d # c
        <4>1. Wiping(co[d], p) /\ co'[d] = co[d] /\ Wiped(co[d], p)
          BY <2>1, <2>3, <2>4, <3>2 DEF IInv, WipedClean
        <4>2. QED
          BY <2>1, <4>1 DEF Wiped
      <3>3. QED
        BY <3>1, <3>2
    <2>5. ASSUME NEW p \in Orgs, ~Raced("cascade", p)'
          PROVE  /\ \A d \in Coros : Writing(co'[d], p) => p \in orgs' /\ \A e \in Coros : ~Wiping(co'[e], p)
                 /\ p \in born' \ orgs' => members'[p] = {} /\ PendingOf(p)' = {}
      <3>1. CASE p = o
        <4>1. \A d \in Coros : ~Writing(co'[d], p)
          BY <2>2, <2>5, <3>1
        <4>2. ASSUME p \in born' \ orgs'
              PROVE  members'[p] = {} /\ PendingOf(p)' = {}
          <5>1. CASE p \in orgs
            BY <2>5, <3>1, <4>2, <5>1
          <5>2. CASE p \notin orgs
            BY <2>1, <2>5, <4>2, <5>2 DEF IInv, WipedClean
          <5>3. QED
            BY <5>1, <5>2
        <4>3. QED
          BY <4>1, <4>2
      <3>2. CASE p # o
        BY <2>1, <2>2, <2>3, <2>5, <3>2 DEF IInv, WipedClean
      <3>3. QED
        BY <3>1, <3>2
    <2>6. QED
      BY <2>4, <2>5 DEF WipedClean
  <1>9. QED
    BY <1>4, <1>5, <1>6, <1>7, <1>8 DEF IInv

(* The mark of a deletion, over the adapters that yield. *)
LEMMA Stamped ==
  ASSUME NEW c \in Coros, Stamp(c), backend # "memory", NEW o, o = co[c].org
  PROVE  /\ raced \subseteq raced'
         /\ \A x \in raced' : x \in raced \/ backend # "memory" \/ x[1] \in {"counter", "invite"}
         /\ ~Raced("cascade", o)' => ~Raced("cascade", o)
         /\ ~Raced("cascade", o)' => \A d \in Coros \ {c} : ~Writing(co[d], o)
  <1>1. Overlap("cascade", o, Writers(c))
    BY DEF Stamp
  <1>2. \A d \in Coros \ {c} : Writing(co[d], o) => d \in Writers(c)
    BY DEF Writing, Writers, Others
  <1>3. raced \subseteq raced' /\ (~Raced("cascade", o)' => Writers(c) = {} /\ ~Raced("cascade", o))
    BY <1>1, Marked
  <1>4. QED
    BY <1>2, <1>3

LEMMA MemoryDeleteInv ==
  ASSUME IInv, NEW c \in Coros, MemoryDelete(c)
  PROVE  IInv'
  <1>1. /\ co[c] \in Frames /\ Shape(co[c]) /\ co[c].pc = "delmembers" /\ Typed /\ backend = "memory"
        /\ co[c].op = "delete" /\ Become(c, Idle)
        /\ UNCHANGED <<backend, born, slug, role, admitted, owned, count, ttl, raced>>
    BY Here, Returning DEF MemoryDelete, At, cacheKeys, Shape, DelSteps
  <1>2. PICK o \in Orgs : o = co[c].org
    BY <1>1 DEF Shape
  <1>3. CASE UNCHANGED <<orgs, members, invites>>
    <2>1. UNCHANGED data
      BY <1>1, <1>3 DEF data, stored
    <2>2. QED
      BY <1>1, <2>1, ReturnInv
  <1>4. CASE /\ orgs' = orgs \ {o} /\ members' = [members EXCEPT ![o] = {}]
             /\ invites' = invites \ PendingOf(o)
    <2>1. /\ members' \in [Orgs -> SUBSET Users] /\ \A p \in Orgs : members'[p] \subseteq members[p]
          /\ \A p \in Orgs : p # o => members'[p] = members[p]
          /\ members'[o] = {}
      BY <1>1, <1>4 DEF Typed, TypeOK
    <2>2. PendingOf(o)' = {}
      BY <1>4 DEF PendingOf
    <2>3. \A d \in Coros : ~Writing(co[d], o)
      BY <1>1, Here DEF Writing, Belongs
    <2>4. QED
      BY <1>1, <1>2, <1>4, <2>1, <2>2, <2>3, IdleTyped, DeletionInv
  <1>5. QED
    BY <1>2, <1>3, <1>4 DEF MemoryDelete

(* What is left once the members and the invitations are deleted. *)
LEMMA WipedHere ==
  ASSUME IInv, NEW c \in Coros, NEW o \in Orgs, o = co[c].org, ~Raced("cascade", o),
         co[c].pc \in DelSteps \ {"delmembers"}
  PROVE  Wiped(co[c], o)
  BY DEF IInv, WipedClean, Wiping

(* A step of a deletion to another of its steps, with a list to work through. *)
Lists(f, pc, rows) == [f EXCEPT !.pc = pc, !.list = rows]

LEMMA Listing ==
  ASSUME NEW f \in Frames, Shape(f), f.op = "delete",
         NEW pc \in DelSteps, NEW rows \in SUBSET (Users \cup Invs \cup {"all"})
  PROVE  /\ Lists(f, pc, rows) \in Frames /\ Shape(Lists(f, pc, rows)) /\ Lists(f, pc, rows).pc = pc
         /\ Lists(f, pc, rows).list = rows /\ Lists(f, pc, rows).org = f.org
  <1>1. pc \in Steps
    BY DEF DelSteps, Steps
  <1>2. PICK r : r = Lists(f, pc, rows)
    OBVIOUS
  <1>3. /\ r \in Frames /\ r.pc = pc /\ r.list = rows /\ r.org = f.org /\ r.op = f.op
    BY <1>1, <1>2, ZenonT(30) DEF Frames, Steps, Lists
  <1>4. f.org \in Orgs
    BY DEF Shape, DelSteps
  <1>5. Shape(r)
    BY <1>3, <1>4 DEF Shape, DelSteps, SendSteps, JoinSteps
  <1>6. QED
    BY <1>2, <1>3, <1>5

LEMMA SqlDeleteInv ==
  ASSUME IInv, NEW c \in Coros, SqlDelete(c)
  PROVE  IInv'
  <1>1. /\ co[c] \in Frames /\ Shape(co[c]) /\ Typed /\ backend = "sql" /\ Stamp(c)
        /\ co[c].pc \in {"delmembers", "commit"} /\ co[c].op = "delete"
        /\ UNCHANGED <<backend, born, slug, role, admitted, owned, count, ttl, invites>>
    BY Here DEF SqlDelete, At, cacheKeys, invitation, Shape, DelSteps
  <1>2. PICK o \in Orgs : o = co[c].org
    BY <1>1 DEF Shape, DelSteps
  <1>3. /\ raced \subseteq raced'
        /\ \A x \in raced' : x \in raced \/ backend # "memory" \/ x[1] \in {"counter", "invite"}
        /\ ~Raced("cascade", o)' => ~Raced("cascade", o)
        /\ ~Raced("cascade", o)' => \A d \in Coros \ {c} : ~Writing(co[d], o)
    BY <1>1, <1>2, Stamped
  <1>4. members \in [Orgs -> SUBSET Users]
    BY <1>1 DEF Typed, TypeOK
  <1>5. CASE At(c, "delmembers")
    <2>1. /\ co' = [co EXCEPT ![c].pc = "commit", ![c].list = members[o]]
          /\ UNCHANGED <<orgs, members>>
      BY <1>2, <1>5 DEF SqlDelete, At
    <2>2. PICK r : r = Lists(co[c], "commit", members[o])
      OBVIOUS
    <2>3. Become(c, r)
      BY <2>1, <2>2 DEF Become, Lists
    <2>4. r \in Frames /\ Shape(r) /\ r.pc = "commit" /\ r.list = members[o] /\ r.org = o
      <3>1. "commit" \in DelSteps /\ members[o] \in SUBSET (Users \cup Invs \cup {"all"})
        BY <1>4 DEF DelSteps
      <3>2. QED
        BY <1>1, <1>2, <2>2, <3>1, Listing
    <2>5. Belongs(r) /\ r # Idle /\ r.pc \in DelSteps \ {"delmembers"}
      BY <1>1, <2>4 DEF Belongs, Idle, DelSteps
    <2>6. Wiped(r, o)'
      BY <2>1, <2>4 DEF Wiped
    <2>7. QED
      BY <1>1, <1>2, <1>3, <1>4, <2>1, <2>3, <2>4, <2>5, <2>6, DeletionInv
  <1>6. CASE At(c, "commit")
    <2>1. /\ members' = [members EXCEPT ![o] = members[o] \ co[c].list] /\ orgs' = orgs \ {o}
          /\ Become(c, Idle) /\ co[c].pc = "commit"
      BY <1>2, <1>6, Returning DEF SqlDelete, At
    <2>2. /\ members' \in [Orgs -> SUBSET Users] /\ \A p \in Orgs : members'[p] \subseteq members[p]
          /\ \A p \in Orgs : p # o => members'[p] = members[p]
          /\ members'[o] = members[o] \ co[c].list
      BY <1>4, <2>1
    <2>3. ~Raced("cascade", o)' => members'[o] = {}
      BY <1>2, <1>3, <2>1, <2>2, WipedHere DEF Wiped, DelSteps
    <2>4. PendingOf(o)' = {}
      BY <1>1 DEF Typed, PendingOf
    <2>5. QED
      BY <1>1, <1>2, <1>3, <2>1, <2>2, <2>3, <2>4, IdleTyped, DeletionInv
  <1>7. QED
    BY <1>5, <1>6 DEF SqlDelete

LEMMA MongoDeleteInv ==
  ASSUME IInv, NEW c \in Coros, MongoDelete(c)
  PROVE  IInv'
  <1>1. /\ co[c] \in Frames /\ Shape(co[c]) /\ Typed /\ backend = "mongodb" /\ Stamp(c)
        /\ co[c].pc \in {"delmembers", "delinvites", "delorg"} /\ co[c].op = "delete"
        /\ UNCHANGED <<backend, born, slug, role, admitted, owned, count, ttl>>
    BY Here DEF MongoDelete, At, cacheKeys, Shape, DelSteps
  <1>2. PICK o \in Orgs : o = co[c].org
    BY <1>1 DEF Shape, DelSteps
  <1>3. /\ raced \subseteq raced'
        /\ \A x \in raced' : x \in raced \/ backend # "memory" \/ x[1] \in {"counter", "invite"}
        /\ ~Raced("cascade", o)' => ~Raced("cascade", o)
        /\ ~Raced("cascade", o)' => \A d \in Coros \ {c} : ~Writing(co[d], o)
    BY <1>1, <1>2, Stamped
  <1>4. members \in [Orgs -> SUBSET Users]
    BY <1>1 DEF Typed, TypeOK
  <1>5. ASSUME NEW pc \in DelSteps \ {"delmembers"}, Goto(c, pc)
        PROVE  \E r \in Frames : Become(c, r) /\ Shape(r) /\ r.pc = pc /\ r.list = co[c].list /\ r.org = o
    <2>1. PICK r : r = With(co[c], pc) /\ Become(c, r)
      BY <1>5, Going
    <2>2. /\ r \in Frames /\ r.pc = pc /\ r.op = co[c].op /\ r.org = co[c].org /\ r.text = co[c].text
          /\ r.user = co[c].user /\ r.role = co[c].role /\ r.inv = co[c].inv /\ r.list = co[c].list
      BY <1>1, <1>5, <2>1, MovedTo DEF Steps, DelSteps
    <2>3. Shape(r)
      BY <1>1, <1>2, <1>5, <2>2 DEF Shape, DelSteps, SendSteps, JoinSteps
    <2>4. QED
      BY <1>2, <2>1, <2>2, <2>3
  <1>6. CASE At(c, "delmembers")
    <2>1. /\ members' = [members EXCEPT ![o] = {}] /\ Goto(c, "delinvites") /\ UNCHANGED <<orgs, invites>>
      BY <1>2, <1>6 DEF MongoDelete, At
    <2>2. PICK r \in Frames : Become(c, r) /\ Shape(r) /\ r.pc = "delinvites" /\ r.org = o
      BY <1>5, <2>1 DEF DelSteps
    <2>3. /\ members' \in [Orgs -> SUBSET Users] /\ \A p \in Orgs : members'[p] \subseteq members[p]
          /\ \A p \in Orgs : p # o => members'[p] = members[p]
          /\ members'[o] = {}
      BY <1>4, <2>1
    <2>4. Belongs(r) /\ r # Idle /\ r.pc \in DelSteps \ {"delmembers"}
      BY <1>1, <2>2 DEF Belongs, Idle, DelSteps
    <2>5. Wiped(r, o)'
      BY <2>2, <2>3 DEF Wiped
    <2>6. QED
      BY <1>1, <1>2, <1>3, <2>1, <2>2, <2>3, <2>4, <2>5, DeletionInv
  <1>7. CASE At(c, "delinvites")
    <2>1. /\ invites' = invites \ PendingOf(o) /\ Goto(c, "delorg") /\ UNCHANGED <<orgs, members>>
          /\ co[c].pc = "delinvites"
      BY <1>2, <1>7 DEF MongoDelete, At
    <2>2. PICK r \in Frames : Become(c, r) /\ Shape(r) /\ r.pc = "delorg" /\ r.org = o
      BY <1>5, <2>1 DEF DelSteps
    <2>3. Belongs(r) /\ r # Idle /\ r.pc \in DelSteps \ {"delmembers"}
      BY <1>1, <2>2 DEF Belongs, Idle, DelSteps
    <2>4. ~Raced("cascade", o)' => members[o] = {}
      BY <1>2, <1>3, <2>1, WipedHere DEF Wiped, DelSteps
    <2>5. PendingOf(o)' = {}
      BY <2>1 DEF PendingOf
    <2>6. ~Raced("cascade", o)' => Wiped(r, o)'
      BY <2>1, <2>2, <2>4, <2>5 DEF Wiped
    <2>7. QED
      BY <1>1, <1>2, <1>3, <1>4, <2>1, <2>2, <2>3, <2>6, DeletionInv
  <1>8. CASE At(c, "delorg")
    <2>1. orgs' = orgs \ {o} /\ Become(c, Idle) /\ UNCHANGED <<members, invites>> /\ co[c].pc = "delorg"
      BY <1>2, <1>8, Returning DEF MongoDelete, At
    <2>2. ~Raced("cascade", o)' => members'[o] = {} /\ PendingOf(o)' = {}
      <3>1. ~Raced("cascade", o)' => members[o] = {} /\ PendingOf(o) = {}
        BY <1>2, <1>3, <2>1, WipedHere DEF Wiped, DelSteps
      <3>2. QED
        BY <2>1, <3>1 DEF PendingOf
    <2>3. QED
      BY <1>1, <1>2, <1>3, <1>4, <2>1, <2>2, IdleTyped, DeletionInv
  <1>9. QED
    BY <1>6, <1>7, <1>8 DEF MongoDelete

LEMMA DynamoDeleteInv ==
  ASSUME IInv, NEW c \in Coros, DynamoDelete(c)
  PROVE  IInv'
  <1>1. /\ co[c] \in Frames /\ Shape(co[c]) /\ Typed /\ backend = "dynamodb" /\ Stamp(c)
        /\ co[c].pc \in {"delmembers", "dropmembers", "dropinvites"} /\ co[c].op = "delete"
        /\ UNCHANGED <<backend, born, slug, role, admitted, owned, count, ttl>>
    BY Here DEF DynamoDelete, At, cacheKeys, Shape, DelSteps
  <1>2. PICK o \in Orgs : o = co[c].org
    BY <1>1 DEF Shape, DelSteps
  <1>3. /\ raced \subseteq raced'
        /\ \A x \in raced' : x \in raced \/ backend # "memory" \/ x[1] \in {"counter", "invite"}
        /\ ~Raced("cascade", o)' => ~Raced("cascade", o)
        /\ ~Raced("cascade", o)' => \A d \in Coros \ {c} : ~Writing(co[d], o)
    BY <1>1, <1>2, Stamped
  <1>4. /\ members \in [Orgs -> SUBSET Users]
        /\ invites \subseteq [id : Invs, org : Orgs, email : Emails, role : Roles]
        /\ co[c].list \in SUBSET (Users \cup Invs \cup {"all"})
    BY <1>1 DEF Typed, TypeOK, Frames
  <1>. DEFINE list(pc, rows) == co' = [co EXCEPT ![c].pc = pc, ![c].list = rows]
  <1>5. ASSUME NEW pc \in {"dropmembers", "dropinvites"},
               NEW rows \in SUBSET (Users \cup Invs \cup {"all"}), list(pc, rows),
               orgs' = orgs, members' \in [Orgs -> SUBSET Users],
               \A p \in Orgs : members'[p] \subseteq members[p],
               \A p \in Orgs : p # o => members'[p] = members[p],
               invites' \subseteq invites,
               ~Raced("cascade", o)' =>
                 IF pc = "dropmembers" THEN members'[o] \subseteq rows
                 ELSE members'[o] = {} /\ {i.id : i \in PendingOf(o)'} \subseteq rows
        PROVE  IInv'
    <2>1. PICK r : r = Lists(co[c], pc, rows)
      OBVIOUS
    <2>2. Become(c, r)
      BY <1>5, <2>1 DEF Become, Lists
    <2>3. r \in Frames /\ Shape(r) /\ r.pc = pc /\ r.list = rows /\ r.org = o
      <3>1. pc \in DelSteps
        BY DEF DelSteps
      <3>2. QED
        BY <1>1, <1>2, <2>1, <3>1, Listing
    <2>4. Belongs(r) /\ r # Idle /\ r.pc \in DelSteps \ {"delmembers"}
      BY <1>1, <2>3 DEF Belongs, Idle, DelSteps
    <2>5. ~Raced("cascade", o)' => Wiped(r, o)'
      BY <1>5, <2>3 DEF Wiped
    <2>6. QED
      BY <1>1, <1>2, <1>3, <1>5, <2>2, <2>3, <2>4, <2>5, DeletionInv
  <1>6. CASE At(c, "delmembers")
    <2>1. list("dropmembers", members[o]) /\ UNCHANGED <<orgs, members, invites>>
      BY <1>2, <1>6 DEF DynamoDelete, At
    <2>2. members[o] \in SUBSET (Users \cup Invs \cup {"all"})
      BY <1>4
    <2>3. QED
      BY <1>4, <1>5, <2>1, <2>2
  <1>7. CASE At(c, "dropmembers") /\ co[c].list # {}
    <2>1. PICK u \in co[c].list : /\ list("dropmembers", co[c].list \ {u})
                                  /\ members' = [members EXCEPT ![o] = members[o] \ {u}]
      BY <1>2, <1>7 DEF DynamoDelete, At
    <2>2. UNCHANGED <<orgs, invites>> /\ co[c].pc = "dropmembers"
      BY <1>7 DEF DynamoDelete, At
    <2>3. /\ members' \in [Orgs -> SUBSET Users] /\ \A p \in Orgs : members'[p] \subseteq members[p]
          /\ \A p \in Orgs : p # o => members'[p] = members[p]
          /\ members'[o] = members[o] \ {u}
      BY <1>4, <2>1
    <2>4. ~Raced("cascade", o)' => members'[o] \subseteq co[c].list \ {u}
      BY <1>2, <1>3, <2>2, <2>3, WipedHere DEF Wiped, DelSteps
    <2>5. co[c].list \ {u} \in SUBSET (Users \cup Invs \cup {"all"})
      BY <1>4
    <2>6. QED
      BY <1>5, <2>1, <2>2, <2>3, <2>4, <2>5, ZenonT(30)
  <1>8. CASE At(c, "dropmembers") /\ co[c].list = {}
    <2>1. /\ list("dropinvites", {i.id : i \in PendingOf(o)}) /\ UNCHANGED <<orgs, members, invites>>
          /\ co[c].pc = "dropmembers"
      BY <1>2, <1>8 DEF DynamoDelete, At
    <2>2. ~Raced("cascade", o)' => members[o] = {}
      BY <1>2, <1>3, <1>8, <2>1, WipedHere DEF Wiped, DelSteps
    <2>3. {i.id : i \in PendingOf(o)} \in SUBSET (Users \cup Invs \cup {"all"})
      BY <1>4 DEF PendingOf
    <2>4. PendingOf(o)' = PendingOf(o)
      BY <2>1 DEF PendingOf
    <2>5. QED
      BY <1>4, <1>5, <2>1, <2>2, <2>3, <2>4
  <1>9. CASE At(c, "dropinvites") /\ co[c].list # {}
    <2>1. PICK i \in co[c].list : /\ list("dropinvites", co[c].list \ {i})
                                  /\ invites' = {x \in invites : x.id # i}
      BY <1>2, <1>9 DEF DynamoDelete, At
    <2>2. UNCHANGED <<orgs, members>> /\ co[c].pc = "dropinvites"
      BY <1>9 DEF DynamoDelete, At
    <2>3. ~Raced("cascade", o)' => members[o] = {} /\ {x.id : x \in PendingOf(o)} \subseteq co[c].list
      BY <1>2, <1>3, <2>2, WipedHere DEF Wiped, DelSteps
    <2>4. \A x \in PendingOf(o)' : x \in PendingOf(o) /\ x.id # i
      BY <2>1 DEF PendingOf
    <2>5. ~Raced("cascade", o)' => members'[o] = {} /\ {x.id : x \in PendingOf(o)'} \subseteq co[c].list \ {i}
      BY <2>2, <2>3, <2>4
    <2>6. co[c].list \ {i} \in SUBSET (Users \cup Invs \cup {"all"})
      BY <1>4
    <2>7. QED
      BY <1>4, <1>5, <2>1, <2>2, <2>5, <2>6
  <1>10. CASE At(c, "dropinvites") /\ co[c].list = {}
    <2>1. orgs' = orgs \ {o} /\ Become(c, Idle) /\ UNCHANGED <<members, invites>> /\ co[c].pc = "dropinvites"
      BY <1>2, <1>10, Returning DEF DynamoDelete, At
    <2>2. ~Raced("cascade", o)' => members[o] = {} /\ {x.id : x \in PendingOf(o)} \subseteq {}
      BY <1>2, <1>3, <1>10, <2>1, WipedHere DEF Wiped, DelSteps
    <2>3. PendingOf(o)' = PendingOf(o)
      BY <2>1 DEF PendingOf
    <2>4. QED
      BY <1>1, <1>2, <1>3, <1>4, <2>1, <2>2, <2>3, IdleTyped, DeletionInv
  <1>11. QED
    BY <1>6, <1>7, <1>8, <1>9, <1>10 DEF DynamoDelete

-----------------------------------------------------------------------------
(* A coroutine dies, wherever it is *)

LEMMA DiesInv ==
  ASSUME IInv, NEW c \in Coros, Dies(c)
  PROVE  IInv'
  <1>1. /\ co[c] \in Frames /\ Shape(co[c]) /\ Typed /\ Become(c, Idle) /\ UNCHANGED data
    BY Here, Returning DEF Dies, data, stored, orgRows, memberRows, invitation, cacheKeys
  <1>2. co'[c] = Idle /\ Only(c)
    BY <1>1, Became
  <1>3. raced' = raced \cup CASE At(c, "expire")   -> {<<"counter", co[c].org>>}
                              [] co[c].op = "delete" -> {<<"partial", co[c].org>>}
                              [] OTHER               -> {}
    BY DEF Dies
  <1>4. /\ raced \subseteq raced'
        /\ co[c].pc = "expire" => <<"counter", co[c].org>> \in raced'
        /\ co[c].pc # "expire" /\ co[c].op = "delete" => <<"partial", co[c].org>> \in raced'
        /\ \A x \in raced' : x \in raced \/ x[1] = "counter" \/ (co[c].op = "delete" /\ x[1] = "partial")
    <2>1. CASE At(c, "expire")
      <3>1. raced' = raced \cup {<<"counter", co[c].org>>}
        BY <1>3, <2>1, <1>1 DEF At, Shape, DelSteps
      <3>2. QED
        BY <2>1, <3>1 DEF At
    <2>2. CASE ~At(c, "expire") /\ co[c].op = "delete"
      BY <1>3, <2>2 DEF At
    <2>3. CASE ~At(c, "expire") /\ co[c].op # "delete"
      BY <1>3, <2>3 DEF At
    <2>4. QED
      BY <2>1, <2>2, <2>3
  <1>5. \A x \in raced' : x \in raced \/ backend # "memory" \/ x[1] \in {"counter", "invite"}
    <2>1. backend = "memory" => co[c].op # "delete"
      BY <1>1 DEF Dies, Shape, DelSteps, SendSteps
    <2>2. QED
      BY <1>4, <2>1
  <1>6. /\ CalmNames(co[c], Idle) /\ CalmClaims(co[c], Idle) /\ CalmTickets(co[c], Idle)
        /\ CalmCap(co[c], Idle) /\ CalmOwners(co[c], Idle) /\ CalmSends(co[c], Idle)
        /\ CalmWipes(co[c], Idle) /\ (CalmCount(co[c], Idle) \/ co[c].pc = "expire")
    BY DEF CalmNames, CalmClaims, CalmCap, CalmOwners, CalmWipes, CalmTickets, CalmSends,
         CalmCount, Idle, Creating, Refers, Adding, Applying, Writing, Wiping, Holding, Joining,
         Sending, DelSteps, SendSteps, JoinSteps
  <1>7. \A p \in Orgs : Deletes(co[c], p) =>
          Deletes(co'[c], p) \/ p \notin orgs' \/ Raced("partial", p)'
    <2>1. co[c].op = "delete" => co[c].pc # "expire"
      BY <1>1 DEF Shape, DelSteps
    <2>2. QED
      BY <1>4, <2>1 DEF Deletes, Raced
  <1>8. Typed' /\ NamedFirst' /\ Alone'
    BY <1>1, <1>2, <1>5, <1>6, IdleTyped, TypedKept, NamesStay, AloneStays DEF IInv, data, stored
  <1>9. SlugsClaimed' /\ CapKept' /\ OwnersLeft'
    BY <1>1, <1>2, <1>4, <1>6, <1>7, ClaimsKept, CapStays, OwnersStay DEF IInv, data, stored
  <1>10. WipedClean' /\ SentOnce'
    BY <1>1, <1>2, <1>4, <1>6, WipesStay, SendsStay DEF IInv, data, stored
  <1>11. Tickets' /\ Counted'
    BY <1>1, <1>2, <1>4, <1>6, TicketsStay, CountStays DEF IInv, data, stored, Typed, TypeOK
  <1>12. QED
    BY <1>8, <1>9, <1>10, <1>11 DEF IInv

-----------------------------------------------------------------------------
(* The invariant *)

LEMMA InitInv == Init => IInv
  <1>. SUFFICES ASSUME Init
                PROVE  IInv
    OBVIOUS
  <1>1. PICK s \in Seeds : /\ members = [o \in Orgs |-> IF o = FirstOrg THEN DOMAIN s ELSE {}]
                           /\ role = [o \in Orgs |-> [u \in Users |->
                                        IF o = FirstOrg /\ u \in DOMAIN s THEN s[u] ELSE "member"]]
    BY DEF Init
  <1>2. /\ FirstOrg \in Orgs /\ Slugs # {} /\ Invs # {} /\ IsFiniteSet(DOMAIN s) /\ DOMAIN s \subseteq Users
        /\ s \in [DOMAIN s -> Roles] /\ Cardinality(DOMAIN s) <= MaxMembers
    BY StartAssumption
  <1>3. PICK u \in DOMAIN s : s[u] = "owner"
    BY StartAssumption
  <1>4. /\ backend \in Backends /\ orgs = {FirstOrg} /\ born = {FirstOrg} /\ owned = {FirstOrg}
        /\ count = [o \in Orgs |-> 0] /\ ttl = {} /\ raced = {} /\ admitted = {}
        /\ co = [c \in Coros |-> Idle]
    BY DEF Init
  <1>5. PICK n \in Slugs : slug = [o \in Orgs |-> IF o = FirstOrg THEN n ELSE Nothing]
    <2>1. (CHOOSE n \in Slugs : TRUE) \in Slugs
      BY <1>2
    <2>2. QED
      BY <2>1 DEF Init
  <1>6. /\ invites \subseteq [id : Invs, org : {FirstOrg}, email : Emails, role : Roles]
        /\ backend = "sql" => invites = {}
        /\ \A i, j \in invites : i = j
    <2>1. (CHOOSE i \in Invs : TRUE) \in Invs
      BY <1>2
    <2>2. PICK i \in Invs : i = CHOOSE x \in Invs : TRUE
      BY <2>1
    <2>3. invites = {} \/ (backend # "sql" /\ \E e \in Emails :
            invites = {[id |-> i, org |-> FirstOrg, email |-> e, role |-> "member"]})
      BY <2>2 DEF Init
    <2>4. QED
      BY <1>2, <2>3, RolesAssumption
  <1>7. n # Nothing
    BY NamesAssumption
  <1>8. \A c \in Coros : co[c] = Idle
    BY <1>4
  <1>9. Typed
    <2>1. members \in [Orgs -> SUBSET Users] /\ role \in [Orgs -> [Users -> Roles]]
      BY <1>1, <1>2, RolesAssumption
    <2>2. co \in [Coros -> Frames] /\ \A c \in Coros : Shape(co[c]) /\ Belongs(co[c])
      BY <1>4, IdleTyped
    <2>3. invites \subseteq [id : Invs, org : Orgs, email : Emails, role : Roles]
      BY <1>2, <1>6
    <2>4. TypeOK
      BY <1>2, <1>4, <2>1, <2>2, <2>3 DEF TypeOK
    <2>5. slug \in [Orgs -> Slugs \cup {Suffix[o] : o \in Orgs} \cup {Nothing}]
      BY <1>5
    <2>6. count \in [Orgs -> Nat] /\ owned \subseteq Orgs /\ admitted \subseteq Invs \X Users
      BY <1>2, <1>4
    <2>7. QED
      BY <1>6, <2>2, <2>4, <2>5, <2>6 DEF Typed
  <1>10. NamedFirst
    <2>1. \A o \in Orgs : slug[o] = Nothing <=> o # FirstOrg
      BY <1>5, <1>7
    <2>2. \A o \in Orgs : o # FirstOrg => members[o] = {} /\ PendingOf(o) = {}
      BY <1>1, <1>6 DEF PendingOf
    <2>3. \A c \in Coros, o \in Orgs : ~Refers(co[c], o) /\ ~Creating(co[c])
      BY <1>8 DEF Idle, Refers, Creating
    <2>4. \A c \in Coros : ~Creating(co[c])
      BY <1>8 DEF Idle, Creating
    <2>5. QED
      BY <1>4, <2>1, <2>2, <2>3, <2>4 DEF NamedFirst, Unnamed
  <1>11. SlugsClaimed
    <2>1. \A z, o : Claims(z, o) => o = FirstOrg
      BY <1>4, <1>8 DEF Claims, Idle
    <2>2. QED
      BY <2>1 DEF SlugsClaimed
  <1>12. CapKept
    <2>1. ASSUME NEW o \in Orgs
          PROVE  /\ IsFiniteSet(members[o])
                 /\ Cardinality(members[o]) + Cardinality(Adders(o)) < MaxMembers + Cardinality(Coros)
                 /\ Cardinality(members[o]) + Cardinality(Adders(o)) <= MaxMembers
      <3>1. Adders(o) = {}
        BY <1>8 DEF Adders, Adding, Creating, Idle
      <3>2. Cardinality(Adders(o)) = 0
        BY <3>1, FS_EmptySet
      <3>3. members[o] \in {DOMAIN s, {}}
        BY <1>1
      <3>4. IsFiniteSet(members[o]) /\ Cardinality(members[o]) \in Nat /\ Cardinality(members[o]) <= MaxMembers
        <4>1. CASE members[o] = {}
          BY <4>1, FS_EmptySet, BoundsAssumption
        <4>2. CASE members[o] = DOMAIN s
          BY <1>2, <4>2, FS_CardinalityType
        <4>3. QED
          BY <3>3, <4>1, <4>2
      <3>5. QED
        BY <3>2, <3>4, AddersFinite, BoundsAssumption
    <2>2. QED
      BY <2>1 DEF CapKept
  <1>13. OwnersLeft
    <2>1. \A c \in Coros, o \in Orgs : ~Applying(co[c], o)
      BY <1>8 DEF Applying, Idle
    <2>2. u \in Owners(FirstOrg)
      BY <1>1, <1>2, <1>3 DEF Owners
    <2>3. QED
      BY <1>4, <2>1, <2>2 DEF OwnersLeft
  <1>14. WipedClean
    <2>1. \A c \in Coros, o \in Orgs : ~Writing(co[c], o) /\ ~Wiping(co[c], o)
      BY <1>8 DEF Writing, Wiping, DelSteps, Idle
    <2>2. QED
      BY <1>4, <2>1 DEF WipedClean
  <1>15. Tickets
    <2>1. \A c \in Coros, i \in Invs : ~Holding(co[c], i) /\ ~Joining(co[c], i)
      BY <1>8 DEF Holding, Joining, JoinSteps, Idle
    <2>2. \A x \in invites : x.id \in Invs
      BY <1>6
    <2>3. QED
      BY <1>4, <2>1, <2>2 DEF Tickets
  <1>16. SentOnce
    <2>1. \A c \in Coros, o \in Orgs : ~Sending(co[c], o)
      BY <1>8 DEF Sending, SendSteps, Idle
    <2>2. QED
      BY <1>6, <2>1 DEF SentOnce, PendingOf
  <1>17. Counted /\ Alone
    BY <1>4 DEF Counted, Alone
  <1>18. QED
    BY <1>9, <1>10, <1>11, <1>12, <1>13, <1>14, <1>15, <1>16, <1>17 DEF IInv

LEMMA StepInv ==
  ASSUME IInv, NEW c \in Coros, Turn(c), Step(c)
  PROVE  IInv'
  <1>1. CASE \/ PickSlug(c) \/ ReadOrg(c) \/ CheckUser(c) \/ ReadPending(c) \/ SqlInvite(c)
    BY <1>1, PlainInv
  <1>2. CASE \/ MemoryName(c) \/ SqlName(c) \/ MongoName(c) \/ DynamoPut(c)
    BY <1>2, NamingInv
  <1>3. CASE \/ DynamoName(c) \/ CountMembers(c) \/ ReadMembers(c) \/ CheckPending(c) \/ ReadToken(c)
    BY <1>3, DynamoNameInv, CountMembersInv, ReadMembersInv, CheckPendingInv, ReadTokenInv
  <1>4. CASE \/ MemoryAddMember(c) \/ PutMember(c) \/ ApplyToMember(c) \/ MemoryInvite(c) \/ PutInvitation(c)
    BY <1>4, AddMemberInv, ApplyToMemberInv, NewInvitationInv
  <1>5. CASE \/ SqlAddMember(c) \/ MongoAddMember(c) \/ DynamoAddMember(c)
    BY <1>5, CheckOrgInv DEF SqlAddMember, MongoAddMember, DynamoAddMember, At
  <1>6. CASE MongoInvite(c) \/ DynamoInvite(c)
    BY <1>6, CheckOrgInv DEF MongoInvite, DynamoInvite, At
  <1>7. CASE CountSend(c) \/ ExpireCounter(c) \/ Consume(c) \/ PurgeNext(c)
    BY <1>7, CountSendInv, ExpireCounterInv, ConsumeInv, PurgeNextInv
  <1>8. CASE MemoryDelete(c) \/ SqlDelete(c) \/ MongoDelete(c) \/ DynamoDelete(c)
    BY <1>8, MemoryDeleteInv, SqlDeleteInv, MongoDeleteInv, DynamoDeleteInv
  <1>9. QED
    BY <1>1, <1>2, <1>3, <1>4, <1>5, <1>6, <1>7, <1>8 DEF Step

LEMMA StutterInv ==
  ASSUME IInv, UNCHANGED vars
  PROVE  IInv'
  <1>1. UNCHANGED <<data, co, raced>>
    BY DEF vars, data, stored, orgRows, memberRows, invitation, cacheKeys
  <1>2. Typed' /\ NamedFirst' /\ SlugsClaimed'
    BY <1>1 DEF data, stored, IInv, Typed, TypeOK, Belongs, NamedFirst, Unnamed, PendingOf, SlugsClaimed,
       Claims, Raced
  <1>3. CapKept' /\ OwnersLeft'
    BY <1>1 DEF data, stored, IInv, CapKept, Adders, OwnersLeft, Settled, BeingDeleted, At, Owners, Raced
  <1>4. WipedClean' /\ Tickets' /\ SentOnce' /\ Alone' /\ Counted'
    BY <1>1 DEF data, stored, IInv, WipedClean, Wiped, Tickets, SentOnce, Alone, Counted, PendingOf, Raced
  <1>5. QED
    BY <1>2, <1>3, <1>4 DEF IInv

LEMMA NextInv == IInv /\ [Next]_vars => IInv'
  <1>. SUFFICES ASSUME IInv, [Next]_vars
                PROVE  IInv'
    OBVIOUS
  <1>1. CASE WindowEnds
    BY <1>1, WindowEndsInv
  <1>2. ASSUME NEW c \in Coros, Turn(c), Requests(c)
        PROVE  IInv'
    BY <1>2, RequestsInv, CreateOrganizationInv
  <1>3. ASSUME NEW c \in Coros, Turn(c), Step(c)
        PROVE  IInv'
    BY <1>3, StepInv
  <1>4. ASSUME NEW c \in Coros, Dies(c)
        PROVE  IInv'
    BY <1>4, DiesInv
  <1>5. CASE UNCHANGED vars
    BY <1>5, StutterInv
  <1>6. QED
    BY <1>1, <1>2, <1>3, <1>4, <1>5 DEF Next

-----------------------------------------------------------------------------
(* What the invariant says of the stored rows *)

LEMMA MembershipHolds == IInv => MembershipSound
  <1>. SUFFICES ASSUME IInv
                PROVE  MembershipSound
    OBVIOUS
  <1>1. TypeOK /\ orgs \subseteq Orgs /\ owned \subseteq Orgs /\ born \subseteq Orgs
    BY DEF IInv, Typed, TypeOK
  <1>2. SlugsDiffer
    BY <1>1 DEF IInv, SlugsClaimed, Claims, SlugsDiffer
  <1>3. OwnerKept
    BY <1>1 DEF IInv, OwnersLeft, Settled, OwnerKept
  <1>4. CapRespected
    <2>1. ASSUME NEW o \in Orgs
          PROVE  /\ Cardinality(members[o]) > MaxMembers => Raced("cap", o)
                 /\ Cardinality(members[o]) < MaxMembers + Cardinality(Coros)
      <3>1. /\ IsFiniteSet(members[o])
            /\ Cardinality(members[o]) + Cardinality(Adders(o)) < MaxMembers + Cardinality(Coros)
            /\ ~Raced("cap", o) => Cardinality(members[o]) + Cardinality(Adders(o)) <= MaxMembers
        BY DEF IInv, CapKept
      <3>2. Cardinality(members[o]) \in Nat
        BY <3>1, FS_CardinalityType
      <3>3. QED
        BY <3>1, <3>2, AddersFinite, BoundsAssumption
    <2>2. QED
      BY <2>1 DEF CapRespected
  <1>5. CascadeComplete
    BY <1>1 DEF IInv, WipedClean, CascadeComplete
  <1>6. QED
    BY <1>1, <1>2, <1>3, <1>4, <1>5 DEF IInv, Alone, MembershipSound

(* At most one element: no two different ones. *)
LEMMA AtMostOne ==
  ASSUME NEW S, \A x, y \in S : x = y
  PROVE  ~(Cardinality(S) > 1)
  <1>1. CASE S = {}
    BY <1>1, FS_EmptySet
  <1>2. CASE S # {}
    <2>1. PICK x \in S : TRUE
      BY <1>2
    <2>2. S = {x}
      BY <2>1
    <2>3. Cardinality({x}) = 1
      BY FS_Singleton
    <2>4. QED
      BY <2>2, <2>3
  <1>3. QED
    BY <1>1, <1>2

LEMMA InvitationsHold == IInv => InvitationsSound
  <1>. SUFFICES ASSUME IInv
                PROVE  InvitationsSound
    OBVIOUS
  <1>1. ASSUME NEW i \in Invs, Cardinality({a \in admitted : a[1] = i}) > 1
        PROVE  Raced("token", i)
    <2>1. ~(\A a, b \in {x \in admitted : x[1] = i} : a = b)
      BY <1>1, AtMostOne
    <2>2. QED
      BY <2>1 DEF IInv, Tickets
  <1>2. \A i \in invites, a \in admitted : a[1] # i.id
    BY DEF IInv, Tickets
  <1>3. \A i, j \in invites : i.org = j.org /\ i.email = j.email => i = j \/ Raced("invite", i.org)
    BY DEF IInv, Typed, TypeOK, SentOnce, PendingOf
  <1>4. \A o \in Orgs : count[o] > 0 /\ o \notin ttl =>
          Raced("counter", o) \/ \E c \in Coros : At(c, "expire") /\ co[c].org = o
    BY DEF IInv, Counted, At
  <1>5. QED
    BY <1>1, <1>2, <1>3, <1>4 DEF InvitationsSound

LEMMA Invariant == Spec => []IInv
  BY InitInv, NextInv, PTL DEF Spec

(* For every number of coroutines, users, organizations and invitations, over *)
(* each adapter: slugs differ, an organization keeps an owner and its member   *)
(* cap, and a deletion leaves nothing behind, unless the steps of two flows    *)
(* overlapped in the way the property names.                                   *)
THEOREM MembershipKept == Spec => []MembershipSound
  BY Invariant, MembershipHolds, PTL

(* One invitation admits one user unless two requests held its token at once;  *)
(* a row that has admitted somebody is gone, two pending rows for an address   *)
(* come from overlapping sends, and a send counter without expiry from a send  *)
(* between its two cache calls or one that died there.                         *)
THEOREM InvitationsKept == Spec => []InvitationsSound
  BY Invariant, InvitationsHold, PTL
=============================================================================
