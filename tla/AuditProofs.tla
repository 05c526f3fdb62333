---------------------------- MODULE AuditProofs ----------------------------
(* Proofs that no audit event is lost, that the chain of checksums holds and  *)
(* that paging is complete, for any number of processes and events.            *)
EXTENDS Audit, FiniteSetTheorems, SequenceTheorems, TLAPS

(* The queues and the batches as one family of sequences. *)
Spots == Procs \X {"queue", "loop", "main"}
Line == [x \in Spots |-> IF x[2] = "queue" THEN queue[x[1]] ELSE co[x].batch]

(* Nothing stands in two places of a family of sequences. *)
Apart(line) ==
    \A x, y \in DOMAIN line : \A i \in 1..Len(line[x]), j \in 1..Len(line[y]) :
        line[x][i] = line[y][j] => x = y /\ i = j

Steps == {"idle", "lock", "tail", "insert", "drop"}
Frames == [pc : Steps, mode : {"none", "flush", "sync", "prune"}, batch : Seq(Nat), next : Nat,
           tail : Seq(Nat), list : SUBSET Nat, stale : BOOLEAN]
Readers == [pc : {"idle", "more", "done"}, offset : Nat, snap : SUBSET Nat, seen : SUBSET Nat]
Rows == [event : Nat, seq : Nat, prev : Seq(Nat)]

(* Which locals a coroutine has at which call. *)
Shape(f) ==
    /\ f.pc = "idle" => f = Idle
    /\ f.pc \in {"lock", "tail", "insert"} =>
          /\ f.mode \in {"flush", "sync"} /\ f.list = {}
          /\ f.next \in 1..Len(f.batch)
    /\ f.pc = "lock" => f.next = 1
    /\ f.pc = "tail" => backend = "mongodb"
    /\ f.pc = "insert" => backend # "memory" /\ (backend = "sql" => f.next = 1)
    /\ f.pc = "drop" => f.mode = "prune" /\ f.batch = <<>>

Typed ==
    /\ backend \in Backends /\ {logged, faults, cutoff} \subseteq Nat
    /\ chain \in Seq(Rows) /\ queue \in [Procs -> Seq(Nat)]
    /\ up \subseteq Procs /\ alive \subseteq up
    /\ lock \in [Procs -> Coros \cup {Free}]
    /\ co \in [Coros -> Frames] /\ \A c \in Coros : Shape(co[c])
    /\ reader \in Readers
    /\ Stored \cup promised \cup pruned \cup cut \subseteq 1..logged
    /\ \A x \in Spots : Elems(Line[x]) \subseteq 1..logged

(* A lock is held by the coroutine that is between reading the tail and storing. *)
Locked ==
    /\ \A c \in Coros : co[c].pc \in {"tail", "insert"} <=> lock[Proc(c)] = c
    /\ \A p \in Procs : lock[p] = Free \/ Proc(lock[p]) = p

OnePlace == Apart(Line)

BatchSound(f) ==
    /\ \A i \in 1..Len(f.batch) : i < f.next => f.batch[i] \in Stored \cup pruned
    /\ f.mode = "sync" => Elems(f.batch) \cap promised = {}
    /\ backend = "memory" => Elems(f.batch) \cap Stored = {}

(* What became of the events: those that were accepted are somewhere, the first *)
(* ones of a batch are stored, a synchronous event is not accepted before it is   *)
(* stored, and what was cut off is nowhere else.                                   *)
Accounted ==
    /\ \A e \in promised \ (Stored \cup pruned \cup cut) : \E x \in Spots : e \in Elems(Line[x])
    /\ \A c \in Coros : BatchSound(co[c])
    /\ \A p \in Procs : Elems(queue[p]) \cap Stored \subseteq torn
    /\ \A x \in Spots : Elems(Line[x]) \cap cut = {}
    /\ backend = "memory" => torn = {} /\ cut \cap Stored = {}

(* A tail continues a row that is there or was; unless another process has      *)
(* stored since, no sequence is beyond it.                                         *)
TailSound(f) ==
    f.pc = "insert" =>
        /\ f.tail = Genesis \/ f.tail[Len(f.tail)] \in Stored \cup pruned
        /\ f.stale \/ \A i \in 1..Len(chain) : chain[i].seq <= Len(f.tail)

Continues(r) == r.prev = Genesis \/ r.prev[Len(r.prev)] \in Stored \cup pruned

Tails == \A c \in Coros : TailSound(co[c])

Chained ==
    /\ \A i \in 1..Len(chain) : Continues(chain[i])
    /\ \A i, j \in 1..Len(chain) : i < j =>
          /\ chain[i].event # chain[j].event
          /\ backend = "memory" => Len(chain[i].prev) < Len(chain[j].prev)
          /\ chain[i].seq = chain[j].seq =>
                \/ backend = "memory"
                \/ backend = "dynamodb" /\ {chain[i].event, chain[j].event} \cap raced # {}
    /\ \A i \in 1..Len(chain) :
          IF backend = "memory" THEN pruned = {} => chain[i].seq = i
                                ELSE chain[i].seq = Len(chain[i].prev) + 1
    /\ backend = "memory" /\ pruned = {} => Verifies

(* What the client has not seen yet is on a later page, unless it is below the   *)
(* cut-off.                                                                         *)
Pages ==
    /\ \A c \in Coros : \A e \in co[c].list : e < cutoff /\ e \in pruned
    /\ reader.pc = "idle" => reader = Unread
    /\ reader.pc # "idle" =>
          \A e \in reader.snap : e < cutoff \/ e \in Stored
    /\ reader.pc = "more" =>
          \A e \in reader.snap \ reader.seen : e < cutoff \/ NewestFirst(e) > reader.offset
    /\ reader.pc = "done" => \A e \in reader.snap \ reader.seen : e < cutoff

IInv == Typed /\ Locked /\ OnePlace /\ Accounted /\ Tails /\ Chained /\ Pages

-----------------------------------------------------------------------------
(* Places in a finite set of numbers. *)

LEMMA Smaller ==
    ASSUME NEW S, IsFiniteSet(S), NEW T \in SUBSET S, NEW x \in S \ T
    PROVE  IsFiniteSet(T) /\ Cardinality(T) \in Nat /\ Cardinality(S) \in Nat
           /\ Cardinality(T) < Cardinality(S)
  <1>1. IsFiniteSet(T) /\ Cardinality(T) <= Cardinality(S) /\ (Cardinality(S) = Cardinality(T) => S = T)
    BY FS_Subset
  <1>2. Cardinality(T) \in Nat /\ Cardinality(S) \in Nat
    BY <1>1, FS_CardinalityType
  <1> QED
    BY <1>1, <1>2

(* Numbers given one each to the members of a set are all given. *)
LEMMA AllGiven ==
    ASSUME NEW S, IsFiniteSet(S), NEW f \in [S -> 1..Cardinality(S)],
           \A i, j \in S : f[i] = f[j] => i = j
    PROVE  \A n \in 1..Cardinality(S) : \E i \in S : f[i] = n
  <1> DEFINE T == 1..Cardinality(S)
  <1>1. Cardinality(S) \in Nat
    BY FS_CardinalityType
  <1>2. IsFiniteSet(T) /\ Cardinality(T) = Cardinality(S)
    <2>1. IsFiniteSet(1..Cardinality(S))
          /\ Cardinality(1..Cardinality(S)) = IF 1 > Cardinality(S) THEN 0 ELSE Cardinality(S) - 1 + 1
      BY <1>1, FS_Interval
    <2> QED
      BY <1>1, <2>1
  <1>3. f \in Injection(S, T)
    BY DEF Injection, IsInjective
  <1>4. f \in Surjection(S, T)
    <2>. HIDE DEF T
    <2> QED
      BY <1>2, <1>3, FS_Injection
  <1> QED
    BY <1>4 DEF Surjection

LEMMA Counted ==
    ASSUME NEW S \in SUBSET Nat, IsFiniteSet(S)
    PROVE  /\ Cardinality(S) \in Nat
           /\ \A i \in S : Cardinality({j \in S : j <= i}) \in 1..Cardinality(S)
           /\ \A i, k \in S : i < k =>
                 Cardinality({j \in S : j <= i}) < Cardinality({j \in S : j <= k})
           /\ \A n \in 1..Cardinality(S) : \E i \in S : Cardinality({j \in S : j <= i}) = n
  <1> DEFINE upto(i) == {j \in S : j <= i}
             f == [i \in S |-> Cardinality(upto(i))]
  <1>1. Cardinality(S) \in Nat
    BY FS_CardinalityType
  <1>2. ASSUME NEW i \in S
        PROVE  IsFiniteSet(upto(i)) /\ Cardinality(upto(i)) \in 1..Cardinality(S)
    <2>1. upto(i) \in SUBSET S /\ i \in upto(i)
      OBVIOUS
    <2>2. IsFiniteSet(upto(i)) /\ Cardinality(upto(i)) <= Cardinality(S)
      <3>. HIDE DEF upto
      <3> QED
        BY <2>1, FS_Subset
    <2>3. Cardinality(upto(i)) \in Nat /\ Cardinality(upto(i)) # 0
      <3>. HIDE DEF upto
      <3> QED
        BY <2>1, <2>2, FS_CardinalityType, FS_EmptySet
    <2> QED
      BY <1>1, <2>2, <2>3
  <1>3. ASSUME NEW i \in S, NEW k \in S, i < k
        PROVE  Cardinality(upto(i)) < Cardinality(upto(k))
    <2>1. upto(i) \in SUBSET upto(k) /\ k \in upto(k) \ upto(i)
      <3>1. \A j \in S : j <= i => j <= k
        BY <1>3
      <3>2. i \in Nat /\ k \in Nat /\ k <= k /\ ~(k <= i)
        BY <1>3
      <3> QED
        BY <3>1, <3>2
    <2>2. IsFiniteSet(upto(k))
      BY <1>2
    <2> QED
      <3>. HIDE DEF upto
      <3> QED
        BY <2>1, <2>2, Smaller
  <1>4. \A n \in 1..Cardinality(S) : \E i \in S : f[i] = n
    <2>1. f \in [S -> 1..Cardinality(S)]
      BY <1>2
    <2>2. \A i, j \in S : f[i] = f[j] => i = j
      <3> SUFFICES ASSUME NEW i \in S, NEW j \in S, f[i] = f[j], i # j
                   PROVE  FALSE
        OBVIOUS
      <3>1. i < j \/ j < i
        OBVIOUS
      <3>2. Cardinality(upto(i)) = Cardinality(upto(j)) /\ Cardinality(upto(i)) \in Nat
        BY <1>2
      <3> QED
        <4>. HIDE DEF upto
        <4> QED
          BY <1>3, <3>1, <3>2
    <2> QED
      <3>. HIDE DEF f
      <3> QED
        BY <2>1, <2>2, AllGiven
  <1> QED
    BY <1>1, <1>2, <1>3, <1>4

(* The same, counted from above. *)
LEMMA CountedDown ==
    ASSUME NEW S \in SUBSET Nat, IsFiniteSet(S)
    PROVE  /\ Cardinality(S) \in Nat
           /\ \A i \in S : Cardinality({j \in S : j >= i}) \in 1..Cardinality(S)
           /\ \A n \in 1..Cardinality(S) : \E i \in S : Cardinality({j \in S : j >= i}) = n
  <1> DEFINE down(i) == {j \in S : j >= i}
             f == [i \in S |-> Cardinality(down(i))]
  <1>1. Cardinality(S) \in Nat
    BY FS_CardinalityType
  <1>2. ASSUME NEW i \in S
        PROVE  IsFiniteSet(down(i)) /\ Cardinality(down(i)) \in 1..Cardinality(S)
    <2>1. down(i) \in SUBSET S /\ i \in down(i)
      OBVIOUS
    <2>2. IsFiniteSet(down(i)) /\ Cardinality(down(i)) <= Cardinality(S)
      <3>. HIDE DEF down
      <3> QED
        BY <2>1, FS_Subset
    <2>3. Cardinality(down(i)) \in Nat /\ Cardinality(down(i)) # 0
      <3>. HIDE DEF down
      <3> QED
        BY <2>1, <2>2, FS_CardinalityType, FS_EmptySet
    <2> QED
      BY <1>1, <2>2, <2>3
  <1>3. ASSUME NEW i \in S, NEW k \in S, i < k
        PROVE  Cardinality(down(k)) < Cardinality(down(i))
    <2>1. down(k) \in SUBSET down(i) /\ i \in down(i) \ down(k)
      <3>1. \A j \in S : j >= k => j >= i
        BY <1>3
      <3>2. i \in Nat /\ k \in Nat /\ i >= i /\ ~(i >= k)
        BY <1>3
      <3> QED
        BY <3>1, <3>2
    <2>2. IsFiniteSet(down(i))
      BY <1>2
    <2> QED
      <3>. HIDE DEF down
      <3> QED
        BY <2>1, <2>2, Smaller
  <1>4. \A n \in 1..Cardinality(S) : \E i \in S : f[i] = n
    <2>1. f \in [S -> 1..Cardinality(S)]
      BY <1>2
    <2>2. \A i, j \in S : f[i] = f[j] => i = j
      <3> SUFFICES ASSUME NEW i \in S, NEW j \in S, f[i] = f[j], i # j
                   PROVE  FALSE
        OBVIOUS
      <3>1. i < j \/ j < i
        OBVIOUS
      <3>2. Cardinality(down(i)) = Cardinality(down(j)) /\ Cardinality(down(i)) \in Nat
        BY <1>2
      <3> QED
        <4>. HIDE DEF down
        <4> QED
          BY <1>3, <3>1, <3>2
    <2> QED
      <3>. HIDE DEF f
      <3> QED
        BY <2>1, <2>2, AllGiven
  <1> QED
    BY <1>1, <1>2, <1>4

LEMMA KeptPlaces ==
    ASSUME NEW S \in SUBSET Nat, IsFiniteSet(S)
    PROVE  /\ Cardinality(S) \in Nat
           /\ \A n \in 1..Cardinality(S) : Kept(S, n) \in S
           /\ \A n, m \in 1..Cardinality(S) : n < m => Kept(S, n) < Kept(S, m)
           /\ \A i \in S : \E n \in 1..Cardinality(S) : Kept(S, n) = i
  <1> DEFINE rank(i) == Cardinality({j \in S : j <= i})
  <1>1. /\ Cardinality(S) \in Nat
        /\ \A i \in S : rank(i) \in 1..Cardinality(S)
        /\ \A i, k \in S : i < k => rank(i) < rank(k)
        /\ \A n \in 1..Cardinality(S) : \E i \in S : rank(i) = n
    BY Counted
  <1>2. ASSUME NEW n \in 1..Cardinality(S)
        PROVE  Kept(S, n) \in S /\ rank(Kept(S, n)) = n
    <2>1. \E i \in S : rank(i) = n
      BY <1>1
    <2>2. Kept(S, n) = CHOOSE i \in S : rank(i) = n
      BY DEF Kept
    <2> QED
      <3>. HIDE DEF rank
      <3> QED
        BY <2>1, <2>2
  <1>3. ASSUME NEW n \in 1..Cardinality(S), NEW m \in 1..Cardinality(S), n < m
        PROVE  Kept(S, n) < Kept(S, m)
    <2> HIDE DEF rank
    <2>1. PICK i \in S : Kept(S, n) = i /\ rank(i) = n
      BY <1>2
    <2>2. PICK k \in S : Kept(S, m) = k /\ rank(k) = m
      BY <1>2
    <2>3. i < k \/ i = k \/ k < i
      OBVIOUS
    <2>4. k < i => m < n
      BY <1>1, <2>1, <2>2
    <2>5. i # k
      BY <1>3, <2>1, <2>2
    <2>6. i < k
      BY <1>3, <2>3, <2>4, <2>5
    <2> QED
      BY <2>1, <2>2, <2>6
  <1>4. ASSUME NEW i \in S
        PROVE  \E n \in 1..Cardinality(S) : Kept(S, n) = i
    <2> HIDE DEF rank
    <2>1. PICK n \in 1..Cardinality(S) : n = rank(i)
      BY <1>1
    <2>2. PICK k \in S : Kept(S, n) = k /\ rank(k) = rank(i)
      BY <1>2, <2>1
    <2>3. i < k \/ i = k \/ k < i
      OBVIOUS
    <2>4. rank(i) \in 1..Cardinality(S)
      BY <1>1
    <2>5. i = k
      BY <1>1, <2>2, <2>3, <2>4
    <2> QED
      BY <2>2, <2>5
  <1> QED
    BY <1>1, <1>2, <1>3, <1>4

LEMMA IntervalSize ==
    ASSUME NEW k \in Nat
    PROVE  Cardinality(1..k) = k
  <1>1. Cardinality(1..k) = IF 1 > k THEN 0 ELSE k - 1 + 1
    BY FS_Interval
  <1> QED
    BY <1>1

(* Of all places the n-th is n. *)
LEMMA KeptAll ==
    ASSUME NEW k \in Nat, NEW n \in 1..k
    PROVE  Cardinality(1..k) = k /\ Kept(1..k, n) = n
  <1>1. ASSUME NEW i \in 1..k
        PROVE  Cardinality({j \in 1..k : j <= i}) = i
    <2>1. {j \in 1..k : j <= i} = 1..i
      OBVIOUS
    <2>2. Cardinality(1..i) = i
      BY IntervalSize
    <2> QED
      BY <2>1, <2>2, Zenon
  <1>2. Cardinality(1..k) = k
    BY IntervalSize
  <1>3. \E i \in 1..k : Cardinality({j \in 1..k : j <= i}) = n
    BY <1>1
  <1>4. Kept(1..k, n) = CHOOSE i \in 1..k : Cardinality({j \in 1..k : j <= i}) = n
    BY DEF Kept
  <1>5. Kept(1..k, n) \in 1..k /\ Cardinality({j \in 1..k : j <= Kept(1..k, n)}) = n
    BY <1>3, <1>4
  <1> QED
    BY <1>1, <1>2, <1>5

-----------------------------------------------------------------------------
(* Rows. *)

LEMMA FunSeq ==
    ASSUME NEW S, NEW n \in Nat, NEW f \in [1..n -> S]
    PROVE  f \in Seq(S) /\ Len(f) = n
  <1>1. f \in Seq(S)
    BY SeqDef
  <1>2. DOMAIN f = 1..Len(f) /\ Len(f) \in Nat
    BY <1>1, LenProperties
  <1>3. 1..Len(f) = 1..n
    BY <1>2
  <1> QED
    BY <1>1, <1>2, <1>3

LEMMA InElems ==
    ASSUME NEW s
    PROVE  \A x : x \in Elems(s) <=> \E i \in 1..Len(s) : x = s[i]
  BY DEF Elems

LEMMA InStored ==
    \A e : e \in Stored <=> \E i \in 1..Len(chain) : e = chain[i].event
  BY DEF Stored

LEMMA LastOfAppend ==
    ASSUME NEW s \in Seq(Nat), NEW e \in Nat
    PROVE  /\ Append(s, e) \in Seq(Nat) /\ Append(s, e) # <<>>
           /\ Len(Append(s, e)) = Len(s) + 1
           /\ Append(s, e)[Len(Append(s, e))] = e
  BY AppendProperties

LEMMA SameSeq ==
    \A s, t \in Seq(Nat) :
        Len(s) = Len(t) /\ (\A i \in 1..Len(s) : s[i] = t[i]) => s = t
  BY SeqEqual

LEMMA ConcatAssoc ==
    \A s, t, u \in Seq(Nat) : s \o (t \o u) = (s \o t) \o u
  BY ConcatAssociative, SMTT(30)

LEMMA LinkedRowsSound ==
    ASSUME NEW batch \in Seq(Nat), NEW prev \in Seq(Nat), NEW n \in Nat
    PROVE  /\ LinkedRows(batch, prev, n) \in Seq(Rows)
           /\ Len(LinkedRows(batch, prev, n)) = Len(batch)
           /\ \A i \in 1..Len(batch) :
                 /\ LinkedRows(batch, prev, n)[i].event = batch[i]
                 /\ LinkedRows(batch, prev, n)[i].seq = n + i
                 /\ Len(LinkedRows(batch, prev, n)[i].prev) = Len(prev) + i - 1
                 /\ LinkedRows(batch, prev, n)[i].prev
                       = IF i = 1 THEN prev
                         ELSE Append(LinkedRows(batch, prev, n)[i - 1].prev, batch[i - 1])
  <1> DEFINE rows == LinkedRows(batch, prev, n)
             before(i) == prev \o SubSeq(batch, 1, i - 1)
  <1>1. rows = [i \in 1..Len(batch) |-> [event |-> batch[i], seq |-> n + i, prev |-> before(i)]]
    BY DEF LinkedRows, Row
  <1>2. Len(batch) \in Nat /\ \A i \in 1..Len(batch) : batch[i] \in Nat
    BY LenProperties, ElementOfSeq
  <1>3. ASSUME NEW i \in 1..Len(batch)
        PROVE  /\ before(i) \in Seq(Nat) /\ Len(before(i)) = Len(prev) + i - 1
               /\ before(i) = IF i = 1 THEN prev ELSE Append(before(i - 1), batch[i - 1])
    <2> DEFINE part(k) == SubSeq(batch, 1, k)
    <2>1. ASSUME NEW k \in 0..Len(batch)
          PROVE  /\ part(k) \in Seq(Nat) /\ Len(part(k)) = k
                 /\ \A j \in 1..k : part(k)[j] = batch[j]
      <3>1. k \in Int /\ 1 \in Int /\ \A j \in 1..k : batch[j] \in Nat
        BY <1>2
      <3>2. /\ part(k) \in Seq(Nat)
            /\ Len(part(k)) = IF 1 <= k THEN k - 1 + 1 ELSE 0
            /\ \A j \in 1..(k - 1 + 1) : part(k)[j] = batch[1 + j - 1]
        BY <3>1, SubSeqProperties
      <3> QED
        BY <3>1, <3>2
    <2>2. i - 1 \in 0..Len(batch)
      BY <1>2
    <2>3. part(i - 1) \in Seq(Nat) /\ Len(part(i - 1)) = i - 1
      <3>. HIDE DEF part
      <3> QED
        BY <2>1, <2>2
    <2>4. before(i) = prev \o part(i - 1)
      OBVIOUS
    <2>5. before(i) \in Seq(Nat) /\ Len(before(i)) = Len(prev) + i - 1
      <3>1. before(i) \in Seq(Nat) /\ Len(before(i)) = Len(prev) + Len(part(i - 1))
        <4>. HIDE DEF part, before
        <4> QED
          BY <2>3, <2>4, ConcatProperties
      <3>2. Len(prev) \in Nat /\ i \in Int
        BY LenProperties
      <3> QED
        <4>. HIDE DEF part, before
        <4> QED
          BY <2>3, <3>1, <3>2
    <2>6. CASE i = 1
      <3>1. part(0) = <<>>
        BY SubSeqEmpty
      <3>2. before(1) = prev
        <4>. HIDE DEF part
        <4>1. before(1) = prev \o part(1 - 1)
          BY DEF part
        <4>2. 1 - 1 = 0
          OBVIOUS
        <4> QED
          <5>. HIDE DEF before
          <5> QED
            BY <3>1, <4>1, <4>2, ConcatEmptySeq
      <3> QED
        <4>. HIDE DEF before
        <4> QED
          BY <2>5, <2>6, <3>2
    <2>7. CASE i # 1
      <3>1. i - 1 \in 1..Len(batch) /\ i - 2 \in 0..Len(batch) /\ i - 1 - 1 = i - 2 /\ i - 2 \in Nat
        BY <1>2, <2>7
      <3>2. /\ part(i - 2) \in Seq(Nat) /\ Len(part(i - 2)) = i - 2
            /\ \A j \in 1..(i - 2) : part(i - 2)[j] = batch[j]
            /\ \A j \in 1..(i - 1) : part(i - 1)[j] = batch[j]
        <4>. HIDE DEF part
        <4> QED
          BY <2>1, <2>2, <3>1
      <3>3. before(i - 1) = prev \o part(i - 2)
        <4>1. before(i - 1) = prev \o part(i - 1 - 1)
          OBVIOUS
        <4> QED
          <5>. HIDE DEF before, part
          <5> QED
            BY <3>1, <4>1
      <3>4. part(i - 1) = Append(part(i - 2), batch[i - 1])
        <4> HIDE DEF part
        <4> DEFINE longer == Append(part(i - 2), batch[i - 1])
        <4>1. batch[i - 1] \in Nat
          BY <1>2, <3>1
        <4>2. /\ longer \in Seq(Nat) /\ Len(longer) = Len(part(i - 2)) + 1
              /\ \A j \in 1..Len(part(i - 2)) : longer[j] = part(i - 2)[j]
              /\ longer[Len(part(i - 2)) + 1] = batch[i - 1]
          BY <3>2, <4>1, AppendProperties
        <4>3. Len(longer) = i - 1
          <5>. HIDE DEF longer
          <5> QED
            BY <3>1, <3>2, <4>2
        <4>4. \A j \in 1..(i - 1) : part(i - 1)[j] = longer[j]
          <5>. HIDE DEF longer
          <5>1. longer[i - 1] = batch[i - 1]
            BY <3>1, <3>2, <4>2
          <5>2. \A j \in 1..(i - 1) : j = i - 1 \/ j \in 1..(i - 2)
            BY <3>1
          <5> QED
            BY <3>2, <4>2, <5>1, <5>2
        <4>5. part(i - 1) = longer
          <5>. HIDE DEF longer
          <5>1. Len(part(i - 1)) = Len(longer) /\ \A j \in 1..Len(part(i - 1)) : part(i - 1)[j] = longer[j]
            BY <2>3, <4>3, <4>4
          <5> QED
            BY <2>3, <4>2, <5>1, SameSeq
        <4> QED
          BY <4>5
      <3>5. before(i) = Append(before(i - 1), batch[i - 1])
        <4> HIDE DEF part, before
        <4>1. batch[i - 1] \in Nat /\ <<batch[i - 1]>> \in Seq(Nat)
          BY <1>2, <3>1
        <4>2. part(i - 1) = part(i - 2) \o <<batch[i - 1]>>
          BY <3>2, <3>4, <4>1, AppendIsConcat
        <4>3. before(i - 1) \in Seq(Nat)
          BY <3>2, <3>3, ConcatProperties
        <4>4. Append(before(i - 1), batch[i - 1]) = before(i - 1) \o <<batch[i - 1]>>
          BY <4>1, <4>3, AppendIsConcat
        <4>5. prev \o (part(i - 2) \o <<batch[i - 1]>>) = (prev \o part(i - 2)) \o <<batch[i - 1]>>
          <5>1. prev \in Seq(Nat) /\ part(i - 2) \in Seq(Nat) /\ <<batch[i - 1]>> \in Seq(Nat)
            BY <3>2, <4>1
          <5> QED
            BY <5>1, ConcatAssoc
        <4> QED
          BY <2>4, <3>3, <4>2, <4>4, <4>5
      <3> QED
        <4>. HIDE DEF before
        <4> QED
          BY <2>5, <2>7, <3>5
    <2> QED
      BY <2>6, <2>7
  <1>4. \A i \in 1..Len(batch) :
            rows[i].event = batch[i] /\ rows[i].seq = n + i /\ rows[i].prev = before(i)
    <2>. HIDE DEF before
    <2> QED
      BY <1>1
  <1>5. rows \in Seq(Rows) /\ Len(rows) = Len(batch)
    <2>1. rows \in [1..Len(batch) -> Rows]
      <3>. HIDE DEF before
      <3> QED
        BY <1>1, <1>2, <1>3 DEF Rows
    <2> QED
      <3>. HIDE DEF rows
      <3> QED
        BY <1>2, <2>1, FunSeq
  <1>6. ASSUME NEW i \in 1..Len(batch), i # 1
        PROVE  i - 1 \in 1..Len(batch) /\ rows[i - 1].prev = before(i - 1)
    <2>1. i - 1 \in 1..Len(batch)
      BY <1>2, <1>6
    <2> QED
      <3>. HIDE DEF before, rows
      <3> QED
        BY <1>4, <2>1
  <1> HIDE DEF before
  <1>7. ASSUME NEW i \in 1..Len(batch)
        PROVE  /\ rows[i].event = batch[i] /\ rows[i].seq = n + i
               /\ Len(rows[i].prev) = Len(prev) + i - 1
               /\ rows[i].prev = IF i = 1 THEN prev ELSE Append(rows[i - 1].prev, batch[i - 1])
    <2>. HIDE DEF rows
    <2> QED
      BY <1>3, <1>4, <1>6
  <1> QED
    BY <1>5, <1>7

-----------------------------------------------------------------------------
(* The chain, longer or shorter. *)

(* What is deleted leaves the others in their order. *)
LEMMA DeleteRows ==
    ASSUME chain \in Seq(Rows), NEW es, Delete(es)
    PROVE  /\ chain' \in Seq(Rows)
           /\ \E m \in [1..Len(chain') -> 1..Len(chain)] :
                 /\ \A i, j \in 1..Len(chain') : i < j => m[i] < m[j]
                 /\ \A i \in 1..Len(chain') : chain'[i] = chain[m[i]]
           /\ Stored' = Stored \ es
           /\ pruned' = pruned \cup es
           /\ (\A i \in 1..Len(chain) : chain[i].event \notin es) => chain' = chain
  <1> DEFINE kept == {i \in 1..Len(chain) : chain[i].event \notin es}
             m == [n \in 1..Cardinality(kept) |-> Kept(kept, n)]
  <1>1. /\ chain' = [n \in 1..Cardinality(kept) |-> chain[Kept(kept, n)]]
        /\ pruned' = pruned \cup es
    BY DEF Delete
  <1>2. Len(chain) \in Nat /\ \A i \in 1..Len(chain) : chain[i] \in Rows
    BY LenProperties, ElementOfSeq
  <1>3. kept \in SUBSET Nat /\ kept \subseteq 1..Len(chain) /\ IsFiniteSet(kept)
    <2>1. IsFiniteSet(1..Len(chain))
      BY <1>2, FS_Interval
    <2>2. kept \in SUBSET (1..Len(chain))
      OBVIOUS
    <2>3. IsFiniteSet(kept)
      <3>. HIDE DEF kept
      <3> QED
        BY <2>1, <2>2, FS_Subset
    <2> QED
      BY <1>2, <2>2, <2>3
  <1>4. /\ Cardinality(kept) \in Nat
        /\ \A n \in 1..Cardinality(kept) : Kept(kept, n) \in kept
        /\ \A n, k \in 1..Cardinality(kept) : n < k => Kept(kept, n) < Kept(kept, k)
        /\ \A i \in kept : \E n \in 1..Cardinality(kept) : Kept(kept, n) = i
    <2>. HIDE DEF kept
    <2> QED
      BY <1>3, KeptPlaces
  <1>5. chain' \in Seq(Rows) /\ Len(chain') = Cardinality(kept)
    <2>1. chain' \in [1..Cardinality(kept) -> Rows]
      <3>. HIDE DEF kept
      <3> QED
        BY <1>1, <1>2, <1>3, <1>4
    <2> QED
      <3>. HIDE DEF kept
      <3> QED
        BY <1>4, <2>1, FunSeq
  <1>6. \A n \in 1..Len(chain') : chain'[n] = chain[Kept(kept, n)]
    <2>. HIDE DEF kept
    <2> QED
      BY <1>1, <1>5
  <1>7. /\ m \in [1..Len(chain') -> 1..Len(chain)]
        /\ \A i, j \in 1..Len(chain') : i < j => m[i] < m[j]
        /\ \A i \in 1..Len(chain') : chain'[i] = chain[m[i]]
    <2>. HIDE DEF kept
    <2> QED
      BY <1>3, <1>4, <1>5, <1>6
  <1>8. Stored' = Stored \ es
    <2>1. Stored' = {chain'[i].event : i \in 1..Len(chain')}
      BY DEF Stored
    <2>2. ASSUME NEW i \in 1..Len(chain')
          PROVE  chain'[i].event \in Stored \ es
      <3>1. Kept(kept, i) \in kept /\ chain'[i] = chain[Kept(kept, i)]
        <4>. HIDE DEF kept
        <4> QED
          BY <1>4, <1>5, <1>6
      <3>2. PICK k \in 1..Len(chain) : chain[k].event \notin es /\ chain'[i] = chain[k]
        BY <3>1
      <3> QED
        BY <3>2 DEF Stored
    <2>3. ASSUME NEW e \in Stored, e \notin es
          PROVE  \E i \in 1..Len(chain') : e = chain'[i].event
      <3>1. PICK k \in 1..Len(chain) : e = chain[k].event
        BY DEF Stored
      <3>2. k \in kept
        BY <2>3, <3>1
      <3>3. PICK n \in 1..Cardinality(kept) : Kept(kept, n) = k
        <4>. HIDE DEF kept
        <4> QED
          BY <1>4, <3>2
      <3> QED
        <4>. HIDE DEF kept
        <4> QED
          BY <1>5, <1>6, <3>1, <3>3
    <2> QED
      BY <2>1, <2>2, <2>3
  <1>9. ASSUME \A i \in 1..Len(chain) : chain[i].event \notin es
        PROVE  chain' = chain
    <2>1. kept = 1..Len(chain)
      BY <1>9
    <2>2. Cardinality(kept) = Len(chain) /\ \A n \in 1..Len(chain) : Kept(kept, n) = n
      <3>. HIDE DEF kept
      <3>1. \A n \in 1..Len(chain) : Kept(1..Len(chain), n) = n
        BY <1>2, KeptAll
      <3>2. Cardinality(1..Len(chain)) = Len(chain)
        BY <1>2, IntervalSize
      <3> QED
        BY <2>1, <3>1, <3>2
    <2>3. chain = [n \in 1..Len(chain) |-> chain[n]]
      BY LenProperties
    <2> QED
      <3>. HIDE DEF kept
      <3> QED
        BY <1>1, <2>2, <2>3
  <1> QED
    <2>. HIDE DEF m
    <2> QED
      BY <1>1, <1>5, <1>7, <1>8, <1>9

(* A finite family of numbers has a greatest one. *)
LEMMA Greatest ==
    ASSUME NEW n \in Nat \ {0}, NEW f \in [1..n -> Nat]
    PROVE  \E k \in 1..n : \A i \in 1..n : f[i] <= f[k]
  <1> DEFINE S == {f[i] : i \in 1..n}
  <1>1. IsFiniteSet(S)
    <2>1. f \in Surjection(1..n, S)
      BY DEF Surjection
    <2>2. IsFiniteSet(1..n)
      BY FS_Interval
    <2> QED
      <3>. HIDE DEF S
      <3> QED
        BY <2>1, <2>2, FS_Surjection
  <1>2. S \in SUBSET Nat /\ f[1] \in S
    OBVIOUS
  <1>3. /\ Cardinality(S) \in Nat
        /\ \A i \in S : Cardinality({j \in S : j <= i}) \in 1..Cardinality(S)
        /\ \A i, k \in S : i < k =>
                 Cardinality({j \in S : j <= i}) < Cardinality({j \in S : j <= k})
        /\ \A c \in 1..Cardinality(S) : \E i \in S : Cardinality({j \in S : j <= i}) = c
    <2>. HIDE DEF S
    <2> QED
      BY <1>1, <1>2, Counted
  <1> DEFINE rank(i) == Cardinality({j \in S : j <= i})
  <1>4. PICK g \in S : rank(g) = Cardinality(S)
    <2>1. Cardinality(S) # 0
      <3>. HIDE DEF S
      <3> QED
        BY <1>1, <1>2, FS_EmptySet
    <2>2. Cardinality(S) \in 1..Cardinality(S)
      <3>. HIDE DEF S
      <3> QED
        BY <1>3, <2>1
    <2> QED
      BY <1>3, <2>2
  <1>5. ASSUME NEW i \in S
        PROVE  i <= g
    <2>1. rank(i) \in 1..Cardinality(S) /\ (g < i => rank(g) < rank(i))
      BY <1>3
    <2>2. i \in Nat /\ g \in Nat
      BY <1>2
    <2> QED
      <3>. HIDE DEF rank, S
      <3> QED
        BY <1>3, <1>4, <2>1, <2>2
  <1>6. PICK k \in 1..n : g = f[k]
    OBVIOUS
  <1> QED
    BY <1>5, <1>6

LEMMA LastState ==
    ASSUME chain \in Seq(Rows),
           \A i \in 1..Len(chain) : chain[i].seq = Len(chain[i].prev) + 1
    PROVE  /\ LastAuditState \in Seq(Nat)
           /\ LastAuditState = Genesis \/ LastAuditState[Len(LastAuditState)] \in Stored
           /\ \A i \in 1..Len(chain) : chain[i].seq <= Len(LastAuditState)
  <1>1. Len(chain) \in Nat /\ \A i \in 1..Len(chain) : chain[i] \in Rows
    BY LenProperties, ElementOfSeq
  <1>2. CASE chain = <<>>
    <2>1. LastAuditState = <<>> /\ Len(chain) = 0
      BY <1>2, EmptySeq DEF LastAuditState, Genesis
    <2> QED
      BY <2>1, EmptySeq DEF Genesis
  <1>3. CASE chain # <<>>
    <2>1. Len(chain) \in Nat \ {0}
      BY <1>3, EmptySeq
    <2> DEFINE f == [i \in 1..Len(chain) |-> chain[i].seq]
    <2>2. f \in [1..Len(chain) -> Nat]
      BY <1>1 DEF Rows
    <2>3. \E k \in 1..Len(chain) : \A i \in 1..Len(chain) : f[i] <= f[k]
      <3>. HIDE DEF f
      <3> QED
        BY <2>1, <2>2, Greatest
    <2>4. PICK k \in 1..Len(chain) : \A i \in 1..Len(chain) : chain[i].seq <= chain[k].seq
      BY <2>3
    <2>5. chain[k] \in Elems(chain) /\ \A q \in Elems(chain) : q.seq <= chain[k].seq
      BY <2>4 DEF Elems
    <2> DEFINE r == CHOOSE r \in Elems(chain) : \A q \in Elems(chain) : q.seq <= r.seq
    <2>6. r \in Elems(chain) /\ \A q \in Elems(chain) : q.seq <= r.seq
      BY <2>5
    <2>7. LastAuditState = Append(r.prev, r.event)
      BY <1>3 DEF LastAuditState, Sum
    <2> HIDE DEF r
    <2>8. PICK j \in 1..Len(chain) : r = chain[j]
      BY <2>6 DEF Elems
    <2>9. r.prev \in Seq(Nat) /\ r.event \in Nat /\ r.seq = Len(r.prev) + 1 /\ r.event \in Stored
      BY <1>1, <2>8 DEF Rows, Stored
    <2>10. /\ LastAuditState \in Seq(Nat) /\ Len(LastAuditState) = Len(r.prev) + 1
           /\ LastAuditState[Len(LastAuditState)] = r.event
      BY <2>7, <2>9, LastOfAppend
    <2>11. \A i \in 1..Len(chain) : chain[i].seq <= r.seq
      BY <2>6 DEF Elems
    <2> QED
      BY <2>9, <2>10, <2>11
  <1> QED
    BY <1>2, <1>3

LEMMA ChainedSame ==
    ASSUME Chained, chain' = chain, backend' = backend, pruned \subseteq pruned', raced \subseteq raced'
    PROVE  Chained'
  <1>1. Stored' = Stored /\ (Verifies => Verifies')
    BY DEF Stored, Verifies
  <1>2. (\A i \in 1..Len(chain) : Continues(chain[i]))'
    BY <1>1 DEF Chained, Continues
  <1> QED
    BY <1>1, <1>2 DEF Chained

LEMMA ChainedDelete ==
    ASSUME chain \in Seq(Rows), Chained, NEW es, Delete(es), backend' = backend, raced \subseteq raced'
    PROVE  Chained'
  <1>1. /\ chain' \in Seq(Rows) /\ Stored' = Stored \ es /\ pruned' = pruned \cup es
        /\ (\A i \in 1..Len(chain) : chain[i].event \notin es) => chain' = chain
    BY DeleteRows
  <1>2. PICK m \in [1..Len(chain') -> 1..Len(chain)] :
            /\ \A i, j \in 1..Len(chain') : i < j => m[i] < m[j]
            /\ \A i \in 1..Len(chain') : chain'[i] = chain[m[i]]
    BY DeleteRows
  <1>3. CASE pruned' = {}
    <2>1. es = {} /\ pruned \subseteq pruned'
      BY <1>1, <1>3
    <2> QED
      BY <1>1, <2>1, ChainedSame
  <1>4. CASE pruned' # {}
    <2>1. \A i \in 1..Len(chain') : m[i] \in 1..Len(chain)
      OBVIOUS
    <2>2. Stored \cup pruned \subseteq Stored' \cup pruned'
      BY <1>1
    <2>3. (\A i \in 1..Len(chain) : Continues(chain[i]))'
      <3> SUFFICES ASSUME NEW i \in 1..Len(chain')
                   PROVE  Continues(chain[i])'
        OBVIOUS
      <3>1. Continues(chain[m[i]])
        BY <2>1 DEF Chained
      <3> QED
        BY <1>2, <2>2, <3>1 DEF Continues
    <2>4. (\A i, j \in 1..Len(chain) : i < j =>
              /\ chain[i].event # chain[j].event
              /\ backend = "memory" => Len(chain[i].prev) < Len(chain[j].prev)
              /\ chain[i].seq = chain[j].seq =>
                    \/ backend = "memory"
                    \/ backend = "dynamodb" /\ {chain[i].event, chain[j].event} \cap raced # {})'
      <3> SUFFICES ASSUME NEW i \in 1..Len(chain'), NEW j \in 1..Len(chain'), i < j
                   PROVE  /\ chain'[i].event # chain'[j].event
                          /\ backend' = "memory" => Len(chain'[i].prev) < Len(chain'[j].prev)
                          /\ chain'[i].seq = chain'[j].seq =>
                                \/ backend' = "memory"
                                \/ backend' = "dynamodb" /\ {chain'[i].event, chain'[j].event} \cap raced' # {}
        OBVIOUS
      <3>1. PICK k \in 1..Len(chain) : k = m[i]
        BY <2>1
      <3>2. PICK l \in 1..Len(chain) : l = m[j]
        BY <2>1
      <3>3. k < l /\ chain'[i] = chain[k] /\ chain'[j] = chain[l]
        BY <1>2, <3>1, <3>2
      <3>4. /\ chain[k].event # chain[l].event
            /\ backend = "memory" => Len(chain[k].prev) < Len(chain[l].prev)
            /\ chain[k].seq = chain[l].seq =>
                  \/ backend = "memory"
                  \/ backend = "dynamodb" /\ {chain[k].event, chain[l].event} \cap raced # {}
        BY <3>3 DEF Chained
      <3> QED
        BY <3>3, <3>4
    <2>5. (\A i \in 1..Len(chain) :
              IF backend = "memory" THEN pruned = {} => chain[i].seq = i
                                    ELSE chain[i].seq = Len(chain[i].prev) + 1)'
      BY <1>2, <1>4, <2>1 DEF Chained
    <2> QED
      BY <1>4, <2>3, <2>4, <2>5 DEF Chained
  <1> QED
    BY <1>3, <1>4

LEMMA ConcatRows ==
    \A s, t \in Seq(Rows) :
        /\ s \o t \in Seq(Rows) /\ Len(s \o t) = Len(s) + Len(t)
        /\ \A i \in 1..(Len(s) + Len(t)) :
              (s \o t)[i] = IF i <= Len(s) THEN s[i] ELSE t[i - Len(s)]
  BY ConcatProperties

LEMMA AppendRows ==
    ASSUME chain \in Seq(Rows), NEW todo \in Seq(Nat), NEW tail \in Seq(Nat), NEW n \in Nat,
           chain' = chain \o LinkedRows(todo, tail, n)
    PROVE  /\ chain' \in Seq(Rows) /\ Len(chain) \in Nat /\ Len(todo) \in Nat
           /\ Len(chain') = Len(chain) + Len(todo)
           /\ \A i \in 1..Len(chain) : chain'[i] = chain[i]
           /\ \A i \in 1..Len(todo) :
                 /\ chain'[Len(chain) + i] = LinkedRows(todo, tail, n)[i]
                 /\ chain'[Len(chain) + i].event = todo[i]
                 /\ chain'[Len(chain) + i].seq = n + i
                 /\ Len(chain'[Len(chain) + i].prev) = Len(tail) + i - 1
                 /\ chain'[Len(chain) + i].prev
                       = IF i = 1 THEN tail ELSE Append(chain'[Len(chain) + i - 1].prev, todo[i - 1])
           /\ \A k \in 1..Len(chain') : k \in 1..Len(chain) \/ k - Len(chain) \in 1..Len(todo)
           /\ Stored' = Stored \cup Elems(todo)
  <1> DEFINE rows == LinkedRows(todo, tail, n)
  <1>1. /\ rows \in Seq(Rows) /\ Len(rows) = Len(todo)
        /\ \A i \in 1..Len(todo) :
              /\ rows[i].event = todo[i] /\ rows[i].seq = n + i
              /\ Len(rows[i].prev) = Len(tail) + i - 1
              /\ rows[i].prev = IF i = 1 THEN tail ELSE Append(rows[i - 1].prev, todo[i - 1])
    BY LinkedRowsSound
  <1>2. chain' = chain \o rows
    OBVIOUS
  <1> HIDE DEF rows
  <1>3. /\ Len(chain) \in Nat /\ Len(todo) \in Nat
    BY LenProperties
  <1>4. /\ chain' \in Seq(Rows) /\ Len(chain') = Len(chain) + Len(todo)
        /\ \A i \in 1..(Len(chain) + Len(todo)) :
              chain'[i] = IF i <= Len(chain) THEN chain[i] ELSE rows[i - Len(chain)]
    <2>1. /\ chain \o rows \in Seq(Rows) /\ Len(chain \o rows) = Len(chain) + Len(rows)
          /\ \A i \in 1..(Len(chain) + Len(rows)) :
                (chain \o rows)[i] = IF i <= Len(chain) THEN chain[i] ELSE rows[i - Len(chain)]
      BY <1>1, ConcatRows
    <2> QED
      BY <1>1, <1>2, <2>1
  <1>5. \A i \in 1..Len(chain) : chain'[i] = chain[i]
    BY <1>3, <1>4
  <1>6. ASSUME NEW i \in 1..Len(todo)
        PROVE  chain'[Len(chain) + i] = rows[i]
    <2>1. /\ Len(chain) + i \in 1..(Len(chain) + Len(todo))
          /\ ~(Len(chain) + i <= Len(chain)) /\ Len(chain) + i - Len(chain) = i
      BY <1>3
    <2>2. \A k \in 1..(Len(chain) + Len(todo)) :
             ~(k <= Len(chain)) => chain'[k] = rows[k - Len(chain)]
      BY <1>4
    <2>3. PICK k \in 1..(Len(chain) + Len(todo)) : k = Len(chain) + i /\ ~(k <= Len(chain)) /\ k - Len(chain) = i
      BY <2>1
    <2>4. chain'[k] = rows[k - Len(chain)]
      BY <2>2, <2>3, Zenon
    <2> QED
      BY <2>3, <2>4
  <1>7. ASSUME NEW i \in 1..Len(todo), i # 1
        PROVE  chain'[Len(chain) + i - 1] = rows[i - 1]
    <2>1. i - 1 \in 1..Len(todo) /\ Len(chain) + i - 1 = Len(chain) + (i - 1)
      BY <1>3, <1>7
    <2> QED
      BY <1>6, <2>1
  <1>8. \A k \in 1..Len(chain') : k \in 1..Len(chain) \/ k - Len(chain) \in 1..Len(todo)
    BY <1>3, <1>4
  <1>9. Stored' = Stored \cup Elems(todo)
    <2>1. Stored' = {chain'[k].event : k \in 1..Len(chain')}
      BY DEF Stored
    <2>2. ASSUME NEW k \in 1..Len(chain')
          PROVE  chain'[k].event \in Stored \cup Elems(todo)
      <3>1. CASE k \in 1..Len(chain)
        BY <1>5, <3>1 DEF Stored
      <3>2. CASE k - Len(chain) \in 1..Len(todo)
        <4>1. PICK i \in 1..Len(todo) : k = Len(chain) + i
          BY <1>3, <3>2
        <4>2. chain'[k].event = todo[i]
          BY <1>1, <1>6, <4>1
        <4> QED
          BY <4>2 DEF Elems
      <3> QED
        BY <1>8, <3>1, <3>2
    <2>3. ASSUME NEW e \in Stored
          PROVE  \E k \in 1..Len(chain') : e = chain'[k].event
      <3>1. PICK k \in 1..Len(chain) : e = chain[k].event
        BY DEF Stored
      <3>2. k \in 1..Len(chain')
        BY <1>3, <1>4
      <3> QED
        BY <1>5, <3>1, <3>2
    <2>4. ASSUME NEW e \in Elems(todo)
          PROVE  \E k \in 1..Len(chain') : e = chain'[k].event
      <3>1. PICK i \in 1..Len(todo) : e = todo[i]
        BY DEF Elems
      <3>2. Len(chain) + i \in 1..Len(chain')
        BY <1>3, <1>4
      <3> QED
        BY <1>1, <1>6, <3>1, <3>2
    <2>5. Stored' \subseteq Stored \cup Elems(todo)
      BY <2>1, <2>2
    <2>6. Stored \cup Elems(todo) \subseteq Stored'
      BY <2>1, <2>3, <2>4
    <2> QED
      BY <2>5, <2>6
  <1>10. ASSUME NEW i \in 1..Len(todo)
         PROVE  /\ chain'[Len(chain) + i].event = todo[i]
                /\ chain'[Len(chain) + i].seq = n + i
                /\ Len(chain'[Len(chain) + i].prev) = Len(tail) + i - 1
                /\ chain'[Len(chain) + i].prev
                      = IF i = 1 THEN tail ELSE Append(chain'[Len(chain) + i - 1].prev, todo[i - 1])
    BY <1>1, <1>6, <1>7
  <1> QED
    BY <1>3, <1>4, <1>5, <1>6, <1>8, <1>9, <1>10 DEF rows


(* The rows of todo are stored behind tail. *)
StoredBehind(todo, tail, n) ==
    /\ chain' = chain \o LinkedRows(todo, tail, n)
    /\ backend' = backend /\ pruned' = pruned /\ raced \subseteq raced'
    /\ \A i, j \in 1..Len(todo) : i < j => todo[i] # todo[j]
    /\ \A i \in 1..Len(todo) : todo[i] \notin Stored
    /\ tail = Genesis \/ tail[Len(tail)] \in Stored \cup pruned
    /\ IF backend = "memory"
       THEN n = Len(chain) /\ tail = IF chain = <<>> THEN Genesis ELSE Sum(chain[Len(chain)])
       ELSE n = Len(tail)
    /\ \A i \in 1..Len(chain), j \in 1..Len(todo) : chain[i].seq = n + j =>
           \/ backend = "memory"
           \/ backend = "dynamodb" /\ todo[j] \in raced'

LEMMA ChainedAppend ==
    ASSUME chain \in Seq(Rows), Chained, NEW todo \in Seq(Nat), NEW tail \in Seq(Nat), NEW n \in Nat,
           StoredBehind(todo, tail, n)
    PROVE  Chained'
  <1> DEFINE L == Len(chain)
  <1>0. /\ chain' \in Seq(Rows) /\ Len(chain) \in Nat /\ Len(todo) \in Nat
        /\ Len(chain') = Len(chain) + Len(todo)
        /\ \A i \in 1..Len(chain) : chain'[i] = chain[i]
        /\ \A i \in 1..Len(todo) :
              /\ chain'[Len(chain) + i] = LinkedRows(todo, tail, n)[i]
              /\ chain'[Len(chain) + i].event = todo[i]
              /\ chain'[Len(chain) + i].seq = n + i
              /\ Len(chain'[Len(chain) + i].prev) = Len(tail) + i - 1
              /\ chain'[Len(chain) + i].prev
                    = IF i = 1 THEN tail ELSE Append(chain'[Len(chain) + i - 1].prev, todo[i - 1])
        /\ \A k \in 1..Len(chain') : k \in 1..Len(chain) \/ k - Len(chain) \in 1..Len(todo)
        /\ Stored' = Stored \cup Elems(todo)
    BY AppendRows DEF StoredBehind
  <1>1. /\ chain' \in Seq(Rows) /\ L \in Nat /\ Len(todo) \in Nat
        /\ Len(chain') = L + Len(todo)
        /\ \A i \in 1..L : chain'[i] = chain[i]
        /\ \A i \in 1..Len(todo) :
              /\ chain'[L + i].event = todo[i]
              /\ chain'[L + i].seq = n + i
              /\ Len(chain'[L + i].prev) = Len(tail) + i - 1
              /\ chain'[L + i].prev = IF i = 1 THEN tail ELSE Append(chain'[L + i - 1].prev, todo[i - 1])
        /\ Stored' = Stored \cup Elems(todo)
    BY <1>0
  <1>2. /\ Len(tail) \in Nat /\ L \in Nat /\ Len(todo) \in Nat
        /\ \A i \in 1..Len(todo) : todo[i] \in Nat
    BY LenProperties, ElementOfSeq
  <1>3. \A i \in 1..L : chain[i] \in Rows
    BY ElementOfSeq
  <1>4. \A k \in 1..Len(chain') : k \in 1..L \/ \E i \in 1..Len(todo) : k = L + i
    <2> SUFFICES ASSUME NEW k \in 1..Len(chain'), k \notin 1..L
                 PROVE  \E i \in 1..Len(todo) : k = L + i
      OBVIOUS
    <2>1. k - L \in 1..Len(todo) /\ k = L + (k - L)
      BY <1>0
    <2> QED
      BY <2>1
  <1>5. ASSUME NEW i \in 1..Len(todo), i # 1
        PROVE  /\ i - 1 \in 1..Len(todo) /\ L + i - 1 = L + (i - 1)
               /\ chain'[L + i - 1].prev \in Seq(Nat) /\ todo[i - 1] \in Nat
               /\ chain'[L + i - 1].event = todo[i - 1]
    <2>1. i - 1 \in 1..Len(todo) /\ L + i - 1 = L + (i - 1)
      BY <1>2, <1>5
    <2>2. L + (i - 1) \in 1..Len(chain')
      <3>1. Len(chain') = L + Len(todo)
        BY <1>1
      <3> QED
        BY <1>2, <2>1, <3>1
    <2>3. chain'[L + (i - 1)] \in Rows
      BY <1>1, <2>2, ElementOfSeq
    <2> QED
      BY <1>1, <1>2, <2>1, <2>3 DEF Rows
  <1>6. (\A i \in 1..Len(chain) : Continues(chain[i]))'
    <2> SUFFICES ASSUME NEW k \in 1..Len(chain')
                 PROVE  Continues(chain[k])'
      OBVIOUS
    <2>1. CASE k \in 1..L
      <3>1. Continues(chain[k])
        BY <2>1 DEF Chained
      <3> QED
        BY <1>1, <2>1, <3>1 DEF Continues, StoredBehind
    <2>2. ASSUME NEW i \in 1..Len(todo), k = L + i
          PROVE  Continues(chain[k])'
      <3>1. CASE i = 1
        BY <1>1, <2>2, <3>1 DEF Continues, StoredBehind
      <3>2. CASE i # 1
        <4>1. chain'[k].prev = Append(chain'[L + i - 1].prev, todo[i - 1])
          BY <1>1, <2>2, <3>2
        <4>2. chain'[k].prev[Len(chain'[k].prev)] = todo[i - 1]
          <5>1. chain'[L + i - 1].prev \in Seq(Nat) /\ todo[i - 1] \in Nat
            BY <1>5, <3>2
          <5>2. \A s \in Seq(Nat), e \in Nat : Append(s, e)[Len(Append(s, e))] = e
            BY LastOfAppend
          <5>3. PICK s \in Seq(Nat), e \in Nat : s = chain'[L + i - 1].prev /\ e = todo[i - 1]
            BY <5>1
          <5>4. Append(s, e)[Len(Append(s, e))] = e /\ chain'[k].prev = Append(s, e)
            BY <4>1, <5>2, <5>3
          <5> QED
            BY <5>3, <5>4, Zenon
        <4>3. todo[i - 1] \in Elems(todo)
          BY <1>5, <3>2 DEF Elems
        <4> QED
          BY <1>1, <4>2, <4>3 DEF Continues, StoredBehind
      <3> QED
        BY <3>1, <3>2
    <2> QED
      BY <1>4, <2>1, <2>2
  <1>7. (\A i, j \in 1..Len(chain) : i < j =>
            /\ chain[i].event # chain[j].event
            /\ backend = "memory" => Len(chain[i].prev) < Len(chain[j].prev)
            /\ chain[i].seq = chain[j].seq =>
                  \/ backend = "memory"
                  \/ backend = "dynamodb" /\ {chain[i].event, chain[j].event} \cap raced # {})'
    <2> SUFFICES ASSUME NEW k \in 1..Len(chain'), NEW l \in 1..Len(chain'), k < l
                 PROVE  /\ chain'[k].event # chain'[l].event
                        /\ backend' = "memory" => Len(chain'[k].prev) < Len(chain'[l].prev)
                        /\ chain'[k].seq = chain'[l].seq =>
                              \/ backend' = "memory"
                              \/ backend' = "dynamodb" /\ {chain'[k].event, chain'[l].event} \cap raced' # {}
      OBVIOUS
    <2>1. CASE l \in 1..L
      <3>1. k \in 1..L
        BY <1>1, <2>1
      <3>2. /\ chain[k].event # chain[l].event
            /\ backend = "memory" => Len(chain[k].prev) < Len(chain[l].prev)
            /\ chain[k].seq = chain[l].seq =>
                  \/ backend = "memory"
                  \/ backend = "dynamodb" /\ {chain[k].event, chain[l].event} \cap raced # {}
        BY <2>1, <3>1 DEF Chained
      <3>3. chain'[k] = chain[k] /\ chain'[l] = chain[l]
        BY <1>1, <2>1, <3>1
      <3> QED
        BY <3>2, <3>3 DEF StoredBehind
    <2>2. ASSUME k \in 1..L, NEW j \in 1..Len(todo), l = L + j
          PROVE  /\ chain'[k].event # chain'[l].event
                 /\ backend' = "memory" => Len(chain'[k].prev) < Len(chain'[l].prev)
                 /\ chain'[k].seq = chain'[l].seq =>
                       \/ backend' = "memory"
                       \/ backend' = "dynamodb" /\ {chain'[k].event, chain'[l].event} \cap raced' # {}
      <3>1. chain'[k] = chain[k] /\ chain'[l].event = todo[j] /\ chain'[l].seq = n + j
            /\ Len(chain'[l].prev) = Len(tail) + j - 1
        BY <1>1, <2>2
      <3>2. chain[k].event # todo[j]
        BY <2>2 DEF Stored, StoredBehind
      <3>3. ASSUME backend = "memory"
            PROVE  Len(chain[k].prev) < Len(tail) + j - 1
        <4>1. L \in 1..L /\ chain # <<>>
          BY <1>1, <2>2, EmptySeq
        <4>2. chain[L] \in Rows /\ tail = Append(chain[L].prev, chain[L].event)
          BY <1>3, <3>3, <4>1 DEF Sum, StoredBehind
        <4>3. Len(tail) = Len(chain[L].prev) + 1 /\ Len(chain[L].prev) \in Nat
          BY <4>2, LastOfAppend, LenProperties DEF Rows
        <4>4. k = L \/ Len(chain[k].prev) < Len(chain[L].prev)
          BY <1>1, <2>2, <3>3, <4>1 DEF Chained
        <4>5. Len(chain[k].prev) \in Nat
          BY <1>3, <2>2, LenProperties DEF Rows
        <4> QED
          <5>1. j \in Nat \ {0}
            BY <1>2
          <5>2. PICK a, b, c \in Nat : a = Len(chain[k].prev) /\ b = Len(chain[L].prev) /\ c = Len(tail)
            BY <1>2, <4>3, <4>5
          <5>3. c = b + 1 /\ (a = b \/ a < b)
            BY <4>3, <4>4, <5>2
          <5>4. a < c + j - 1
            BY <5>1, <5>3
          <5> QED
            BY <5>2, <5>4
      <3> QED
        BY <2>2, <3>1, <3>2, <3>3 DEF StoredBehind
    <2>3. ASSUME NEW i \in 1..Len(todo), k = L + i, NEW j \in 1..Len(todo), l = L + j
          PROVE  /\ chain'[k].event # chain'[l].event
                 /\ backend' = "memory" => Len(chain'[k].prev) < Len(chain'[l].prev)
                 /\ chain'[k].seq = chain'[l].seq =>
                       \/ backend' = "memory"
                       \/ backend' = "dynamodb" /\ {chain'[k].event, chain'[l].event} \cap raced' # {}
      <3>1. i < j
        BY <1>2, <2>3
      <3>2. /\ chain'[k].event = todo[i] /\ chain'[k].seq = n + i /\ Len(chain'[k].prev) = Len(tail) + i - 1
            /\ chain'[l].event = todo[j] /\ chain'[l].seq = n + j /\ Len(chain'[l].prev) = Len(tail) + j - 1
        BY <1>1, <2>3
      <3>3. n + i # n + j /\ Len(tail) + i - 1 < Len(tail) + j - 1
        BY <1>2, <3>1
      <3>4. todo[i] # todo[j]
        BY <3>1 DEF StoredBehind
      <3> QED
        BY <3>2, <3>3, <3>4
    <2>4. ASSUME NEW i \in 1..Len(todo), k = L + i, l \in 1..L
          PROVE  FALSE
      BY <1>1, <2>4
    <2> QED
      BY <1>4, <2>1, <2>2, <2>3, <2>4
  <1>8. (\A i \in 1..Len(chain) :
            IF backend = "memory" THEN pruned = {} => chain[i].seq = i
                                  ELSE chain[i].seq = Len(chain[i].prev) + 1)'
    <2> SUFFICES ASSUME NEW k \in 1..Len(chain')
                 PROVE  IF backend = "memory" THEN pruned = {} => chain'[k].seq = k
                                  ELSE chain'[k].seq = Len(chain'[k].prev) + 1
      BY DEF StoredBehind
    <2>1. CASE k \in 1..L
      BY <1>1, <2>1 DEF Chained, StoredBehind
    <2>2. ASSUME NEW i \in 1..Len(todo), k = L + i
          PROVE  IF backend = "memory" THEN pruned = {} => chain'[k].seq = k
                                  ELSE chain'[k].seq = Len(chain'[k].prev) + 1
      <3>1. chain'[k].seq = n + i /\ Len(chain'[k].prev) = Len(tail) + i - 1
        BY <1>1, <2>2
      <3>2. IF backend = "memory" THEN n = L ELSE n = Len(tail)
        BY DEF StoredBehind
      <3>3. i \in Nat /\ Len(tail) + i = Len(tail) + i - 1 + 1
        BY <1>2
      <3> QED
        BY <2>2, <3>1, <3>2, <3>3
    <2> QED
      BY <1>4, <2>1, <2>2
  <1>9. ASSUME backend = "memory", pruned = {}
        PROVE  Verifies'
    <2> SUFFICES ASSUME NEW k \in 1..Len(chain')
                 PROVE  chain'[k].prev = IF k = 1 THEN Genesis ELSE Sum(chain'[k - 1])
      BY DEF Verifies
    <2>1. CASE k \in 1..L
      <3>1. chain[k].prev = IF k = 1 THEN Genesis ELSE Sum(chain[k - 1])
        BY <1>9, <2>1 DEF Chained, Verifies
      <3>2. k = 1 \/ k - 1 \in 1..L
        BY <1>1, <2>1
      <3> QED
        BY <1>1, <2>1, <3>1, <3>2 DEF Sum
    <2>2. ASSUME NEW i \in 1..Len(todo), k = L + i
          PROVE  chain'[k].prev = IF k = 1 THEN Genesis ELSE Sum(chain'[k - 1])
      <3>1. CASE i # 1
        <4>1. chain'[k].prev = Append(chain'[L + i - 1].prev, todo[i - 1])
          BY <1>1, <2>2, <3>1
        <4>2. k # 1 /\ k - 1 = L + i - 1
          BY <1>1, <2>2, <3>1
        <4> QED
          BY <1>5, <3>1, <4>1, <4>2 DEF Sum
      <3>2. CASE i = 1 /\ chain = <<>>
        <4>1. L = 0 /\ k = 1
          BY <1>1, <2>2, <3>2, EmptySeq
        <4> QED
          BY <1>1, <1>9, <2>2, <3>2, <4>1 DEF StoredBehind
      <3>3. CASE i = 1 /\ chain # <<>>
        <4>1. L # 0
          BY <3>3, EmptySeq
        <4>2. k # 1 /\ k - 1 = L /\ L \in 1..L
          BY <1>1, <2>2, <3>3, <4>1
        <4>3. chain'[k].prev = Sum(chain[L])
          BY <1>1, <1>9, <2>2, <3>3 DEF StoredBehind
        <4> QED
          <5>1. chain'[k - 1] = chain[L]
            BY <1>1, <4>2
          <5> QED
            BY <4>2, <4>3, <5>1
      <3> QED
        BY <3>1, <3>2, <3>3
    <2> QED
      BY <1>4, <2>1, <2>2
  <1> QED
    BY <1>6, <1>7, <1>8, <1>9 DEF Chained, StoredBehind

-----------------------------------------------------------------------------
(* Queues and batches. *)

LEMMA ApartFewer ==
    ASSUME NEW old \in [Spots -> Seq(Nat)], NEW new \in [Spots -> Seq(Nat)], Apart(old),
           \A z \in Spots : new[z] = <<>> \/ new[z] = old[z]
    PROVE  Apart(new)
  <1> SUFFICES ASSUME NEW y \in Spots, NEW z \in Spots,
                      NEW i \in 1..Len(new[y]), NEW j \in 1..Len(new[z]), new[y][i] = new[z][j]
               PROVE  y = z /\ i = j
    BY DEF Apart
  <1>1. new[y] = old[y] /\ new[z] = old[z]
    BY EmptySeq
  <1> QED
    BY <1>1 DEF Apart

LEMMA ApartMoved ==
    ASSUME NEW old \in [Spots -> Seq(Nat)], NEW new \in [Spots -> Seq(Nat)], Apart(old),
           NEW x \in Spots, NEW w \in Spots, x # w,
           \A z \in Spots : new[z] = IF z = x THEN <<>> ELSE IF z = w THEN old[x] ELSE old[z]
    PROVE  Apart(new)
  <1> SUFFICES ASSUME NEW y \in Spots, NEW z \in Spots,
                      NEW i \in 1..Len(new[y]), NEW j \in 1..Len(new[z]), new[y][i] = new[z][j]
               PROVE  y = z /\ i = j
    BY DEF Apart
  <1>1. y # x /\ z # x
    BY EmptySeq
  <1>2. PICK a \in Spots : a = (IF y = w THEN x ELSE y) /\ new[y] = old[a]
    BY <1>1
  <1>3. PICK b \in Spots : b = (IF z = w THEN x ELSE z) /\ new[z] = old[b]
    BY <1>1
  <1>4. a = b /\ i = j
    BY <1>2, <1>3, SMTT(20) DEF Apart
  <1> QED
    BY <1>1, <1>2, <1>3, <1>4

LEMMA ApartAt ==
    ASSUME NEW old \in [Spots -> Seq(Nat)], Apart(old), NEW a \in Spots, NEW b \in Spots,
           NEW k \in 1..Len(old[a]), NEW l \in 1..Len(old[b]), old[a][k] = old[b][l]
    PROVE  a = b /\ k = l
  BY DEF Apart

LEMMA ApartJoined ==
    ASSUME NEW old \in [Spots -> Seq(Nat)], NEW new \in [Spots -> Seq(Nat)], Apart(old),
           NEW x \in Spots, NEW w \in Spots, x # w,
           \A z \in Spots : new[z] = IF z = x THEN <<>> ELSE IF z = w THEN old[x] \o old[w] ELSE old[z]
    PROVE  Apart(new)
  <1> DEFINE n == Len(old[x])
  <1>1. /\ n \in Nat /\ Len(old[w]) \in Nat
        /\ old[x] \in Seq(Nat) /\ old[w] \in Seq(Nat)
    BY LenProperties
  <1>2. /\ new[x] = <<>> /\ new[w] = old[x] \o old[w]
        /\ Len(new[w]) = n + Len(old[w])
        /\ \A i \in 1..(n + Len(old[w])) :
              new[w][i] = IF i <= n THEN old[x][i] ELSE old[w][i - n]
    BY <1>1, ConcatProperties
  <1> DEFINE From(v, m, u, p) == /\ new[v][m] = old[u][p]
                                 /\ \/ v # w /\ u = v /\ p = m
                                    \/ v = w /\ u = x /\ p = m
                                    \/ v = w /\ u = w /\ p = m - n
                                 /\ v # x
  <1>3. ASSUME NEW y \in Spots, NEW i \in 1..Len(new[y])
        PROVE  \E a \in Spots : \E k \in 1..Len(old[a]) : From(y, i, a, k)
    <2>1. y # x
      BY <1>2, EmptySeq
    <2>2. CASE y # w
      BY <2>1, <2>2
    <2>3. CASE y = w /\ i <= n
      <3>1. i \in 1..n /\ i \in 1..(n + Len(old[w]))
        BY <1>1, <1>2, <2>3
      <3>2. new[w][i] = old[x][i]
        BY <1>2, <2>3, <3>1
      <3> QED
        BY <2>1, <2>3, <3>1, <3>2
    <2>4. CASE y = w /\ ~(i <= n)
      <3>1. i - n \in 1..Len(old[w]) /\ i \in 1..(n + Len(old[w]))
        BY <1>1, <1>2, <2>4
      <3>2. new[w][i] = old[w][i - n]
        BY <1>2, <2>4, <3>1
      <3>3. w # x
        OBVIOUS
      <3> QED
        BY <2>1, <2>4, <3>1, <3>2, <3>3
    <2> QED
      BY <2>2, <2>3, <2>4
  <1> SUFFICES ASSUME NEW y \in Spots, NEW z \in Spots,
                      NEW i \in 1..Len(new[y]), NEW j \in 1..Len(new[z]), new[y][i] = new[z][j]
               PROVE  y = z /\ i = j
    BY DEF Apart
  <1>4. \A v \in Spots : \A m \in 1..Len(new[v]) :
           \E u \in Spots : \E p \in 1..Len(old[u]) : From(v, m, u, p)
    <2> HIDE DEF From
    <2> QED
      BY <1>3, Zenon
  <1>5. PICK a \in Spots : \E k \in 1..Len(old[a]) : From(y, i, a, k)
    <2> HIDE DEF From
    <2> QED
      BY <1>4, Zenon
  <1>6. PICK b \in Spots : \E l \in 1..Len(old[b]) : From(z, j, b, l)
    <2> HIDE DEF From
    <2> QED
      BY <1>4, Zenon
  <1>7. PICK k \in 1..Len(old[a]), l \in 1..Len(old[b]) : From(y, i, a, k) /\ From(z, j, b, l)
    BY <1>5, <1>6
  <1>8. a = b /\ k = l
    <2>1. old[a][k] = old[b][l]
      BY <1>7
    <2>2. \A u, v \in Spots : \A p \in 1..Len(old[u]), q \in 1..Len(old[v]) :
              old[u][p] = old[v][q] => u = v /\ p = q
      BY ApartAt
    <2>3. \A p \in 1..Len(old[a]), q \in 1..Len(old[b]) : old[a][p] = old[b][q] => a = b /\ p = q
      BY <2>2, Zenon
    <2> HIDE DEF From, n
    <2> QED
      BY <2>1, <2>3, Zenon
  <1>9. i \in Int /\ j \in Int /\ x # w /\ n \in Int
    BY <1>1
  <1>10. y = z
    BY <1>7, <1>8, <1>9
  <1>11. (k = i /\ l = j) \/ (k = i - n /\ l = j - n)
    <2> HIDE DEF n
    <2>1. CASE y # w
      BY <1>7, <1>10, <2>1
    <2>2. CASE y = w /\ a = x
      <3>1. b = x /\ b # w
        BY <1>8, <1>9, <2>2
      <3> QED
        BY <1>7, <1>9, <1>10, <2>2, <3>1
    <2>3. CASE y = w /\ a = w
      <3>1. b = w /\ b # x
        BY <1>8, <1>9, <2>3
      <3> QED
        BY <1>7, <1>9, <1>10, <2>3, <3>1
    <2> QED
      BY <1>7, <2>1, <2>2, <2>3
  <1>12. i = j
    <2>. HIDE DEF n
    <2>1. k = l
      BY <1>8
    <2>2. CASE k = i - n /\ l = j - n
      <3>1. i - n = j - n
        BY <2>1, <2>2
      <3>2. \A a1, a2, a3 \in Int : a1 - a3 = a2 - a3 => a1 = a2
        OBVIOUS
      <3> QED
        BY <1>9, <3>1, <3>2, Zenon
    <2> QED
      BY <1>11, <2>1, <2>2
  <1> QED
    BY <1>10, <1>12

LEMMA ApartAdded ==
    ASSUME NEW old \in [Spots -> Seq(Nat)], NEW new \in [Spots -> Seq(Nat)], Apart(old),
           NEW x \in Spots, NEW e \in Nat,
           \A z \in Spots : e \notin Elems(old[z]),
           \A z \in Spots : new[z] = IF z = x THEN Append(old[x], e) ELSE old[z]
    PROVE  Apart(new)
  <1> DEFINE n == Len(old[x])
  <1>1. /\ n \in Nat /\ Len(new[x]) = n + 1 /\ new[x][n + 1] = e
        /\ \A i \in 1..n : new[x][i] = old[x][i]
    <2>1. old[x] \in Seq(Nat) /\ new[x] = Append(old[x], e)
      OBVIOUS
    <2>2. /\ Len(Append(old[x], e)) = n + 1 /\ Append(old[x], e)[n + 1] = e
          /\ \A i \in 1..n : Append(old[x], e)[i] = old[x][i]
      BY <2>1, AppendProperties
    <2>3. n \in Nat
      BY <2>1, LenProperties
    <2> QED
      BY <2>1, <2>2, <2>3
  <1>2. ASSUME NEW y \in Spots, NEW i \in 1..Len(new[y])
        PROVE  \/ i \in 1..Len(old[y]) /\ new[y][i] = old[y][i] /\ new[y][i] # e
               \/ y = x /\ i = n + 1 /\ new[y][i] = e
    <2>1. CASE i \in 1..Len(old[y])
      <3>1. new[y][i] = old[y][i]
        BY <1>1, <2>1
      <3> QED
        BY <2>1, <3>1 DEF Elems
    <2>2. CASE i \notin 1..Len(old[y])
      <3>1. y = x
        BY <2>2
      <3> QED
        BY <1>1, <2>2, <3>1
    <2> QED
      BY <2>1, <2>2
  <1> SUFFICES ASSUME NEW y \in Spots, NEW z \in Spots,
                      NEW i \in 1..Len(new[y]), NEW j \in 1..Len(new[z]), new[y][i] = new[z][j]
               PROVE  y = z /\ i = j
    BY DEF Apart
  <1>3. \/ i \in 1..Len(old[y]) /\ j \in 1..Len(old[z]) /\ old[y][i] = old[z][j]
        \/ y = x /\ i = n + 1 /\ z = x /\ j = n + 1
    BY <1>2
  <1>4. \A u, v \in Spots : \A p \in 1..Len(old[u]), q \in 1..Len(old[v]) :
            old[u][p] = old[v][q] => u = v /\ p = q
    BY ApartAt
  <1>5. CASE i \in 1..Len(old[y]) /\ j \in 1..Len(old[z]) /\ old[y][i] = old[z][j]
    BY <1>4, <1>5, SMTT(20)
  <1>6. CASE y = x /\ i = n + 1 /\ z = x /\ j = n + 1
    BY <1>6
  <1> QED
    BY <1>3, <1>5, <1>6

Queue(p) == <<p, "queue">>

(* A spot is a queue or a coroutine. *)
LEMMA SpotsAre ==
    /\ \A p \in Procs : /\ Queue(p) \in Spots /\ Queue(p) \notin Coros
                        /\ Main(p) \in Coros /\ Loop(p) \in Coros /\ Main(p) # Loop(p)
                        /\ Proc(Main(p)) = p /\ Proc(Loop(p)) = p
    /\ \A c \in Coros : c \in Spots /\ Proc(c) \in Procs /\ (c = Main(Proc(c)) \/ c = Loop(Proc(c)))
    /\ \A x \in Spots : x \in Coros \/ \E p \in Procs : x = Queue(p)
    /\ \A p, q \in Procs : (Queue(p) = Queue(q) => p = q) /\ Main(p) # Loop(q)
  BY DEF Spots, Coros, Queue, Main, Loop, Proc

LEMMA LineIs ==
    queue \in [Procs -> Seq(Nat)] /\ co \in [Coros -> Frames] =>
        /\ Line \in [Spots -> Seq(Nat)]
        /\ \A p \in Procs : Line[Queue(p)] = queue[p]
        /\ \A c \in Coros : Line[c] = co[c].batch
  <1> SUFFICES ASSUME queue \in [Procs -> Seq(Nat)], co \in [Coros -> Frames]
               PROVE  /\ Line \in [Spots -> Seq(Nat)]
                      /\ \A p \in Procs : Line[Queue(p)] = queue[p]
                      /\ \A c \in Coros : Line[c] = co[c].batch
    OBVIOUS
  <1>1. \A p \in Procs : Line[Queue(p)] = queue[p]
    BY DEF Line, Spots, Queue
  <1>2. \A c \in Coros : Line[c] = co[c].batch
    BY DEF Line, Spots, Coros
  <1>3. Line = [x \in Spots |-> Line[x]]
    BY DEF Line
  <1>4. \A x \in Spots : Line[x] \in Seq(Nat)
    <2> SUFFICES ASSUME NEW x \in Spots
                 PROVE  Line[x] \in Seq(Nat)
      OBVIOUS
    <2>1. CASE x \in Coros
      BY <1>2, <2>1 DEF Frames
    <2>2. CASE \E p \in Procs : x = Queue(p)
      BY <1>1, <2>2
    <2> QED
      BY <2>1, <2>2, SpotsAre
  <1> QED
    BY <1>1, <1>2, <1>3, <1>4

LEMMA LineIsNext ==
    queue' \in [Procs -> Seq(Nat)] /\ co' \in [Coros -> Frames] =>
        /\ Line' \in [Spots -> Seq(Nat)]
        /\ \A p \in Procs : Line'[Queue(p)] = queue'[p]
        /\ \A c \in Coros : Line'[c] = co'[c].batch
  <1>1. (queue \in [Procs -> Seq(Nat)] /\ co \in [Coros -> Frames] =>
            /\ Line \in [Spots -> Seq(Nat)]
            /\ \A p \in Procs : Line[Queue(p)] = queue[p]
            /\ \A c \in Coros : Line[c] = co[c].batch)'
    BY LineIs, PTL
  <1> QED
    BY <1>1

-----------------------------------------------------------------------------
(* The logger. *)

LEMMA ElemsOf ==
    /\ Elems(<<>>) = {}
    /\ \A s \in Seq(Nat), e \in Nat : Elems(Append(s, e)) = Elems(s) \cup {e}
    /\ \A s, t \in Seq(Nat) : Elems(s \o t) = Elems(s) \cup Elems(t)
  <1>1. Elems(<<>>) = {}
    BY EmptySeq DEF Elems
  <1>2. ASSUME NEW s \in Seq(Nat), NEW e \in Nat
        PROVE  Elems(Append(s, e)) = Elems(s) \cup {e}
    <2>1. /\ Len(s) \in Nat /\ Len(Append(s, e)) = Len(s) + 1
          /\ \A i \in 1..Len(s) : Append(s, e)[i] = s[i]
          /\ Append(s, e)[Len(s) + 1] = e
      BY AppendProperties, LenProperties
    <2>2. \A i \in 1..Len(Append(s, e)) : i \in 1..Len(s) \/ i = Len(s) + 1
      BY <2>1
    <2>3. \A i \in 1..Len(s) : i \in 1..Len(Append(s, e))
      BY <2>1
    <2>4. Len(s) + 1 \in 1..Len(Append(s, e))
      BY <2>1
    <2>5. Elems(Append(s, e)) \subseteq Elems(s) \cup {e}
      BY <2>1, <2>2 DEF Elems
    <2>6. Elems(s) \cup {e} \subseteq Elems(Append(s, e))
      BY <2>1, <2>3, <2>4 DEF Elems
    <2> QED
      BY <2>5, <2>6
  <1>3. ASSUME NEW s \in Seq(Nat), NEW t \in Seq(Nat)
        PROVE  Elems(s \o t) = Elems(s) \cup Elems(t)
    <2>1. /\ Len(s) \in Nat /\ Len(t) \in Nat /\ Len(s \o t) = Len(s) + Len(t)
          /\ \A i \in 1..(Len(s) + Len(t)) : (s \o t)[i] = IF i <= Len(s) THEN s[i] ELSE t[i - Len(s)]
      BY ConcatProperties, LenProperties
    <2>2. ASSUME NEW i \in 1..Len(s \o t)
          PROVE  (s \o t)[i] \in Elems(s) \cup Elems(t)
      <3>1. CASE i <= Len(s)
        BY <2>1, <3>1 DEF Elems
      <3>2. CASE ~(i <= Len(s))
        <4>1. i - Len(s) \in 1..Len(t)
          BY <2>1, <3>2
        <4> QED
          BY <2>1, <3>2, <4>1 DEF Elems
      <3> QED
        BY <3>1, <3>2
    <2>3. ASSUME NEW i \in 1..Len(s)
          PROVE  s[i] \in Elems(s \o t)
      <3>1. i \in 1..Len(s \o t) /\ (s \o t)[i] = s[i]
        BY <2>1
      <3> QED
        BY <3>1 DEF Elems
    <2>4. ASSUME NEW i \in 1..Len(t)
          PROVE  t[i] \in Elems(s \o t)
      <3>1. /\ Len(s) + i \in 1..Len(s \o t) /\ ~(Len(s) + i <= Len(s))
            /\ Len(s) + i - Len(s) = i
        BY <2>1
      <3>2. (s \o t)[Len(s) + i] = t[i]
        BY <2>1, <3>1
      <3> QED
        BY <3>1, <3>2 DEF Elems
    <2>5. Elems(s \o t) \subseteq Elems(s) \cup Elems(t)
      BY <2>2 DEF Elems
    <2>6. Elems(s) \subseteq Elems(s \o t) /\ Elems(t) \subseteq Elems(s \o t)
      <3>1. Elems(s) = {s[i] : i \in 1..Len(s)} /\ Elems(t) = {t[i] : i \in 1..Len(t)}
        BY DEF Elems
      <3> QED
        BY <2>3, <2>4, <3>1
    <2> QED
      BY <2>5, <2>6
  <1> QED
    BY <1>1, <1>2, <1>3

Starting(mode, batch) == [Idle EXCEPT !.pc = "lock", !.mode = mode, !.batch = batch]

LEMMA IdleIs ==
    /\ Idle \in Frames /\ Shape(Idle) /\ TailSound(Idle) /\ BatchSound(Idle)
    /\ Idle.pc = "idle" /\ Idle.batch = <<>> /\ Idle.list = {} /\ Idle.mode = "none"
  <1>1. /\ Idle.pc = "idle" /\ Idle.batch = <<>> /\ Idle.list = {} /\ Idle.mode = "none"
    BY DEF Idle
  <1>2. <<>> \in Seq(Nat) /\ Len(<<>>) = 0 /\ Elems(<<>>) = {}
    BY EmptySeq, ElemsOf
  <1>3. Idle \in Frames
    BY <1>2 DEF Idle, Frames, Steps, Genesis
  <1>4. Shape(Idle) /\ TailSound(Idle)
    BY <1>1 DEF Shape, TailSound
  <1>5. BatchSound(Idle)
    BY <1>1, <1>2 DEF BatchSound
  <1> QED
    BY <1>1, <1>3, <1>4, <1>5

LEMMA StartingIs ==
    ASSUME NEW mode \in {"flush", "sync"}, NEW batch \in Seq(Nat), batch # <<>>
    PROVE  /\ Starting(mode, batch) \in Frames /\ Shape(Starting(mode, batch))
           /\ Starting(mode, batch).pc = "lock" /\ Starting(mode, batch).mode = mode
           /\ Starting(mode, batch).batch = batch /\ Starting(mode, batch).next = 1
           /\ Starting(mode, batch).list = {}
  <1>1. Len(batch) \in Nat \ {0}
    BY EmptySeq
  <1>2. <<>> \in Seq(Nat)
    BY EmptySeq
  <1>3. Idle \in Frames /\ Idle.next = 1 /\ Idle.list = {}
    BY IdleIs DEF Idle
  <1> DEFINE f == [Idle EXCEPT !.pc = "lock", !.mode = mode, !.batch = batch]
  <1>4. /\ f.pc = "lock" /\ f.mode = mode /\ f.batch = batch /\ f.next = 1 /\ f.list = {}
    BY <1>3 DEF Frames
  <1>5. f \in Frames
    BY <1>3 DEF Frames, Steps
  <1>6. Shape(f)
    <2>. HIDE DEF f
    <2> QED
      BY <1>1, <1>4 DEF Shape
  <1>7. f = Starting(mode, batch)
    BY DEF Starting
  <1> QED
    <2>. HIDE DEF f
    <2> QED
      BY <1>4, <1>5, <1>6, <1>7

(* The steps of the logger leave the chain and the client alone. *)
LoggerFrame ==
    /\ backend' = backend /\ chain' = chain /\ reader' = reader /\ pruned' = pruned /\ raced' = raced
    /\ cutoff' = cutoff
    /\ \A c \in Coros : co'[c] = co[c] \/ (co'[c].pc \in {"idle", "lock"} /\ co'[c].list = {})

LEMMA LoggerKeeps ==
    ASSUME IInv, LoggerFrame
    PROVE  Tails' /\ Chained' /\ Pages'
  <1>1. Stored' = Stored
    BY DEF Stored, LoggerFrame
  <1>2. Chained'
    BY ChainedSame DEF IInv, LoggerFrame
  <1>3. Tails'
    <2> SUFFICES ASSUME NEW c \in Coros
                 PROVE  TailSound(co[c])'
      BY DEF Tails
    <2>1. TailSound(co[c])
      BY DEF IInv, Tails
    <2>2. CASE co'[c] = co[c]
      BY <1>1, <2>1, <2>2 DEF TailSound, LoggerFrame
    <2>3. CASE co'[c].pc \in {"idle", "lock"}
      BY <2>3 DEF TailSound
    <2> QED
      BY <2>2, <2>3 DEF LoggerFrame
  <1>4. Pages'
    <2>1. (\A c \in Coros : \A e \in co[c].list : e < cutoff /\ e \in pruned)'
      BY DEF IInv, Pages, LoggerFrame
    <2>2. \A e : NewestFirst(e)' = NewestFirst(e)
      BY <1>1 DEF NewestFirst
    <2> QED
      BY <1>1, <2>1, <2>2 DEF IInv, Pages, LoggerFrame
  <1> QED
    BY <1>2, <1>3, <1>4

(* What the steps of the logger have in common: the new events N come in, the    *)
(* queues and batches are rearranged, and what leaves them is stored or cut off.  *)
LoggerMoves(N) ==
    /\ LoggerFrame /\ torn' = torn
    /\ logged' \in Nat /\ logged <= logged' /\ N \subseteq 1..logged' /\ N \cap 1..logged = {}
    /\ faults' \in Nat
    /\ queue' \in [Procs -> Seq(Nat)] /\ co' \in [Coros -> Frames]
    /\ up' \subseteq Procs /\ alive' \subseteq up'
    /\ promised \subseteq promised' /\ promised' \subseteq promised \cup N
    /\ cut' \subseteq 1..logged' /\ cut \subseteq cut'
    /\ backend = "memory" => cut' \cap Stored = {}
    /\ \A x \in Spots : Elems(Line'[x]) \cap cut' = {}
    /\ \A x \in Spots : Elems(Line'[x]) \subseteq 1..logged'
    /\ \A x \in Spots : \A e \in Elems(Line[x]) :
          e \in Stored \cup cut' \/ \E y \in Spots : e \in Elems(Line'[y])
    /\ \A e \in N \cap promised' : \E y \in Spots : e \in Elems(Line'[y])
    /\ \A p \in Procs : Elems(queue'[p]) \subseteq Elems(queue[p]) \cup N
    /\ \A c \in Coros :
          \/ co'[c] = co[c]
          \/ co'[c] = Idle
          \/ /\ co'[c].pc = "lock" /\ co'[c].next = 1 /\ Shape(co'[c])
             /\ \A e \in Elems(co'[c].batch) : e \in N \/ \E p \in Procs : e \in Elems(queue[p])
             /\ co'[c].mode = "sync" => Elems(co'[c].batch) \cap promised' = {}
    /\ Apart(Line')

LEMMA LoggerAccounted ==
    ASSUME IInv, NEW N, LoggerMoves(N), lock' \in [Procs -> Coros \cup {Free}]
    PROVE  Typed' /\ OnePlace' /\ Accounted'
  <1>1. /\ backend' = backend /\ chain' = chain /\ Stored' = Stored /\ pruned' = pruned
        /\ reader' = reader /\ cutoff' = cutoff /\ torn' = torn
    BY DEF LoggerMoves, LoggerFrame, Stored
  <1>2. /\ logged \in Nat /\ logged' \in Nat /\ logged <= logged'
        /\ Stored \cup promised \cup pruned \cup cut \subseteq 1..logged
        /\ N \subseteq 1..logged' /\ N \cap 1..logged = {}
    BY DEF LoggerMoves, IInv, Typed
  <1>3. 1..logged \subseteq 1..logged'
    BY <1>2
  <1>4. OnePlace'
    BY DEF OnePlace, LoggerMoves
  <1>5. ASSUME NEW c \in Coros
        PROVE  Shape(co[c])'
    <2>1. CASE co'[c] = co[c]
      <3>1. Shape(co[c])
        BY DEF IInv, Typed
      <3> QED
        BY <1>1, <2>1, <3>1 DEF Shape
    <2>2. CASE co'[c] = Idle
      <3>1. Shape(Idle)
        BY IdleIs
      <3> QED
        BY <1>1, <2>2, <3>1 DEF Shape, Idle, Genesis
    <2>3. CASE co'[c].pc = "lock" /\ Shape(co'[c])
      BY <1>1, <2>3 DEF Shape
    <2> QED
      BY <2>1, <2>2, <2>3 DEF LoggerMoves
  <1>6. Typed'
    <2>1. (Stored \cup promised \cup pruned \cup cut \subseteq 1..logged)'
      <3>1. promised' \subseteq promised \cup N /\ cut' \subseteq 1..logged'
        BY DEF LoggerMoves
      <3> QED
        BY <1>1, <1>2, <1>3, <3>1
    <2>2. (\A x \in Spots : Elems(Line[x]) \subseteq 1..logged)'
      BY DEF LoggerMoves
    <2>3. /\ backend \in Backends /\ cutoff \in Nat /\ chain \in Seq(Rows) /\ reader \in Readers
      BY DEF IInv, Typed
    <2>4. /\ queue' \in [Procs -> Seq(Nat)] /\ co' \in [Coros -> Frames] /\ faults' \in Nat
          /\ up' \subseteq Procs /\ alive' \subseteq up'
      BY DEF LoggerMoves
    <2> QED
      BY <1>1, <1>2, <1>5, <2>1, <2>2, <2>3, <2>4 DEF Typed
  <1>7. Accounted'
    <2>1. ASSUME NEW e \in promised', e \notin Stored \cup pruned \cup cut'
          PROVE  \E x \in Spots : e \in Elems(Line'[x])
      <3>1. CASE e \in promised
        <4>1. e \notin cut
          BY <2>1 DEF LoggerMoves
        <4>2. PICK x \in Spots : e \in Elems(Line[x])
          BY <2>1, <3>1, <4>1 DEF IInv, Accounted
        <4> QED
          BY <2>1, <4>2 DEF LoggerMoves
      <3>2. CASE e \notin promised
        <4>1. e \in N \cap promised'
          BY <2>1, <3>2 DEF LoggerMoves
        <4> QED
          BY <4>1 DEF LoggerMoves
      <3> QED
        BY <3>1, <3>2
    <2>2. ASSUME NEW c \in Coros
          PROVE  BatchSound(co[c])'
      <3>1. BatchSound(co[c])
        BY DEF IInv, Accounted
      <3>2. CASE co'[c] = co[c]
        <4>1. Elems(co[c].batch) \subseteq 1..logged
          <5>1. Line[c] = co[c].batch /\ c \in Spots
            BY LineIs, SpotsAre DEF IInv, Typed
          <5> QED
            BY <5>1 DEF IInv, Typed
        <4>2. Elems(co[c].batch) \cap N = {}
          BY <1>2, <4>1
        <4>3. co[c].mode = "sync" => Elems(co[c].batch) \cap promised' = {}
          <5>1. promised' \subseteq promised \cup N
            BY DEF LoggerMoves
          <5> QED
            BY <3>1, <4>2, <5>1 DEF BatchSound
        <4> QED
          BY <1>1, <3>1, <3>2, <4>3 DEF BatchSound
      <3>3. CASE co'[c] = Idle
        <4>1. Idle.batch = <<>> /\ Len(<<>>) = 0 /\ Elems(<<>>) = {}
          BY IdleIs, EmptySeq, ElemsOf
        <4> QED
          BY <3>3, <4>1 DEF BatchSound
      <3>4. CASE /\ co'[c].pc = "lock" /\ co'[c].next = 1
                 /\ \A e \in Elems(co'[c].batch) : e \in N \/ \E p \in Procs : e \in Elems(queue[p])
                 /\ co'[c].mode = "sync" => Elems(co'[c].batch) \cap promised' = {}
        <4>1. ASSUME backend = "memory", NEW e \in Elems(co'[c].batch), e \in Stored
              PROVE  FALSE
          <5>1. e \notin N
            BY <1>2, <4>1
          <5>2. PICK p \in Procs : e \in Elems(queue[p])
            BY <3>4, <4>1, <5>1
          <5> QED
            BY <4>1, <5>2 DEF IInv, Accounted
        <4>2. \A i \in 1..Len(co'[c].batch) : ~(i < co'[c].next)
          BY <3>4
        <4> QED
          BY <1>1, <3>4, <4>1, <4>2 DEF BatchSound
      <3> QED
        BY <3>2, <3>3, <3>4 DEF LoggerMoves
    <2>3. ASSUME NEW p \in Procs
          PROVE  Elems(queue'[p]) \cap Stored \subseteq torn
      <3>1. Elems(queue'[p]) \subseteq Elems(queue[p]) \cup N
        BY DEF LoggerMoves
      <3> QED
        BY <1>2, <3>1 DEF IInv, Accounted
    <2>4. \A x \in Spots : Elems(Line'[x]) \cap cut' = {}
      BY DEF LoggerMoves
    <2>5. backend = "memory" => torn = {} /\ cut' \cap Stored = {}
      BY DEF LoggerMoves, IInv, Accounted
    <2> QED
      BY <1>1, <2>1, <2>2, <2>3, <2>4, <2>5 DEF Accounted
  <1> QED
    BY <1>4, <1>6, <1>7

LEMMA Basics ==
    ASSUME IInv
    PROVE  /\ queue \in [Procs -> Seq(Nat)] /\ co \in [Coros -> Frames] /\ chain \in Seq(Rows)
           /\ Line \in [Spots -> Seq(Nat)]
           /\ \A p \in Procs : Line[Queue(p)] = queue[p]
           /\ \A c \in Coros : Line[c] = co[c].batch
           /\ logged \in Nat /\ logged + 1 \in Nat /\ Apart(Line)
           /\ \A x \in Spots : Elems(Line[x]) \subseteq 1..logged
           /\ \A x \in Spots : logged + 1 \notin Elems(Line[x])
           /\ logged + 1 \notin Stored \cup promised \cup cut
           /\ \A c \in Coros : Shape(co[c]) /\ (co[c].pc = "idle" => co[c] = Idle)
           /\ alive \subseteq up /\ up \subseteq Procs
  <1>1. /\ queue \in [Procs -> Seq(Nat)] /\ co \in [Coros -> Frames] /\ logged \in Nat
        /\ chain \in Seq(Rows)
        /\ \A x \in Spots : Elems(Line[x]) \subseteq 1..logged
        /\ Stored \cup promised \cup pruned \cup cut \subseteq 1..logged
        /\ Apart(Line)
        /\ alive \subseteq up /\ up \subseteq Procs
    BY DEF IInv, Typed, OnePlace
  <1>2. logged + 1 \notin 1..logged
    BY <1>1
  <1>3. \A c \in Coros : Shape(co[c]) /\ (co[c].pc = "idle" => co[c] = Idle)
    BY DEF IInv, Typed, Shape
  <1> QED
    BY <1>1, <1>2, <1>3, LineIs

LEMMA SpotLines ==
    ASSUME IInv
    PROVE  (\A p \in Procs : Line[Queue(p)] = queue[p]) /\ \A c \in Coros : Line[c] = co[c].batch
  BY Basics

LEMMA Covers ==
    ASSUME IInv, NEW N, N \subseteq 1..logged', N \cap 1..logged = {},
           logged' \in Nat, logged <= logged', cut' = cut,
           \A x \in Spots : \A e \in Elems(Line'[x]) : e \in N \/ \E y \in Spots : e \in Elems(Line[y])
    PROVE  /\ \A x \in Spots : Elems(Line'[x]) \cap cut' = {}
           /\ \A x \in Spots : Elems(Line'[x]) \subseteq 1..logged'
           /\ backend = "memory" => cut' \cap Stored = {}
           /\ cut' \subseteq 1..logged' /\ cut \subseteq cut'
  <1>1. /\ logged \in Nat /\ cut \subseteq 1..logged
        /\ \A x \in Spots : Elems(Line[x]) \subseteq 1..logged
    BY DEF IInv, Typed
  <1>2. 1..logged \subseteq 1..logged'
    BY <1>1
  <1>3. ASSUME NEW x \in Spots, NEW e \in Elems(Line'[x])
        PROVE  e \notin cut /\ e \in 1..logged'
    <2>1. CASE e \in N
      BY <1>1, <2>1
    <2>2. ASSUME NEW y \in Spots, e \in Elems(Line[y])
          PROVE  e \notin cut /\ e \in 1..logged'
      <3>1. Elems(Line[y]) \cap cut = {}
        BY DEF IInv, Accounted
      <3> QED
        BY <1>1, <1>2, <2>2, <3>1
    <2> QED
      BY <2>1, <2>2
  <1>4. backend = "memory" => cut \cap Stored = {}
    BY DEF IInv, Accounted
  <1> QED
    BY <1>1, <1>2, <1>3, <1>4

LEMMA LockedKeeps ==
    ASSUME IInv, lock' = lock,
           \A d \in Coros : \/ co'[d] = co[d]
                            \/ co[d].pc \notin {"tail", "insert"} /\ co'[d].pc \notin {"tail", "insert"}
    PROVE  Locked' /\ lock' \in [Procs -> Coros \cup {Free}]
  BY DEF IInv, Typed, Locked

LEMMA FlushIs ==
    ASSUME IInv, NEW c \in Coros, NEW pending \in Seq(Nat), pending # <<>>, NEW mode \in {"flush", "sync"},
           Flush(c, pending, mode)
    PROVE  /\ co' \in [Coros -> Frames] /\ co'[c] = Starting(mode, pending)
           /\ \A d \in Coros : d # c => co'[d] = co[d]
  <1>1. co' = [co EXCEPT ![c] = Starting(mode, pending)]
    BY DEF Flush, Starting
  <1>2. Starting(mode, pending) \in Frames
    BY StartingIs
  <1> QED
    BY <1>1, <1>2, Basics

LEMMA LogQueuedStep ==
    ASSUME IInv, NEW c \in Coros, LogQueued(c)
    PROVE  LoggerMoves({logged + 1}) /\ Locked' /\ lock' \in [Procs -> Coros \cup {Free}]
  <1> DEFINE e == logged + 1
  <1>1. PICK p \in Procs : p = Proc(c) /\ c = Main(p)
    BY SpotsAre DEF LogQueued
  <1>2. PICK mine \in Seq(Nat) : mine = Append(queue[p], e)
    BY Basics, AppendProperties
  <1>3. /\ co[c] = Idle /\ co[c].pc = "idle" /\ Line[c] = <<>>
    BY Basics, IdleIs DEF LogQueued, Turn, At
  <1>4. /\ logged' = e /\ promised' = promised \cup {e}
        /\ backend' = backend /\ chain' = chain /\ alive' = alive /\ up' = up /\ lock' = lock
        /\ reader' = reader /\ pruned' = pruned /\ cut' = cut /\ raced' = raced /\ torn' = torn
        /\ faults' = faults /\ cutoff' = cutoff
    BY DEF LogQueued, bounds
  <1>5. \/ queue' = [queue EXCEPT ![p] = <<>>] /\ Flush(c, mine, "flush")
        \/ queue' = [queue EXCEPT ![p] = mine] /\ co' = co
    BY <1>1, <1>2 DEF LogQueued
  <1>6. /\ mine # <<>> /\ Elems(mine) = Elems(queue[p]) \cup {e}
    BY <1>2, Basics, ElemsOf, AppendProperties
  <1>7. queue' \in [Procs -> Seq(Nat)] /\ \A q \in Procs : q # p => queue'[q] = queue[q]
    <2>1. queue \in [Procs -> Seq(Nat)] /\ <<>> \in Seq(Nat)
      BY Basics, EmptySeq
    <2> QED
      BY <1>5, <2>1
  <1>8. /\ co' \in [Coros -> Frames] /\ (\A d \in Coros : d # c => co'[d] = co[d])
        /\ \/ queue'[p] = <<>> /\ co'[c] = Starting("flush", mine)
           \/ queue'[p] = mine /\ co'[c] = co[c]
    BY <1>5, <1>6, Basics, FlushIs
  <1>9. /\ Line' \in [Spots -> Seq(Nat)]
        /\ \A q \in Procs : Line'[Queue(q)] = queue'[q]
        /\ \A d \in Coros : Line'[d] = co'[d].batch
    BY <1>7, <1>8, LineIsNext
  <1>10. /\ Starting("flush", mine).batch = mine /\ Starting("flush", mine).pc = "lock"
         /\ Starting("flush", mine).next = 1 /\ Starting("flush", mine).mode = "flush"
         /\ Starting("flush", mine).list = {} /\ Shape(Starting("flush", mine))
    BY <1>6, StartingIs
  <1>11. \A z \in Spots : z # Queue(p) /\ z # c => Line'[z] = Line[z]
    <2> SUFFICES ASSUME NEW z \in Spots, z # Queue(p), z # c
                 PROVE  Line'[z] = Line[z]
      OBVIOUS
    <2>1. CASE z \in Coros
      BY <1>8, <1>9, <2>1, Basics
    <2>2. ASSUME NEW q \in Procs, z = Queue(q)
          PROVE  Line'[z] = Line[z]
      BY <1>7, <1>9, <2>2, Basics
    <2> QED
      BY <2>1, <2>2, SpotsAre
  <1>12. \/ Line'[Queue(p)] = mine /\ Line'[c] = Line[c]
         \/ Line'[Queue(p)] = <<>> /\ Line'[c] = mine
    BY <1>8, <1>9, <1>10, SpotLines, SpotsAre
  <1>13. Line[Queue(p)] = queue[p] /\ Queue(p) \in Spots /\ c \in Spots /\ c # Queue(p)
    BY Basics, SpotsAre
  <1>14. Apart(Line')
    <2> DEFINE mid == [Line EXCEPT ![Queue(p)] = mine]
    <2>1. mid \in [Spots -> Seq(Nat)] /\ \A z \in Spots : mid[z] = IF z = Queue(p) THEN mine ELSE Line[z]
      BY Basics
    <2> HIDE DEF mid
    <2>2. \A z \in Spots : e \notin Elems(Line[z])
      BY Basics
    <2>3. e \in Nat /\ Apart(Line) /\ Line \in [Spots -> Seq(Nat)]
      BY Basics
    <2>4. Apart(mid)
      <3>1. \A z \in Spots : mid[z] = IF z = Queue(p) THEN Append(Line[Queue(p)], e) ELSE Line[z]
        BY <1>2, <1>13, <2>1
      <3> HIDE DEF e
      <3> QED
        BY <1>13, <2>1, <2>2, <2>3, <3>1, ApartAdded
    <2>5. CASE Line'[Queue(p)] = mine /\ Line'[c] = Line[c]
      <3>1. \A z \in Spots : Line'[z] = mid[z]
        BY <1>11, <1>13, <2>1, <2>5
      <3>2. Line' = mid
        BY <1>9, <2>1, <3>1
      <3> QED
        BY <2>4, <3>2
    <2>6. CASE Line'[Queue(p)] = <<>> /\ Line'[c] = mine
      <3>1. \A z \in Spots : Line'[z] = IF z = Queue(p) THEN <<>> ELSE IF z = c THEN mid[Queue(p)] ELSE mid[z]
        BY <1>11, <1>13, <2>1, <2>6
      <3> QED
        BY <1>9, <1>13, <2>1, <2>4, <3>1, ApartMoved
    <2> QED
      BY <1>12, <2>5, <2>6
  <1>15. ASSUME NEW x \in Spots, NEW f \in Elems(Line'[x])
         PROVE  f \in {e} \/ \E y \in Spots : f \in Elems(Line[y])
    <2>1. Elems(<<>>) = {}
      BY ElemsOf
    <2>2. Line'[x] = Line[x] \/ Line'[x] = mine \/ Line'[x] = <<>>
      BY <1>11, <1>12
    <2> QED
      BY <1>6, <1>13, <2>1, <2>2
  <1>16. ASSUME NEW x \in Spots, NEW f \in Elems(Line[x])
         PROVE  \E y \in Spots : f \in Elems(Line'[y])
    <2>1. Elems(<<>>) = {}
      BY ElemsOf
    <2> QED
      BY <1>3, <1>6, <1>11, <1>12, <1>13, <2>1
  <1>17. e \in Nat /\ {e} \subseteq 1..logged' /\ {e} \cap 1..logged = {} /\ logged <= logged' /\ logged' \in Nat
    BY <1>4, Basics
  <1>18. /\ \A x \in Spots : Elems(Line'[x]) \cap cut' = {}
         /\ \A x \in Spots : Elems(Line'[x]) \subseteq 1..logged'
         /\ backend = "memory" => cut' \cap Stored = {}
         /\ cut' \subseteq 1..logged' /\ cut \subseteq cut'
    <2>. HIDE DEF e
    <2> QED
      BY <1>4, <1>15, <1>17, Covers
  <1>19. Locked' /\ lock' \in [Procs -> Coros \cup {Free}]
    <2>1. \A d \in Coros : \/ co'[d] = co[d]
                           \/ co[d].pc \notin {"tail", "insert"} /\ co'[d].pc \notin {"tail", "insert"}
      BY <1>3, <1>8, <1>10
    <2> QED
      BY <1>4, <2>1, LockedKeeps
  <1>20. LoggerFrame
    BY <1>4, <1>8, <1>10 DEF LoggerFrame
  <1>21. ASSUME NEW q \in Procs
         PROVE  Elems(queue'[q]) \subseteq Elems(queue[q]) \cup {e}
    <2>1. Elems(<<>>) = {}
      BY ElemsOf
    <2> QED
      BY <1>6, <1>7, <1>8, <2>1
  <1>22. ASSUME NEW d \in Coros
         PROVE  \/ co'[d] = co[d]
                \/ /\ co'[d].pc = "lock" /\ co'[d].next = 1 /\ Shape(co'[d])
                   /\ \A f \in Elems(co'[d].batch) : f \in {e} \/ \E q \in Procs : f \in Elems(queue[q])
                   /\ co'[d].mode = "sync" => Elems(co'[d].batch) \cap promised' = {}
    BY <1>6, <1>8, <1>10
  <1>23. ASSUME NEW f \in {e} \cap promised'
         PROVE  \E y \in Spots : f \in Elems(Line'[y])
    BY <1>6, <1>12, <1>13
  <1>24. faults' \in Nat /\ up' \subseteq Procs /\ alive' \subseteq up'
    BY <1>4 DEF IInv, Typed
  <1> QED
    <2>1. LoggerMoves({e})
      <3>. HIDE DEF e
      <3> QED
        BY <1>4, <1>7, <1>8, <1>14, <1>16, <1>17, <1>18, <1>20, <1>21, <1>22, <1>23, <1>24 DEF LoggerMoves
    <2> QED
      BY <1>19, <2>1

LEMMA LogSyncStep ==
    ASSUME IInv, NEW c \in Coros, LogSync(c)
    PROVE  LoggerMoves({logged + 1}) /\ Locked' /\ lock' \in [Procs -> Coros \cup {Free}]
  <1> DEFINE e == logged + 1
  <1>1. e \in Nat /\ queue \in [Procs -> Seq(Nat)] /\ co \in [Coros -> Frames]
    BY Basics
  <1>2. /\ <<e>> \in Seq(Nat) /\ <<e>> # <<>> /\ <<e>> = Append(<<>>, e) /\ Elems(<<e>>) = {e}
    <2>1. <<e>> = Append(<<>>, e) /\ <<>> \in Seq(Nat)
      BY EmptySeq
    <2>2. Elems(Append(<<>>, e)) = {e}
      <3> HIDE DEF e
      <3>1. Elems(Append(<<>>, e)) = Elems(<<>>) \cup {e} /\ Elems(<<>>) = {}
        BY <1>1, <2>1, ElemsOf
      <3> QED
        BY <3>1
    <2>3. Append(<<>>, e) \in Seq(Nat) /\ Append(<<>>, e) # <<>>
      BY <1>1, <2>1, AppendProperties
    <2> QED
      BY <2>1, <2>2, <2>3
  <1>3. /\ co[c] = Idle /\ co[c].pc = "idle" /\ Line[c] = <<>>
    BY Basics, IdleIs DEF LogSync, Turn, At
  <1>4. /\ logged' = e /\ promised' = promised /\ queue' = queue
        /\ backend' = backend /\ chain' = chain /\ alive' = alive /\ up' = up /\ lock' = lock
        /\ reader' = reader /\ pruned' = pruned /\ cut' = cut /\ raced' = raced /\ torn' = torn
        /\ faults' = faults /\ cutoff' = cutoff /\ Flush(c, <<e>>, "sync")
    BY DEF LogSync, bounds, logger
  <1> DEFINE f == Starting("sync", <<e>>)
  <1>5. /\ co' \in [Coros -> Frames] /\ co'[c] = f /\ (\A d \in Coros : d # c => co'[d] = co[d])
    <2>. HIDE DEF e
    <2> QED
      BY <1>2, <1>4, FlushIs
  <1>6. /\ f.batch = <<e>> /\ f.pc = "lock" /\ f.next = 1 /\ f.mode = "sync"
        /\ f.list = {} /\ Shape(f)
    <2>. HIDE DEF e
    <2> QED
      BY <1>2, StartingIs
  <1> HIDE DEF f
  <1>7. /\ Line' \in [Spots -> Seq(Nat)]
        /\ \A q \in Procs : Line'[Queue(q)] = queue'[q]
        /\ \A d \in Coros : Line'[d] = co'[d].batch
    BY <1>1, <1>4, <1>5, LineIsNext
  <1>8. c \in Spots /\ Line'[c] = <<e>>
    BY <1>5, <1>6, <1>7, SpotsAre
  <1>9. \A z \in Spots : z # c => Line'[z] = Line[z]
    <2> SUFFICES ASSUME NEW z \in Spots, z # c
                 PROVE  Line'[z] = Line[z]
      OBVIOUS
    <2>1. CASE z \in Coros
      BY <1>5, <1>7, <2>1, SpotLines
    <2>2. ASSUME NEW q \in Procs, z = Queue(q)
          PROVE  Line'[z] = Line[z]
      BY <1>4, <1>7, <2>2, Basics
    <2> QED
      BY <2>1, <2>2, SpotsAre
  <1>10. Apart(Line')
    <2>1. \A z \in Spots : e \notin Elems(Line[z])
      BY Basics
    <2>2. \A z \in Spots : Line'[z] = IF z = c THEN Append(Line[c], e) ELSE Line[z]
      BY <1>2, <1>3, <1>8, <1>9
    <2>3. Apart(Line) /\ Line \in [Spots -> Seq(Nat)]
      BY Basics
    <2> QED
      <3>. HIDE DEF e
      <3> QED
        BY <1>1, <1>7, <1>8, <2>1, <2>2, <2>3, ApartAdded
  <1>11. \A x \in Spots : \A g \in Elems(Line'[x]) : g \in {e} \/ \E y \in Spots : g \in Elems(Line[y])
    BY <1>2, <1>8, <1>9
  <1>12. \A x \in Spots : \A g \in Elems(Line[x]) : \E y \in Spots : g \in Elems(Line'[y])
    BY <1>3, <1>8, <1>9, ElemsOf
  <1>13. {e} \subseteq 1..logged' /\ {e} \cap 1..logged = {} /\ logged <= logged' /\ logged' \in Nat
    BY <1>4, Basics
  <1>14. /\ \A x \in Spots : Elems(Line'[x]) \cap cut' = {}
         /\ \A x \in Spots : Elems(Line'[x]) \subseteq 1..logged'
         /\ backend = "memory" => cut' \cap Stored = {}
         /\ cut' \subseteq 1..logged' /\ cut \subseteq cut'
    <2>. HIDE DEF e
    <2> QED
      BY <1>4, <1>11, <1>13, Covers
  <1>15. Locked' /\ lock' \in [Procs -> Coros \cup {Free}]
    <2>1. \A d \in Coros : \/ co'[d] = co[d]
                           \/ co[d].pc \notin {"tail", "insert"} /\ co'[d].pc \notin {"tail", "insert"}
      BY <1>3, <1>5, <1>6
    <2> QED
      BY <1>4, <2>1, LockedKeeps
  <1>16. LoggerFrame
    BY <1>4, <1>5, <1>6 DEF LoggerFrame
  <1>17. e \notin promised
    BY Basics
  <1>18. ASSUME NEW d \in Coros
         PROVE  \/ co'[d] = co[d]
                \/ /\ co'[d].pc = "lock" /\ co'[d].next = 1 /\ Shape(co'[d])
                   /\ \A g \in Elems(co'[d].batch) : g \in {e} \/ \E q \in Procs : g \in Elems(queue[q])
                   /\ co'[d].mode = "sync" => Elems(co'[d].batch) \cap promised' = {}
    <2>1. Elems(f.batch) = {e}
      BY <1>2, <1>6
    <2> QED
      <3>. HIDE DEF e
      <3> QED
        BY <1>4, <1>5, <1>6, <1>17, <2>1
  <1>19. faults' \in Nat /\ up' \subseteq Procs /\ alive' \subseteq up'
    BY <1>4 DEF IInv, Typed
  <1>20. {e} \cap promised' = {}
    BY <1>4, <1>17
  <1> QED
    <2>1. LoggerMoves({e})
      <3>. HIDE DEF e
      <3> QED
        BY <1>1, <1>4, <1>5, <1>10, <1>12, <1>13, <1>14, <1>16, <1>18, <1>19, <1>20 DEF LoggerMoves
    <2> QED
      BY <1>15, <2>1

LEMMA StartLoopStep ==
    ASSUME IInv, NEW p \in Procs, StartLoop(p)
    PROVE  LoggerMoves({}) /\ Locked' /\ lock' \in [Procs -> Coros \cup {Free}]
  <1>1. /\ queue' = queue /\ co' = co /\ logged' = logged /\ promised' = promised /\ lock' = lock
        /\ backend' = backend /\ chain' = chain /\ up' = up /\ faults' = faults /\ cutoff' = cutoff
        /\ reader' = reader /\ pruned' = pruned /\ cut' = cut /\ raced' = raced /\ torn' = torn
        /\ alive' = alive \cup {p} /\ p \in up
    BY DEF StartLoop, bounds
  <1>2. Line' = Line
    BY <1>1 DEF Line
  <1>3. /\ queue \in [Procs -> Seq(Nat)] /\ co \in [Coros -> Frames] /\ logged \in Nat /\ Apart(Line)
        /\ alive \subseteq up /\ up \subseteq Procs
    BY Basics
  <1>4. /\ \A x \in Spots : Elems(Line'[x]) \cap cut' = {}
        /\ \A x \in Spots : Elems(Line'[x]) \subseteq 1..logged'
        /\ backend = "memory" => cut' \cap Stored = {}
        /\ cut' \subseteq 1..logged' /\ cut \subseteq cut'
    <2>1. {} \subseteq 1..logged' /\ {} \cap 1..logged = {} /\ logged <= logged'
      BY <1>1, <1>3
    <2> QED
      BY <1>1, <1>2, <1>3, <2>1, Covers
  <1>5. Locked' /\ lock' \in [Procs -> Coros \cup {Free}]
    BY <1>1, LockedKeeps
  <1>6. LoggerFrame
    BY <1>1 DEF LoggerFrame
  <1>7. faults' \in Nat
    BY <1>1 DEF IInv, Typed
  <1>8. logged <= logged'
    BY <1>1, <1>3
  <1>9. LoggerMoves({})
    BY <1>1, <1>2, <1>3, <1>4, <1>6, <1>7, <1>8 DEF LoggerMoves
  <1> QED
    BY <1>5, <1>9

LEMMA FlushLoopStep ==
    ASSUME IInv, NEW p \in Procs, FlushLoop(p)
    PROVE  LoggerMoves({}) /\ Locked' /\ lock' \in [Procs -> Coros \cup {Free}]
  <1>1. PICK c \in Coros : c = Loop(p)
    BY SpotsAre
  <1>2. PICK mine \in Seq(Nat) : mine = queue[p] /\ mine # <<>>
    BY Basics DEF FlushLoop
  <1>3. /\ co[c] = Idle /\ co[c].pc = "idle" /\ Line[c] = <<>>
    BY <1>1, Basics, IdleIs DEF FlushLoop, Turn, At
  <1>4. /\ logged' = logged /\ promised' = promised /\ queue' = [queue EXCEPT ![p] = <<>>]
        /\ backend' = backend /\ chain' = chain /\ alive' = alive /\ up' = up /\ lock' = lock
        /\ reader' = reader /\ pruned' = pruned /\ cut' = cut /\ raced' = raced /\ torn' = torn
        /\ faults' = faults /\ cutoff' = cutoff /\ Flush(c, mine, "flush")
    BY <1>1, <1>2 DEF FlushLoop, bounds
  <1>5. /\ queue \in [Procs -> Seq(Nat)] /\ logged \in Nat /\ Apart(Line) /\ Line \in [Spots -> Seq(Nat)]
        /\ <<>> \in Seq(Nat) /\ Elems(<<>>) = {}
    BY Basics, EmptySeq, ElemsOf
  <1>6. queue' \in [Procs -> Seq(Nat)] /\ queue'[p] = <<>> /\ \A q \in Procs : q # p => queue'[q] = queue[q]
    BY <1>4, <1>5
  <1> DEFINE f == Starting("flush", mine)
  <1>7. /\ co' \in [Coros -> Frames] /\ co'[c] = f /\ (\A d \in Coros : d # c => co'[d] = co[d])
    BY <1>2, <1>4, FlushIs
  <1>8. /\ f.batch = mine /\ f.pc = "lock" /\ f.next = 1 /\ f.mode = "flush"
        /\ f.list = {} /\ Shape(f)
    BY <1>2, StartingIs
  <1> HIDE DEF f
  <1>9. /\ Line' \in [Spots -> Seq(Nat)]
        /\ \A q \in Procs : Line'[Queue(q)] = queue'[q]
        /\ \A d \in Coros : Line'[d] = co'[d].batch
    BY <1>6, <1>7, LineIsNext
  <1>10. /\ Queue(p) \in Spots /\ c \in Spots /\ c # Queue(p)
         /\ Line'[c] = mine /\ Line'[Queue(p)] = <<>> /\ Line[Queue(p)] = mine
    BY <1>1, <1>2, <1>6, <1>7, <1>8, <1>9, Basics, SpotsAre
  <1>11. \A z \in Spots : z # c /\ z # Queue(p) => Line'[z] = Line[z]
    <2> SUFFICES ASSUME NEW z \in Spots, z # c, z # Queue(p)
                 PROVE  Line'[z] = Line[z]
      OBVIOUS
    <2>1. CASE z \in Coros
      BY <1>7, <1>9, <2>1, SpotLines
    <2>2. ASSUME NEW q \in Procs, z = Queue(q)
          PROVE  Line'[z] = Line[z]
      BY <1>6, <1>9, <2>2, Basics
    <2> QED
      BY <2>1, <2>2, SpotsAre
  <1>12. Apart(Line')
    <2>1. \A z \in Spots : Line'[z] = IF z = Queue(p) THEN <<>> ELSE IF z = c THEN Line[Queue(p)] ELSE Line[z]
      BY <1>10, <1>11
    <2> QED
      BY <1>5, <1>9, <1>10, <2>1, ApartMoved
  <1>13. \A x \in Spots : \A g \in Elems(Line'[x]) : g \in {} \/ \E y \in Spots : g \in Elems(Line[y])
    BY <1>5, <1>10, <1>11
  <1>14. \A x \in Spots : \A g \in Elems(Line[x]) : \E y \in Spots : g \in Elems(Line'[y])
    BY <1>3, <1>5, <1>10, <1>11
  <1>15. logged <= logged' /\ logged' \in Nat
    BY <1>4, <1>5
  <1>16. /\ \A x \in Spots : Elems(Line'[x]) \cap cut' = {}
         /\ \A x \in Spots : Elems(Line'[x]) \subseteq 1..logged'
         /\ backend = "memory" => cut' \cap Stored = {}
         /\ cut' \subseteq 1..logged' /\ cut \subseteq cut'
    <2>1. {} \subseteq 1..logged' /\ {} \cap 1..logged = {}
      OBVIOUS
    <2> QED
      BY <1>4, <1>13, <1>15, <2>1, Covers
  <1>17. Locked' /\ lock' \in [Procs -> Coros \cup {Free}]
    <2>1. \A d \in Coros : \/ co'[d] = co[d]
                           \/ co[d].pc \notin {"tail", "insert"} /\ co'[d].pc \notin {"tail", "insert"}
      BY <1>3, <1>7, <1>8
    <2> QED
      BY <1>4, <2>1, LockedKeeps
  <1>18. LoggerFrame
    BY <1>4, <1>7, <1>8 DEF LoggerFrame
  <1>19. ASSUME NEW d \in Coros
         PROVE  \/ co'[d] = co[d]
                \/ /\ co'[d].pc = "lock" /\ co'[d].next = 1 /\ Shape(co'[d])
                   /\ \A g \in Elems(co'[d].batch) : g \in {} \/ \E q \in Procs : g \in Elems(queue[q])
                   /\ co'[d].mode = "sync" => Elems(co'[d].batch) \cap promised' = {}
    BY <1>2, <1>7, <1>8
  <1>20. faults' \in Nat /\ up' \subseteq Procs /\ alive' \subseteq up'
    BY <1>4 DEF IInv, Typed
  <1>21. \A q \in Procs : Elems(queue'[q]) \subseteq Elems(queue[q]) \cup {}
    BY <1>5, <1>6
  <1>22. LoggerMoves({})
    BY <1>4, <1>6, <1>7, <1>12, <1>14, <1>15, <1>16, <1>18, <1>19, <1>20, <1>21 DEF LoggerMoves
  <1> QED
    BY <1>17, <1>22

LEMMA InOneSpot ==
    ASSUME IInv, NEW x \in Spots, NEW y \in Spots, x # y, NEW e \in Elems(Line[x])
    PROVE  e \notin Elems(Line[y])
  <1>1. Apart(Line) /\ DOMAIN Line = Spots
    BY Basics
  <1> QED
    BY <1>1 DEF Apart, Elems

LEMMA CloseStep ==
    ASSUME IInv, NEW p \in Procs, Close(p)
    PROVE  LoggerMoves({}) /\ Locked' /\ lock' \in [Procs -> Coros \cup {Free}]
  <1>1. PICK m \in Coros : m = Main(p)
    BY SpotsAre
  <1>2. PICK l \in Coros : l = Loop(p)
    BY SpotsAre
  <1>3. PICK mine \in Seq(Nat) : mine = queue[p]
    BY Basics
  <1> DEFINE f == IF mine = <<>> THEN Idle ELSE Starting("flush", mine)
             w == Queue(p)
  <1>4. /\ co[m] = Idle /\ co[m].pc = "idle" /\ Line[m] = <<>>
    BY <1>1, Basics, IdleIs DEF Close, Turn, At
  <1>5. /\ logged' = logged /\ promised' = promised /\ queue' = [queue EXCEPT ![p] = <<>>]
        /\ backend' = backend /\ chain' = chain /\ alive' = alive \ {p} /\ up' = up \ {p}
        /\ reader' = reader /\ pruned' = pruned /\ raced' = raced /\ torn' = torn
        /\ faults' = faults /\ cutoff' = cutoff
        /\ cut' = cut \cup Unsaved(l)
        /\ lock' = (IF lock[p] = l THEN [lock EXCEPT ![p] = Free] ELSE lock)
        /\ co' = [co EXCEPT ![l] = Idle, ![m] = f]
    BY <1>1, <1>2, <1>3, SpotsAre DEF Close, bounds, Unlock, Starting
  <1>6. /\ f \in Frames /\ f.batch = mine /\ f.pc \in {"idle", "lock"} /\ f.list = {}
        /\ f = Idle \/ (f.pc = "lock" /\ f.next = 1 /\ Shape(f) /\ f.mode = "flush")
    BY IdleIs, StartingIs
  <1> HIDE DEF f
  <1>7. /\ queue \in [Procs -> Seq(Nat)] /\ logged \in Nat /\ Apart(Line) /\ Line \in [Spots -> Seq(Nat)]
        /\ co \in [Coros -> Frames] /\ <<>> \in Seq(Nat) /\ Elems(<<>>) = {}
        /\ l # m /\ w \in Spots /\ w \notin Coros /\ Line[w] = mine /\ m \in Spots /\ l \in Spots
        /\ Proc(m) = p /\ Proc(l) = p
    BY <1>1, <1>2, <1>3, Basics, EmptySeq, ElemsOf, SpotsAre
  <1>8. /\ queue' \in [Procs -> Seq(Nat)] /\ queue'[p] = <<>>
        /\ \A q \in Procs : q # p => queue'[q] = queue[q]
    BY <1>5, <1>7
  <1>9. /\ co' \in [Coros -> Frames] /\ co'[m] = f /\ co'[l] = Idle
        /\ \A d \in Coros : d # m /\ d # l => co'[d] = co[d]
    BY <1>5, <1>6, <1>7, IdleIs
  <1>10. /\ Line' \in [Spots -> Seq(Nat)]
         /\ \A q \in Procs : Line'[Queue(q)] = queue'[q]
         /\ \A d \in Coros : Line'[d] = co'[d].batch
    BY <1>8, <1>9, LineIsNext
  <1>11. Line'[m] = mine /\ Line'[w] = <<>> /\ Line'[l] = <<>>
    BY <1>6, <1>8, <1>9, <1>10, IdleIs
  <1>12. \A z \in Spots : z # m /\ z # l /\ z # w => Line'[z] = Line[z]
    <2> SUFFICES ASSUME NEW z \in Spots, z # m, z # l, z # w
                 PROVE  Line'[z] = Line[z]
      OBVIOUS
    <2>1. CASE z \in Coros
      BY <1>9, <1>10, <2>1, SpotLines
    <2>2. ASSUME NEW q \in Procs, z = Queue(q)
          PROVE  Line'[z] = Line[z]
      BY <1>8, <1>10, <2>2, Basics
    <2> QED
      BY <2>1, <2>2, SpotsAre
  <1> HIDE DEF w
  <1>13. Apart(Line')
    <2> DEFINE mid == [Line EXCEPT ![l] = <<>>]
    <2>1. mid \in [Spots -> Seq(Nat)] /\ \A z \in Spots : mid[z] = IF z = l THEN <<>> ELSE Line[z]
      BY <1>7
    <2> HIDE DEF mid
    <2>2. Apart(mid)
      <3>1. \A z \in Spots : mid[z] = <<>> \/ mid[z] = Line[z]
        BY <2>1
      <3> QED
        BY <1>7, <2>1, <3>1, ApartFewer
    <2>3. w # m /\ w # l
      BY <1>7
    <2>4. \A z \in Spots : Line'[z] = IF z = w THEN <<>> ELSE IF z = m THEN mid[w] ELSE mid[z]
      BY <1>7, <1>11, <1>12, <2>1, <2>3
    <2> QED
      BY <1>7, <1>10, <2>1, <2>2, <2>3, <2>4, ApartMoved
  <1>14. Elems(Line[l]) \ Stored = Unsaved(l)
    BY Basics DEF Unsaved
  <1>15. /\ cut \subseteq 1..logged /\ (\A x \in Spots : Elems(Line[x]) \subseteq 1..logged)
         /\ (\A x \in Spots : Elems(Line[x]) \cap cut = {})
         /\ backend = "memory" => cut \cap Stored = {}
         /\ faults \in Nat /\ lock \in [Procs -> Coros \cup {Free}]
    BY DEF IInv, Typed, Accounted
  <1>16. ASSUME NEW x \in Spots, NEW e \in Elems(Line'[x])
         PROVE  \E y \in Spots : y # l /\ e \in Elems(Line[y])
    BY <1>7, <1>11, <1>12
  <1>17. ASSUME NEW x \in Spots, NEW e \in Elems(Line'[x])
         PROVE  e \notin cut' /\ e \in 1..logged'
    <2>1. PICK y \in Spots : y # l /\ e \in Elems(Line[y])
      BY <1>16
    <2>2. e \notin Elems(Line[l])
      BY <1>7, <2>1, InOneSpot
    <2>3. e \notin cut
      BY <1>15, <2>1
    <2>4. e \in 1..logged
      BY <1>15, <2>1
    <2> QED
      BY <1>5, <1>14, <2>2, <2>3, <2>4
  <1>18. /\ \A x \in Spots : Elems(Line'[x]) \cap cut' = {}
         /\ \A x \in Spots : Elems(Line'[x]) \subseteq 1..logged'
         /\ backend = "memory" => cut' \cap Stored = {}
         /\ cut' \subseteq 1..logged' /\ cut \subseteq cut'
    <2>1. Unsaved(l) \subseteq 1..logged /\ Unsaved(l) \cap Stored = {}
      BY <1>7, <1>14, <1>15
    <2> QED
      BY <1>5, <1>15, <1>17, <2>1
  <1>19. ASSUME NEW x \in Spots, NEW e \in Elems(Line[x])
         PROVE  e \in Stored \cup cut' \/ \E y \in Spots : e \in Elems(Line'[y])
    <2>1. CASE x = l
      BY <1>5, <1>14, <2>1
    <2>2. CASE x = w
      BY <1>7, <1>11, <2>2
    <2>3. CASE x = m
      BY <1>4, <1>7, <2>3
    <2>4. CASE x # l /\ x # w /\ x # m
      BY <1>12, <2>4
    <2> QED
      BY <2>1, <2>2, <2>3, <2>4
  <1>20. LoggerFrame
    BY <1>5, <1>6, <1>9, IdleIs DEF LoggerFrame
  <1>21. Locked' /\ lock' \in [Procs -> Coros \cup {Free}]
    <2>1. lock' \in [Procs -> Coros \cup {Free}]
      BY <1>5, <1>15
    <2>2. Free \notin Coros
      BY DEF Free, Coros
    <2>3. \A c \in Coros : co[c].pc \in {"tail", "insert"} <=> lock[Proc(c)] = c
      BY DEF IInv, Locked
    <2>4. lock[p] # m
      BY <1>4, <1>7, <2>3
    <2>5. ASSUME NEW c \in Coros
          PROVE  co'[c].pc \in {"tail", "insert"} <=> lock'[Proc(c)] = c
      <3>1. Proc(c) \in Procs /\ (Proc(c) = p => c = m \/ c = l)
        BY <1>1, <1>2, SpotsAre
      <3>2. CASE c = m \/ c = l
        <4>1. co'[c].pc \notin {"tail", "insert"}
          BY <1>6, <1>9, <3>2, IdleIs
        <4>2. lock'[p] # c
          BY <1>5, <1>7, <1>15, <2>2, <2>4, <3>2
        <4> QED
          BY <1>7, <3>2, <4>1, <4>2
      <3>3. CASE c # m /\ c # l
        BY <1>5, <1>9, <1>15, <2>3, <3>1, <3>3
      <3> QED
        BY <3>2, <3>3
    <2>6. ASSUME NEW q \in Procs
          PROVE  lock'[q] = Free \/ Proc(lock'[q]) = q
      BY <1>5, <1>15 DEF IInv, Locked
    <2> QED
      BY <2>1, <2>5, <2>6 DEF Locked
  <1>22. ASSUME NEW d \in Coros
         PROVE  \/ co'[d] = co[d]
                \/ co'[d] = Idle
                \/ /\ co'[d].pc = "lock" /\ co'[d].next = 1 /\ Shape(co'[d])
                   /\ \A g \in Elems(co'[d].batch) : g \in {} \/ \E q \in Procs : g \in Elems(queue[q])
                   /\ co'[d].mode = "sync" => Elems(co'[d].batch) \cap promised' = {}
    BY <1>3, <1>6, <1>9
  <1>23. alive' \subseteq up' /\ up' \subseteq Procs /\ faults' \in Nat
    BY <1>5, <1>15, Basics
  <1>24. \A q \in Procs : Elems(queue'[q]) \subseteq Elems(queue[q]) \cup {}
    BY <1>7, <1>8
  <1>25. logged <= logged' /\ logged' \in Nat
    BY <1>5, <1>7
  <1>26. LoggerMoves({})
    BY <1>5, <1>8, <1>9, <1>13, <1>18, <1>19, <1>20, <1>22, <1>23, <1>24, <1>25 DEF LoggerMoves
  <1> QED
    BY <1>21, <1>26

LEMMA DiesStep ==
    ASSUME IInv, NEW p \in Procs, Dies(p)
    PROVE  LoggerMoves({}) /\ Locked' /\ lock' \in [Procs -> Coros \cup {Free}]
  <1>1. PICK m \in Coros : m = Main(p)
    BY SpotsAre
  <1>2. PICK l \in Coros : l = Loop(p)
    BY SpotsAre
  <1> DEFINE w == Queue(p)
             lost == {m, l, w}
  <1>3. /\ logged' = logged /\ promised' = promised /\ queue' = [queue EXCEPT ![p] = <<>>]
        /\ backend' = backend /\ chain' = chain /\ alive' = alive \ {p} /\ up' = up \ {p}
        /\ reader' = reader /\ pruned' = pruned /\ raced' = raced /\ torn' = torn
        /\ faults' = faults + 1 /\ cutoff' = cutoff
        /\ cut' = cut \cup Elems(queue[p]) \cup Unsaved(l) \cup Unsaved(m)
        /\ lock' = [lock EXCEPT ![p] = Free]
        /\ co' = [co EXCEPT ![l] = Idle, ![m] = Idle]
    BY <1>1, <1>2 DEF Dies
  <1>4. /\ queue \in [Procs -> Seq(Nat)] /\ logged \in Nat /\ Apart(Line) /\ Line \in [Spots -> Seq(Nat)]
        /\ co \in [Coros -> Frames] /\ <<>> \in Seq(Nat) /\ Elems(<<>>) = {}
        /\ l # m /\ w \in Spots /\ w \notin Coros /\ Line[w] = queue[p] /\ m \in Spots /\ l \in Spots
        /\ Proc(m) = p /\ Proc(l) = p
    BY <1>1, <1>2, Basics, EmptySeq, ElemsOf, SpotsAre
  <1>5. /\ queue' \in [Procs -> Seq(Nat)] /\ queue'[p] = <<>>
        /\ \A q \in Procs : q # p => queue'[q] = queue[q]
    BY <1>3, <1>4
  <1>6. /\ co' \in [Coros -> Frames] /\ co'[m] = Idle /\ co'[l] = Idle
        /\ \A d \in Coros : d # m /\ d # l => co'[d] = co[d]
    BY <1>3, <1>4, IdleIs
  <1>7. /\ Line' \in [Spots -> Seq(Nat)]
        /\ \A q \in Procs : Line'[Queue(q)] = queue'[q]
        /\ \A d \in Coros : Line'[d] = co'[d].batch
    BY <1>5, <1>6, LineIsNext
  <1>8. \A z \in Spots : Line'[z] = IF z \in lost THEN <<>> ELSE Line[z]
    <2> SUFFICES ASSUME NEW z \in Spots
                 PROVE  Line'[z] = IF z \in lost THEN <<>> ELSE Line[z]
      OBVIOUS
    <2>1. CASE z \in Coros
      <3>1. z # w /\ Line'[z] = co'[z].batch /\ Line[z] = co[z].batch
        BY <1>4, <1>7, <2>1, Basics
      <3>2. z \in lost <=> z = m \/ z = l
        BY <3>1
      <3> QED
        BY <1>6, <2>1, <3>1, <3>2, IdleIs
    <2>2. ASSUME NEW q \in Procs, z = Queue(q)
          PROVE  Line'[z] = IF z \in lost THEN <<>> ELSE Line[z]
      <3>1. z \notin Coros /\ (z = w <=> q = p)
        BY <2>2, SpotsAre DEF Queue
      <3> QED
        BY <1>5, <1>7, <2>2, <3>1, Basics
    <2> QED
      BY <2>1, <2>2, SpotsAre
  <1>9. lost \subseteq Spots
    BY <1>4
  <1>10. \A x \in lost : Elems(Line[x]) \subseteq Stored \cup cut'
    BY <1>3, <1>4, Basics DEF Unsaved
  <1>11. cut' \ cut \subseteq UNION {Elems(Line[x]) : x \in lost}
    BY <1>3, <1>4, Basics DEF Unsaved
  <1>12. /\ cut \subseteq 1..logged /\ (\A x \in Spots : Elems(Line[x]) \subseteq 1..logged)
         /\ (\A x \in Spots : Elems(Line[x]) \cap cut = {})
         /\ backend = "memory" => cut \cap Stored = {}
         /\ faults \in Nat /\ lock \in [Procs -> Coros \cup {Free}]
    BY DEF IInv, Typed, Accounted
  <1>13. backend = "memory" => cut' \cap Stored = {}
    <2>1. backend = "memory" => Elems(queue[p]) \cap Stored = {}
      BY DEF IInv, Accounted
    <2> QED
      BY <1>3, <1>12, <2>1 DEF Unsaved
  <1> HIDE DEF lost, w
  <1>14. Apart(Line')
    <2>1. \A z \in Spots : Line'[z] = <<>> \/ Line'[z] = Line[z]
      BY <1>8
    <2> QED
      BY <1>4, <1>7, <2>1, ApartFewer
  <1>15. ASSUME NEW x \in Spots, NEW e \in Elems(Line'[x])
         PROVE  e \notin cut' /\ e \in 1..logged'
    <2>1. x \notin lost /\ e \in Elems(Line[x])
      BY <1>4, <1>8
    <2>2. \A y \in lost : e \notin Elems(Line[y])
      BY <1>9, <2>1, InOneSpot
    <2> QED
      BY <1>3, <1>11, <1>12, <2>1, <2>2
  <1>16. /\ \A x \in Spots : Elems(Line'[x]) \cap cut' = {}
         /\ \A x \in Spots : Elems(Line'[x]) \subseteq 1..logged'
         /\ cut' \subseteq 1..logged' /\ cut \subseteq cut'
    <2>1. UNION {Elems(Line[x]) : x \in lost} \subseteq 1..logged
      BY <1>9, <1>12
    <2>2. cut' \subseteq 1..logged' /\ cut \subseteq cut'
      BY <1>3, <1>11, <1>12, <2>1
    <2> QED
      BY <1>15, <2>2
  <1>17. ASSUME NEW x \in Spots, NEW e \in Elems(Line[x])
         PROVE  e \in Stored \cup cut' \/ \E y \in Spots : e \in Elems(Line'[y])
    BY <1>8, <1>10
  <1>18. LoggerFrame
    BY <1>3, <1>6, IdleIs DEF LoggerFrame
  <1>19. Locked' /\ lock' \in [Procs -> Coros \cup {Free}]
    <2>1. lock' \in [Procs -> Coros \cup {Free}]
      BY <1>3, <1>12
    <2>2. Free \notin Coros
      BY DEF Free, Coros
    <2>3. \A c \in Coros : co[c].pc \in {"tail", "insert"} <=> lock[Proc(c)] = c
      BY DEF IInv, Locked
    <2>4. ASSUME NEW c \in Coros
          PROVE  co'[c].pc \in {"tail", "insert"} <=> lock'[Proc(c)] = c
      <3>1. Proc(c) \in Procs /\ (Proc(c) = p => c = m \/ c = l)
        BY <1>1, <1>2, SpotsAre
      <3>2. CASE c = m \/ c = l
        BY <1>3, <1>4, <1>6, <1>12, <2>2, <3>2, IdleIs
      <3>3. CASE c # m /\ c # l
        BY <1>3, <1>6, <1>12, <2>3, <3>1, <3>3
      <3> QED
        BY <3>2, <3>3
    <2>5. ASSUME NEW q \in Procs
          PROVE  lock'[q] = Free \/ Proc(lock'[q]) = q
      BY <1>3, <1>12 DEF IInv, Locked
    <2> QED
      BY <2>1, <2>4, <2>5 DEF Locked
  <1>20. \A d \in Coros : co'[d] = co[d] \/ co'[d] = Idle
    BY <1>6
  <1>21. alive' \subseteq up' /\ up' \subseteq Procs /\ faults' \in Nat
    BY <1>3, <1>12, Basics
  <1>22. \A q \in Procs : Elems(queue'[q]) \subseteq Elems(queue[q]) \cup {}
    BY <1>4, <1>5
  <1>23. logged <= logged' /\ logged' \in Nat
    BY <1>3, <1>4
  <1>24. LoggerMoves({})
    BY <1>3, <1>5, <1>6, <1>13, <1>14, <1>16, <1>17, <1>18, <1>20, <1>21, <1>22, <1>23 DEF LoggerMoves
  <1> QED
    BY <1>19, <1>24

(* Every step of the logger keeps the invariant. *)
LEMMA LoggerStep ==
    ASSUME IInv,
           \/ \E c \in Coros : LogQueued(c) \/ LogSync(c)
           \/ \E p \in Procs : StartLoop(p) \/ FlushLoop(p) \/ Close(p) \/ Dies(p)
    PROVE  IInv'
  <1>1. ASSUME NEW N, LoggerMoves(N), Locked', lock' \in [Procs -> Coros \cup {Free}]
        PROVE  IInv'
    <2>1. Typed' /\ OnePlace' /\ Accounted'
      BY <1>1, LoggerAccounted
    <2>2. Tails' /\ Chained' /\ Pages'
      BY <1>1, LoggerKeeps DEF LoggerMoves
    <2> QED
      BY <1>1, <2>1, <2>2 DEF IInv
  <1>2. \E N \in {{}, {logged + 1}} :
            LoggerMoves(N) /\ Locked' /\ lock' \in [Procs -> Coros \cup {Free}]
    BY LogQueuedStep, LogSyncStep, StartLoopStep, FlushLoopStep, CloseStep, DiesStep
  <1> QED
    BY <1>1, <1>2

-----------------------------------------------------------------------------
(* Saving. *)

LEMMA StoredFinite ==
    logged \in Nat /\ Stored \subseteq 1..logged => Stored \in SUBSET Nat /\ IsFiniteSet(Stored)
  <1> SUFFICES ASSUME logged \in Nat, Stored \subseteq 1..logged
               PROVE  Stored \in SUBSET Nat /\ IsFiniteSet(Stored)
    OBVIOUS
  <1>1. IsFiniteSet(1..logged)
    BY FS_Interval
  <1>2. Stored \in SUBSET (1..logged)
    OBVIOUS
  <1>3. IsFiniteSet(Stored)
    BY <1>1, <1>2, FS_Subset
  <1>4. 1..logged \subseteq Nat
    OBVIOUS
  <1> QED
    BY <1>3, <1>4

LEMMA StoredFiniteNext ==
    logged' \in Nat /\ Stored' \subseteq 1..logged' => Stored' \in SUBSET Nat /\ IsFiniteSet(Stored')
  <1>1. (logged \in Nat /\ Stored \subseteq 1..logged => Stored \in SUBSET Nat /\ IsFiniteSet(Stored))'
    BY StoredFinite, PTL
  <1> QED
    BY <1>1

(* What is stored pushes an event further down the listing. *)
LEMMA FurtherDown ==
    ASSUME NEW S, NEW T \in SUBSET Nat, IsFiniteSet(T), S \subseteq T, NEW e
    PROVE  /\ Cardinality({f \in S : f >= e}) \in Nat /\ Cardinality({f \in T : f >= e}) \in Nat
           /\ Cardinality({f \in S : f >= e}) <= Cardinality({f \in T : f >= e})
  <1> DEFINE s == {f \in S : f >= e}
             t == {f \in T : f >= e}
  <1>1. t \in SUBSET T /\ s \in SUBSET t
    OBVIOUS
  <1> HIDE DEF s, t
  <1>2. IsFiniteSet(t)
    BY <1>1, FS_Subset
  <1>3. IsFiniteSet(s) /\ Cardinality(s) <= Cardinality(t)
    BY <1>1, <1>2, FS_Subset
  <1>4. Cardinality(s) \in Nat /\ Cardinality(t) \in Nat
    BY <1>2, <1>3, FS_CardinalityType
  <1> QED
    BY <1>3, <1>4 DEF s, t

(* c has stored todo behind tail and goes on with frame. *)
Inserted(c, todo, tail, n, frame) ==
    /\ StoredBehind(todo, tail, n) /\ Elems(todo) \subseteq Elems(co[c].batch)
    /\ co' = [d \in Coros |-> IF d = c THEN frame
                              ELSE IF todo # <<>> /\ At(d, "insert") /\ Proc(d) # Proc(c)
                                   THEN [co[d] EXCEPT !.stale = TRUE] ELSE co[d]]
    /\ \A d \in Coros : d # c /\ Proc(d) = Proc(c) => co[d].pc \notin {"tail", "insert"}
    /\ logged' = logged /\ up' = up /\ reader' = reader /\ cut' = cut /\ cutoff' = cutoff
    /\ faults' \in Nat
    /\ Shape(frame) /\ frame.list = {} /\ TailSound(frame)'

LEMMA InsertedKeeps ==
    ASSUME IInv, NEW c \in Coros, NEW todo \in Seq(Nat), NEW tail \in Seq(Nat), NEW n \in Nat,
           NEW frame \in Frames, Inserted(c, todo, tail, n, frame)
    PROVE  /\ chain' \in Seq(Rows) /\ Stored' = Stored \cup Elems(todo)
           /\ co' \in [Coros -> Frames] /\ co'[c] = frame
           /\ \A d \in Coros : d # c =>
                 /\ co'[d].pc = co[d].pc /\ co'[d].mode = co[d].mode /\ co'[d].batch = co[d].batch
                 /\ co'[d].next = co[d].next /\ co'[d].list = co[d].list
           /\ \A d \in Coros : Shape(co'[d])
           /\ Tails' /\ Chained' /\ Pages'
  <1>1. /\ co \in [Coros -> Frames] /\ chain \in Seq(Rows) /\ Chained /\ Tails /\ Pages
        /\ logged \in Nat /\ Stored \subseteq 1..logged /\ reader \in Readers
        /\ Elems(co[c].batch) \subseteq 1..logged
        /\ \A d \in Coros : Shape(co[d])
    <2>1. Line[c] = co[c].batch /\ c \in Spots
      BY Basics, SpotsAre
    <2> QED
      BY <2>1 DEF IInv, Typed
  <1>2. /\ backend' = backend /\ pruned' = pruned /\ raced \subseteq raced'
        /\ logged' = logged /\ reader' = reader /\ cutoff' = cutoff
        /\ chain' = chain \o LinkedRows(todo, tail, n)
        /\ Elems(todo) \subseteq Elems(co[c].batch)
        /\ Shape(frame) /\ frame.list = {} /\ TailSound(frame)'
    BY DEF Inserted, StoredBehind
  <1>3. /\ chain' \in Seq(Rows) /\ Stored' = Stored \cup Elems(todo)
        /\ Len(chain) \in Nat /\ Len(todo) \in Nat
        /\ Len(chain') = Len(chain) + Len(todo)
        /\ \A i \in 1..Len(chain) : chain'[i] = chain[i]
    BY <1>1, <1>2, AppendRows
  <1>4. Chained'
    BY <1>1, ChainedAppend DEF Inserted
  <1>5. co'[c] = frame /\ \A d \in Coros : d # c =>
            \/ co'[d] = co[d] /\ (todo = <<>> \/ co[d].pc # "insert")
            \/ co[d].pc = "insert" /\ co'[d] = [co[d] EXCEPT !.stale = TRUE]
    <2>1. ASSUME NEW d \in Coros, d # c
          PROVE  \/ co'[d] = co[d] /\ (todo = <<>> \/ co[d].pc # "insert")
                 \/ co[d].pc = "insert" /\ co'[d] = [co[d] EXCEPT !.stale = TRUE]
      BY <2>1 DEF Inserted, At
    <2> QED
      BY <2>1 DEF Inserted
  <1>6. ASSUME NEW d \in Coros, d # c, co[d].pc = "insert", co'[d] = [co[d] EXCEPT !.stale = TRUE]
        PROVE  /\ co'[d] \in Frames /\ co'[d].stale = TRUE /\ co'[d].tail = co[d].tail
               /\ co'[d].pc = co[d].pc /\ co'[d].mode = co[d].mode /\ co'[d].batch = co[d].batch
               /\ co'[d].next = co[d].next /\ co'[d].list = co[d].list
    BY <1>1, <1>6 DEF Frames
  <1>7. \A d \in Coros : d # c =>
                 /\ co'[d].pc = co[d].pc /\ co'[d].mode = co[d].mode /\ co'[d].batch = co[d].batch
                 /\ co'[d].next = co[d].next /\ co'[d].list = co[d].list
    BY <1>5, <1>6
  <1>8. co' \in [Coros -> Frames]
    <2>1. \A d \in Coros : co'[d] \in Frames
      BY <1>1, <1>5, <1>6
    <2>2. co' = [d \in Coros |-> co'[d]]
      BY DEF Inserted
    <2> QED
      BY <2>1, <2>2
  <1>9. ASSUME NEW d \in Coros
        PROVE  Shape(co'[d])
    <2>1. CASE d = c
      BY <1>2, <1>5, <2>1
    <2>2. CASE d # c /\ co'[d] = co[d]
      BY <1>1, <2>2
    <2>3. CASE d # c /\ co[d].pc = "insert" /\ co'[d] = [co[d] EXCEPT !.stale = TRUE]
      <3>1. Shape(co[d])
        BY <1>1
      <3> QED
        BY <1>6, <2>3, <3>1 DEF Shape
    <2> QED
      BY <1>5, <2>1, <2>2, <2>3
  <1>10. Tails'
    <2> SUFFICES ASSUME NEW d \in Coros
                 PROVE  TailSound(co[d])'
      BY DEF Tails
    <2>1. CASE d = c
      BY <1>2, <1>5, <2>1 DEF TailSound
    <2>2. TailSound(co[d]) /\ Stored \subseteq Stored'
      BY <1>1, <1>3 DEF Tails
    <2>3. CASE d # c /\ co[d].pc = "insert" /\ co'[d] = [co[d] EXCEPT !.stale = TRUE]
      BY <1>2, <1>6, <2>2, <2>3 DEF TailSound
    <2>4. CASE d # c /\ co'[d] = co[d] /\ co[d].pc # "insert"
      BY <2>4 DEF TailSound
    <2>5. CASE d # c /\ co'[d] = co[d] /\ todo = <<>>
      <3>1. Len(chain') = Len(chain)
        <4>1. Len(todo) = 0
          BY <2>5, EmptySeq
        <4> QED
          BY <1>3, <4>1
      <3> QED
        BY <1>2, <1>3, <2>2, <2>5, <3>1 DEF TailSound
    <2> QED
      BY <1>5, <2>1, <2>3, <2>4, <2>5
  <1>11. Pages'
    <2>1. (\A d \in Coros : \A e \in co[d].list : e < cutoff /\ e \in pruned)'
      <3>1. \A d \in Coros : \A e \in co[d].list : e < cutoff /\ e \in pruned
        BY <1>1 DEF Pages
      <3>2. ASSUME NEW d \in Coros, NEW e \in co'[d].list
            PROVE  e < cutoff' /\ e \in pruned'
        BY <1>2, <1>5, <1>7, <3>1, <3>2
      <3> QED
        BY <3>2
    <2>2. Stored \subseteq Stored' /\ Stored' \in SUBSET Nat /\ IsFiniteSet(Stored')
      <3>1. Stored' \subseteq 1..logged' /\ logged' \in Nat
        BY <1>1, <1>2, <1>3
      <3> QED
        BY <1>3, <3>1, StoredFiniteNext
    <2>3. \A e : NewestFirst(e) \in Nat /\ NewestFirst(e)' \in Nat /\ NewestFirst(e) <= NewestFirst(e)'
      BY <2>2, FurtherDown DEF NewestFirst
    <2>4. ASSUME reader'.pc = "more", NEW e \in reader'.snap \ reader'.seen
          PROVE  e < cutoff' \/ NewestFirst(e)' > reader'.offset
      <3>1. e < cutoff \/ NewestFirst(e) > reader.offset
        BY <1>1, <1>2, <2>4 DEF Pages
      <3>2. reader.offset \in Nat
        BY <1>1 DEF Readers
      <3>3. PICK a \in Nat : a = NewestFirst(e)
        BY <2>3
      <3>4. PICK b \in Nat : b = NewestFirst(e)'
        BY <2>3
      <3>5. a <= b
        BY <2>3, <3>3, <3>4
      <3>6. e < cutoff \/ b > reader.offset
        BY <3>1, <3>2, <3>3, <3>5
      <3> QED
        BY <1>2, <3>4, <3>6
    <2>5. (reader.pc # "idle" => \A e \in reader.snap : e < cutoff \/ e \in Stored)'
      BY <1>1, <1>2, <2>2 DEF Pages
    <2>6. (reader.pc = "done" => \A e \in reader.snap \ reader.seen : e < cutoff)'
      BY <1>1, <1>2 DEF Pages
    <2>7. (reader.pc = "idle" => reader = Unread)'
      BY <1>1, <1>2 DEF Pages, Unread
    <2> QED
      BY <2>1, <2>4, <2>5, <2>6, <2>7 DEF Pages
  <1> QED
    BY <1>3, <1>4, <1>5, <1>7, <1>8, <1>9, <1>10, <1>11

(* What the coroutine that stores has in its hands is in no other place. *)
LEMMA InsertedOthers ==
    ASSUME IInv, NEW c \in Coros, NEW todo \in Seq(Nat), NEW tail \in Seq(Nat), NEW n \in Nat,
           NEW frame \in Frames, Inserted(c, todo, tail, n, frame),
           promised' \subseteq promised \cup Elems(co[c].batch)
    PROVE  /\ \A d \in Coros : d # c => BatchSound(co[d])'
           /\ \A p \in Procs : Elems(queue[p]) \cap Stored' \subseteq torn
           /\ backend = "memory" => torn = {} /\ cut' \cap Stored' = {}
           /\ \A i \in 1..Len(co[c].batch) : i < co[c].next => co[c].batch[i] \in Stored' \cup pruned'
           /\ backend' = backend /\ pruned' = pruned
  <1>1. /\ Stored' = Stored \cup Elems(todo)
        /\ \A d \in Coros : d # c =>
              /\ co'[d].mode = co[d].mode /\ co'[d].batch = co[d].batch /\ co'[d].next = co[d].next
    BY InsertedKeeps
  <1>2. /\ backend' = backend /\ pruned' = pruned /\ cut' = cut
        /\ Elems(todo) \subseteq Elems(co[c].batch)
    BY DEF Inserted, StoredBehind
  <1>3. Line[c] = co[c].batch /\ c \in Spots
    BY Basics, SpotsAre
  <1>4. ASSUME NEW x \in Spots, x # c
        PROVE  Elems(Line[x]) \cap Elems(co[c].batch) = {}
    BY <1>3, <1>4, InOneSpot
  <1>5. ASSUME NEW d \in Coros, d # c
        PROVE  BatchSound(co[d])'
    <2>1. BatchSound(co[d])
      BY DEF IInv, Accounted
    <2>2. Elems(co[d].batch) \cap Elems(co[c].batch) = {}
      BY <1>4, <1>5, Basics, SpotsAre
    <2>3. \A i \in 1..Len(co'[d].batch) : i < co'[d].next => co'[d].batch[i] \in Stored' \cup pruned'
      BY <1>1, <1>2, <1>5, <2>1 DEF BatchSound
    <2>4. co'[d].mode = "sync" => Elems(co'[d].batch) \cap promised' = {}
      BY <1>1, <1>5, <2>1, <2>2 DEF BatchSound
    <2>5. backend' = "memory" => Elems(co'[d].batch) \cap Stored' = {}
      BY <1>1, <1>2, <1>5, <2>1, <2>2 DEF BatchSound
    <2> QED
      BY <2>3, <2>4, <2>5 DEF BatchSound
  <1>6. ASSUME NEW p \in Procs
        PROVE  Elems(queue[p]) \cap Stored' \subseteq torn
    <2>1. Queue(p) \in Spots /\ Queue(p) # c /\ Line[Queue(p)] = queue[p]
      BY Basics, SpotsAre
    <2>2. Elems(queue[p]) \cap Elems(co[c].batch) = {}
      BY <1>4, <2>1
    <2>3. Elems(queue[p]) \cap Stored \subseteq torn
      BY DEF IInv, Accounted
    <2> QED
      BY <1>1, <1>2, <2>2, <2>3
  <1>7. backend = "memory" => torn = {} /\ cut' \cap Stored' = {}
    <2>1. Elems(co[c].batch) \cap cut = {}
      BY <1>3 DEF IInv, Accounted
    <2>2. backend = "memory" => torn = {} /\ cut \cap Stored = {}
      BY DEF IInv, Accounted
    <2> QED
      BY <1>1, <1>2, <2>1, <2>2
  <1>8. \A i \in 1..Len(co[c].batch) : i < co[c].next => co[c].batch[i] \in Stored' \cup pruned'
    <2>1. BatchSound(co[c])
      BY DEF IInv, Accounted
    <2> QED
      BY <1>1, <1>2, <2>1 DEF BatchSound
  <1> QED
    BY <1>2, <1>5, <1>6, <1>7, <1>8

LEMMA InsertedTyped ==
    ASSUME IInv, NEW c \in Coros, NEW todo \in Seq(Nat), NEW tail \in Seq(Nat), NEW n \in Nat,
           NEW frame \in Frames, Inserted(c, todo, tail, n, frame),
           promised' \subseteq promised \cup Elems(co[c].batch),
           queue' \in [Procs -> Seq(Nat)], lock' \in [Procs -> Coros \cup {Free}], alive' \subseteq alive,
           \A x \in Spots : Elems(Line'[x]) \subseteq 1..logged
    PROVE  Typed'
  <1>1. /\ chain' \in Seq(Rows) /\ Stored' = Stored \cup Elems(todo)
        /\ co' \in [Coros -> Frames] /\ \A d \in Coros : Shape(co'[d])
    BY InsertedKeeps
  <1>2. /\ backend' = backend /\ pruned' = pruned /\ cut' = cut /\ logged' = logged /\ up' = up
        /\ reader' = reader /\ cutoff' = cutoff /\ faults' \in Nat
        /\ Elems(todo) \subseteq Elems(co[c].batch)
    BY DEF Inserted, StoredBehind
  <1>3. /\ backend \in Backends /\ {logged, cutoff} \subseteq Nat /\ up \subseteq Procs /\ alive \subseteq up
        /\ reader \in Readers /\ Stored \cup promised \cup pruned \cup cut \subseteq 1..logged
        /\ Elems(co[c].batch) \subseteq 1..logged
    <2>1. Line[c] = co[c].batch /\ c \in Spots
      BY Basics, SpotsAre
    <2> QED
      BY <2>1 DEF IInv, Typed
  <1>4. (\A d \in Coros : Shape(co[d]))'
    BY <1>1, <1>2 DEF Shape
  <1>5. (Stored \cup promised \cup pruned \cup cut \subseteq 1..logged)'
    BY <1>1, <1>2, <1>3
  <1>6. (\A x \in Spots : Elems(Line[x]) \subseteq 1..logged)'
    BY <1>2
  <1> QED
    BY <1>1, <1>2, <1>3, <1>4, <1>5, <1>6 DEF Typed

(* The lock is given back. *)
LEMMA InsertedFree ==
    ASSUME IInv, NEW c \in Coros, NEW todo \in Seq(Nat), NEW tail \in Seq(Nat), NEW n \in Nat,
           Inserted(c, todo, tail, n, Idle), lock' = Unlock(c)
    PROVE  Locked' /\ lock' \in [Procs -> Coros \cup {Free}]
  <1>1. lock \in [Procs -> Coros \cup {Free}] /\ Proc(c) \in Procs
    BY SpotsAre DEF IInv, Typed
  <1>2. lock' = [lock EXCEPT ![Proc(c)] = Free]
    BY DEF Unlock
  <1>3. Idle \in Frames /\ Idle.pc = "idle"
    BY IdleIs
  <1>4. co'[c] = Idle /\ \A d \in Coros : d # c => co'[d].pc = co[d].pc
    BY <1>3, InsertedKeeps
  <1>5. Free \notin Coros
    BY DEF Free, Coros
  <1>6. ASSUME NEW d \in Coros
        PROVE  co'[d].pc \in {"tail", "insert"} <=> lock'[Proc(d)] = d
    <2>1. Proc(d) \in Procs
      BY SpotsAre
    <2>2. CASE Proc(d) = Proc(c)
      <3>1. lock'[Proc(d)] # d
        BY <1>1, <1>2, <1>5, <2>2
      <3>2. d # c => co[d].pc \notin {"tail", "insert"}
        BY <2>2 DEF Inserted
      <3> QED
        BY <1>3, <1>4, <3>1, <3>2
    <2>3. CASE Proc(d) # Proc(c)
      BY <1>1, <1>2, <1>4, <2>1, <2>3 DEF IInv, Locked
    <2> QED
      BY <2>2, <2>3
  <1>7. lock' \in [Procs -> Coros \cup {Free}]
    BY <1>1, <1>2
  <1>8. \A p \in Procs : lock'[p] = Free \/ Proc(lock'[p]) = p
    BY <1>1, <1>2 DEF IInv, Locked
  <1> QED
    BY <1>6, <1>7, <1>8 DEF Locked

LEMMA InsertedIdle ==
    ASSUME IInv, NEW c \in Coros, NEW todo \in Seq(Nat), NEW tail \in Seq(Nat), NEW n \in Nat,
           Inserted(c, todo, tail, n, Idle)
    PROVE  /\ Stored' = Stored \cup Elems(todo)
           /\ co' \in [Coros -> Frames] /\ co'[c] = Idle
           /\ \A d \in Coros : d # c => co'[d].batch = co[d].batch
           /\ Tails' /\ Chained' /\ Pages'
  <1>1. Idle \in Frames
    BY IdleIs
  <1> QED
    BY <1>1, InsertedKeeps

(* The last of the batch is stored. *)
LEMMA StoreEnds ==
    ASSUME IInv, NEW c \in Coros, NEW todo \in Seq(Nat), NEW tail \in Seq(Nat), NEW n \in Nat,
           Inserted(c, todo, tail, n, Idle), lock' = Unlock(c), queue' = queue, alive' = alive,
           torn' = torn, promised' = promised \cup Elems(co[c].batch),
           \A i \in 1..Len(co[c].batch) : i < co[c].next \/ co[c].batch[i] \in Elems(todo)
    PROVE  IInv'
  <1>1. Idle \in Frames /\ Idle.batch = <<>> /\ <<>> \in Seq(Nat) /\ Elems(<<>>) = {}
    BY IdleIs, EmptySeq, ElemsOf
  <1>2. /\ Stored' = Stored \cup Elems(todo)
        /\ co' \in [Coros -> Frames] /\ co'[c] = Idle
        /\ \A d \in Coros : d # c => co'[d].batch = co[d].batch
        /\ Tails' /\ Chained' /\ Pages'
    BY InsertedIdle
  <1>3. /\ \A d \in Coros : d # c => BatchSound(co[d])'
        /\ \A p \in Procs : Elems(queue[p]) \cap Stored' \subseteq torn
        /\ backend = "memory" => torn = {} /\ cut' \cap Stored' = {}
        /\ \A i \in 1..Len(co[c].batch) : i < co[c].next => co[c].batch[i] \in Stored' \cup pruned'
        /\ backend' = backend /\ pruned' = pruned
    BY <1>1, InsertedOthers
  <1>4. cut' = cut
    BY DEF Inserted
  <1>5. /\ queue \in [Procs -> Seq(Nat)] /\ Apart(Line) /\ Line \in [Spots -> Seq(Nat)]
        /\ \A x \in Spots : Elems(Line[x]) \subseteq 1..logged
        /\ Line[c] = co[c].batch /\ c \in Spots
    BY Basics, SpotsAre
  <1>6. /\ Line' \in [Spots -> Seq(Nat)]
        /\ \A p \in Procs : Line'[Queue(p)] = queue'[p]
        /\ \A d \in Coros : Line'[d] = co'[d].batch
    BY <1>2, <1>5, LineIsNext
  <1>7. Line'[c] = <<>> /\ \A x \in Spots : x # c => Line'[x] = Line[x]
    <2>1. ASSUME NEW x \in Spots, x # c
          PROVE  Line'[x] = Line[x]
      <3>1. CASE x \in Coros
        BY <1>2, <1>6, <2>1, <3>1, Basics
      <3>2. ASSUME NEW p \in Procs, x = Queue(p)
            PROVE  Line'[x] = Line[x]
        BY <1>6, <3>2, Basics
      <3> QED
        BY <3>1, <3>2, SpotsAre
    <2> QED
      BY <1>1, <1>2, <1>6, <2>1
  <1>8. OnePlace'
    <2>1. \A x \in Spots : Line'[x] = <<>> \/ Line'[x] = Line[x]
      BY <1>7
    <2>2. Apart(Line')
      BY <1>5, <1>6, <2>1, ApartFewer
    <2> QED
      BY <2>2 DEF OnePlace
  <1>9. Locked' /\ lock' \in [Procs -> Coros \cup {Free}]
    BY InsertedFree
  <1>10. \A x \in Spots : Elems(Line'[x]) \subseteq Elems(Line[x])
    BY <1>1, <1>7
  <1>11. Typed'
    <2>1. \A x \in Spots : Elems(Line'[x]) \subseteq 1..logged
      BY <1>5, <1>10
    <2> QED
      BY <1>1, <1>5, <1>9, <2>1, InsertedTyped
  <1>12. Elems(co[c].batch) \subseteq Stored' \cup pruned'
    BY <1>2, <1>3 DEF Elems
  <1>13. Accounted'
    <2>1. ASSUME NEW e \in promised', e \notin Stored' \cup pruned' \cup cut'
          PROVE  \E x \in Spots : e \in Elems(Line'[x])
      <3>1. e \in promised /\ e \notin Elems(co[c].batch)
        BY <1>12, <2>1
      <3>2. e \notin Stored \cup pruned \cup cut
        BY <1>2, <1>3, <1>4, <2>1
      <3>3. PICK x \in Spots : e \in Elems(Line[x])
        BY <3>1, <3>2 DEF IInv, Accounted
      <3> QED
        BY <1>5, <1>7, <3>1, <3>3
    <2>2. ASSUME NEW d \in Coros
          PROVE  BatchSound(co[d])'
      <3>1. CASE d = c
        <4>1. BatchSound(Idle) /\ Len(Idle.batch) = 0
          BY <1>1, IdleIs, EmptySeq
        <4> QED
          BY <1>1, <1>2, <3>1, <4>1 DEF BatchSound
      <3> QED
        BY <1>3, <3>1
    <2>3. \A x \in Spots : Elems(Line'[x]) \cap cut' = {}
      BY <1>4, <1>10 DEF IInv, Accounted
    <2> QED
      BY <1>3, <2>1, <2>2, <2>3 DEF Accounted
  <1> QED
    BY <1>2, <1>8, <1>9, <1>11, <1>13 DEF IInv

(* The save fails: a flush puts its batch back in front of the queue. *)
LEMMA StoreFails ==
    ASSUME IInv, NEW c \in Coros, NEW todo \in Seq(Nat), NEW tail \in Seq(Nat), NEW n \in Nat,
           Inserted(c, todo, tail, n, Idle), backend # "memory", co[c].mode \in {"flush", "sync"},
           lock' = Unlock(c), alive' \subseteq alive, promised' = promised,
           torn' = torn \cup (Elems(co[c].batch) \cap (Stored \cup Elems(todo))),
           queue' = IF co[c].mode = "flush" THEN Requeue(c) ELSE queue
    PROVE  IInv'
  <1>1. Idle \in Frames /\ Idle.batch = <<>> /\ <<>> \in Seq(Nat) /\ Elems(<<>>) = {}
    BY IdleIs, EmptySeq, ElemsOf
  <1>2. /\ Stored' = Stored \cup Elems(todo)
        /\ co' \in [Coros -> Frames] /\ co'[c] = Idle
        /\ \A d \in Coros : d # c => co'[d].batch = co[d].batch
        /\ Tails' /\ Chained' /\ Pages'
    BY InsertedIdle
  <1>3. /\ \A d \in Coros : d # c => BatchSound(co[d])'
        /\ \A p \in Procs : Elems(queue[p]) \cap Stored' \subseteq torn
        /\ backend' = backend /\ pruned' = pruned
    BY <1>1, InsertedOthers
  <1>4. cut' = cut
    BY DEF Inserted
  <1>5. /\ queue \in [Procs -> Seq(Nat)] /\ Apart(Line) /\ Line \in [Spots -> Seq(Nat)]
        /\ \A x \in Spots : Elems(Line[x]) \subseteq 1..logged
        /\ Line[c] = co[c].batch /\ c \in Spots
    BY Basics, SpotsAre
  <1>6. PICK p \in Procs : p = Proc(c)
    BY SpotsAre
  <1>7. PICK batch \in Seq(Nat) : batch = co[c].batch
    BY <1>5
  <1>8. PICK more \in Seq(Nat) : /\ more = (IF co[c].mode = "flush" THEN batch \o queue[p] ELSE queue[p])
                                 /\ queue' = [queue EXCEPT ![p] = more]
    <2>1. queue[p] \in Seq(Nat) /\ batch \o queue[p] \in Seq(Nat)
      BY <1>5, ConcatProperties
    <2>2. CASE co[c].mode = "flush"
      BY <1>6, <1>7, <2>1, <2>2 DEF Requeue
    <2>3. CASE co[c].mode # "flush"
      <3>1. [queue EXCEPT ![p] = queue[p]] = queue
        BY <1>5
      <3> QED
        BY <2>1, <2>3, <3>1
    <2> QED
      BY <2>2, <2>3
  <1>9. queue' \in [Procs -> Seq(Nat)] /\ queue'[p] = more /\ \A q \in Procs : q # p => queue'[q] = queue[q]
    BY <1>5, <1>8
  <1>10. /\ Line' \in [Spots -> Seq(Nat)]
         /\ \A q \in Procs : Line'[Queue(q)] = queue'[q]
         /\ \A d \in Coros : Line'[d] = co'[d].batch
    BY <1>2, <1>9, LineIsNext
  <1> DEFINE w == Queue(p)
  <1>11. w \in Spots /\ c # w /\ Line[w] = queue[p] /\ Line'[w] = more /\ Line'[c] = <<>>
    BY <1>1, <1>2, <1>9, <1>10, SpotLines, SpotsAre
  <1>12. \A x \in Spots : x # c /\ x # w => Line'[x] = Line[x]
    <2>1. ASSUME NEW x \in Spots, x # c, x # w
          PROVE  Line'[x] = Line[x]
      <3>1. CASE x \in Coros
        BY <1>2, <1>10, <2>1, <3>1, Basics
      <3>2. ASSUME NEW q \in Procs, x = Queue(q)
            PROVE  Line'[x] = Line[x]
        BY <1>9, <1>10, <2>1, <3>2, Basics
      <3> QED
        BY <3>1, <3>2, SpotsAre
    <2> QED
      BY <2>1
  <1> HIDE DEF w
  <1>13. OnePlace'
    <2>1. CASE co[c].mode = "flush"
      <3>1. \A x \in Spots : Line'[x] = IF x = c THEN <<>> ELSE IF x = w THEN Line[c] \o Line[w] ELSE Line[x]
        BY <1>5, <1>7, <1>8, <1>11, <1>12, <2>1
      <3>2. Apart(Line')
        BY <1>5, <1>10, <1>11, <3>1, ApartJoined
      <3> QED
        BY <3>2 DEF OnePlace
    <2>2. CASE co[c].mode # "flush"
      <3>1. \A x \in Spots : Line'[x] = <<>> \/ Line'[x] = Line[x]
        BY <1>8, <1>11, <1>12, <2>2
      <3>2. Apart(Line')
        BY <1>5, <1>10, <3>1, ApartFewer
      <3> QED
        BY <3>2 DEF OnePlace
    <2> QED
      BY <2>1, <2>2
  <1>14. /\ co[c].mode = "flush" => Elems(more) = Elems(batch) \cup Elems(queue[p])
         /\ co[c].mode # "flush" => Elems(more) = Elems(queue[p])
    <2>1. Elems(batch \o queue[p]) = Elems(batch) \cup Elems(queue[p])
      BY <1>5, ElemsOf
    <2> QED
      BY <1>8, <2>1
  <1>15. Locked' /\ lock' \in [Procs -> Coros \cup {Free}]
    BY InsertedFree
  <1>16. \A x \in Spots : \A e \in Elems(Line'[x]) : \E y \in Spots : e \in Elems(Line[y])
    <2> SUFFICES ASSUME NEW x \in Spots, NEW e \in Elems(Line'[x])
                 PROVE  \E y \in Spots : e \in Elems(Line[y])
      OBVIOUS
    <2>1. CASE x = w
      <3>1. e \in Elems(batch) \/ e \in Elems(queue[p])
        BY <1>11, <1>14, <2>1
      <3> QED
        BY <1>5, <1>7, <1>11, <3>1
    <2>2. CASE x # w
      BY <1>1, <1>11, <1>12, <2>2
    <2> QED
      BY <2>1, <2>2
  <1>17. Typed'
    <2>1. \A x \in Spots : Elems(Line'[x]) \subseteq 1..logged
      BY <1>5, <1>16
    <2> QED
      BY <1>1, <1>9, <1>15, <2>1, InsertedTyped
  <1>18. Accounted'
    <2>1. ASSUME NEW e \in promised', e \notin Stored' \cup pruned' \cup cut'
          PROVE  \E x \in Spots : e \in Elems(Line'[x])
      <3>1. e \in promised /\ e \notin Stored \cup pruned \cup cut
        BY <1>2, <1>3, <1>4, <2>1
      <3>2. PICK x \in Spots : e \in Elems(Line[x])
        BY <3>1 DEF IInv, Accounted
      <3>3. CASE x = c
        <4>1. co[c].mode = "flush"
          <5>1. co[c].mode = "sync" => Elems(co[c].batch) \cap promised = {}
            BY DEF IInv, Accounted, BatchSound
          <5> QED
            BY <1>5, <3>1, <3>2, <3>3, <5>1
        <4> QED
          BY <1>5, <1>7, <1>11, <1>14, <3>2, <3>3, <4>1
      <3>4. CASE x = w
        BY <1>11, <1>14, <3>2, <3>4
      <3>5. CASE x # c /\ x # w
        BY <1>12, <3>2, <3>5
      <3> QED
        BY <3>3, <3>4, <3>5
    <2>2. ASSUME NEW d \in Coros
          PROVE  BatchSound(co[d])'
      <3>1. CASE d = c
        <4>1. BatchSound(Idle) /\ Len(Idle.batch) = 0
          BY <1>1, IdleIs, EmptySeq
        <4> QED
          BY <1>1, <1>2, <3>1, <4>1 DEF BatchSound
      <3> QED
        BY <1>3, <3>1
    <2>3. ASSUME NEW q \in Procs
          PROVE  Elems(queue'[q]) \cap Stored' \subseteq torn'
      <3>1. Elems(queue[q]) \cap Stored' \subseteq torn
        BY <1>3
      <3>2. Elems(batch) \cap Stored' \subseteq torn'
        BY <1>2, <1>7
      <3>3. CASE q = p
        BY <1>9, <1>14, <3>1, <3>2, <3>3
      <3>4. CASE q # p
        BY <1>9, <3>1, <3>4
      <3> QED
        BY <3>3, <3>4
    <2>4. \A x \in Spots : Elems(Line'[x]) \cap cut' = {}
      BY <1>4, <1>16 DEF IInv, Accounted
    <2> QED
      BY <1>3, <2>1, <2>2, <2>3, <2>4 DEF Accounted
  <1> QED
    BY <1>2, <1>13, <1>15, <1>17, <1>18 DEF IInv

(* One event is stored and the batch goes on. *)
LEMMA StoreGoesOn ==
    ASSUME IInv, NEW c \in Coros, NEW todo \in Seq(Nat), NEW tail \in Seq(Nat), NEW n \in Nat,
           NEW frame \in Frames, Inserted(c, todo, tail, n, frame), co[c].pc = "insert",
           frame.pc \in {"tail", "insert"}, frame.mode = co[c].mode, frame.batch = co[c].batch,
           frame.next = co[c].next + 1, co[c].batch[co[c].next] \in Elems(todo), backend # "memory",
           queue' = queue, alive' = alive, torn' = torn, promised' = promised, lock' = lock
    PROVE  IInv'
  <1>1. /\ Stored' = Stored \cup Elems(todo)
        /\ co' \in [Coros -> Frames] /\ co'[c] = frame
        /\ \A d \in Coros : d # c => co'[d].batch = co[d].batch /\ co'[d].pc = co[d].pc
        /\ Tails' /\ Chained' /\ Pages'
    BY InsertedKeeps
  <1>2. /\ \A d \in Coros : d # c => BatchSound(co[d])'
        /\ \A p \in Procs : Elems(queue[p]) \cap Stored' \subseteq torn
        /\ \A i \in 1..Len(co[c].batch) : i < co[c].next => co[c].batch[i] \in Stored' \cup pruned'
        /\ backend' = backend /\ pruned' = pruned
    BY InsertedOthers
  <1>3. cut' = cut
    BY DEF Inserted
  <1>4. Line' = Line
    <2>1. /\ queue \in [Procs -> Seq(Nat)] /\ Line \in [Spots -> Seq(Nat)]
          /\ \A p \in Procs : Line[Queue(p)] = queue[p]
          /\ \A d \in Coros : Line[d] = co[d].batch
      BY Basics
    <2>2. /\ Line' \in [Spots -> Seq(Nat)]
          /\ \A p \in Procs : Line'[Queue(p)] = queue'[p]
          /\ \A d \in Coros : Line'[d] = co'[d].batch
      BY <1>1, <2>1, LineIsNext
    <2>3. ASSUME NEW x \in Spots
          PROVE  Line'[x] = Line[x]
      <3>1. CASE x \in Coros
        BY <1>1, <2>1, <2>2, <3>1
      <3>2. ASSUME NEW p \in Procs, x = Queue(p)
            PROVE  Line'[x] = Line[x]
        BY <2>1, <2>2, <3>2
      <3> QED
        BY <3>1, <3>2, SpotsAre
    <2> QED
      BY <2>1, <2>2, <2>3
  <1>5. OnePlace'
    BY <1>4 DEF OnePlace, IInv
  <1>6. Locked' /\ lock' \in [Procs -> Coros \cup {Free}]
    BY <1>1 DEF IInv, Typed, Locked
  <1>7. Typed'
    <2>1. /\ queue' \in [Procs -> Seq(Nat)] /\ \A x \in Spots : Elems(Line'[x]) \subseteq 1..logged
      BY <1>4, Basics
    <2> QED
      BY <1>6, <2>1, InsertedTyped
  <1>8. BatchSound(co[c])'
    <2>1. /\ co[c].mode = "sync" => Elems(co[c].batch) \cap promised = {}
          /\ co[c].next \in Nat
      BY Basics DEF IInv, Accounted, BatchSound, Frames
    <2>2. ASSUME NEW i \in 1..Len(co[c].batch), i < co[c].next + 1
          PROVE  co[c].batch[i] \in Stored' \cup pruned'
      <3>1. i < co[c].next \/ i = co[c].next
        BY <2>1, <2>2
      <3> QED
        BY <1>1, <1>2, <3>1
    <2> QED
      BY <1>1, <1>2, <2>1, <2>2 DEF BatchSound
  <1>9. Accounted'
    <2>1. ASSUME NEW e \in promised', e \notin Stored' \cup pruned' \cup cut'
          PROVE  \E x \in Spots : e \in Elems(Line'[x])
      BY <1>1, <1>2, <1>3, <1>4, <2>1 DEF IInv, Accounted
    <2>2. \A x \in Spots : Elems(Line'[x]) \cap cut' = {}
      BY <1>3, <1>4 DEF IInv, Accounted
    <2>3. \A d \in Coros : BatchSound(co[d])'
      BY <1>2, <1>8
    <2> QED
      BY <1>2, <2>1, <2>2, <2>3 DEF Accounted
  <1> QED
    BY <1>1, <1>5, <1>6, <1>7, <1>9 DEF IInv

LEMMA RowEvents ==
    ASSUME NEW todo \in Seq(Nat), NEW tail \in Seq(Nat), NEW n \in Nat
    PROVE  /\ {r.event : r \in Elems(LinkedRows(todo, tail, n))} = Elems(todo)
           /\ LinkedRows(todo, tail, n) = <<>> <=> todo = <<>>
  <1> DEFINE rows == LinkedRows(todo, tail, n)
  <1>1. /\ rows \in Seq(Rows) /\ Len(rows) = Len(todo)
        /\ \A i \in 1..Len(todo) : rows[i].event = todo[i]
    BY LinkedRowsSound
  <1> HIDE DEF rows
  <1>2. rows = <<>> <=> todo = <<>>
    BY <1>1, EmptySeq
  <1>3. {r.event : r \in Elems(rows)} = Elems(todo)
    BY <1>1 DEF Elems
  <1> QED
    BY <1>2, <1>3 DEF rows

(* The holder of the lock is the only one of its process that stores. *)
LEMMA HolderAlone ==
    ASSUME IInv, NEW c \in Coros, co[c].pc \in {"tail", "insert"} \/ backend = "memory"
    PROVE  \A d \in Coros : d # c /\ Proc(d) = Proc(c) => co[d].pc \notin {"tail", "insert"}
  <1>1. CASE backend = "memory"
    BY <1>1, Basics DEF Shape
  <1>2. CASE co[c].pc \in {"tail", "insert"}
    BY <1>2 DEF IInv, Locked
  <1> QED
    BY <1>1, <1>2

(* What a save leaves alone. *)
Beside ==
    /\ backend' = backend /\ logged' = logged /\ up' = up /\ reader' = reader /\ pruned' = pruned
    /\ cut' = cut /\ cutoff' = cutoff /\ faults' \in Nat

(* todo is what the statement under way inserts behind tail. *)
ToStore(c, todo, tail, n) ==
    /\ todo = IF backend = "sql" THEN co[c].batch ELSE <<co[c].batch[co[c].next]>>
    /\ tail = co[c].tail /\ n = Len(tail)

LEMMA NextIs ==
    ASSUME IInv, NEW c \in Coros, co[c].pc = "insert",
           NEW todo, NEW tail, NEW n, ToStore(c, todo, tail, n)
    PROVE  /\ todo \in Seq(Nat) /\ tail \in Seq(Nat) /\ n \in Nat /\ todo # <<>>
           /\ NextRows(c) = LinkedRows(todo, tail, n)
           /\ Elems(todo) \subseteq Elems(co[c].batch)
           /\ \A i, j \in 1..Len(todo) : i < j => todo[i] # todo[j]
           /\ tail = Genesis \/ tail[Len(tail)] \in Stored \cup pruned
           /\ co[c].stale \/ \A i \in 1..Len(chain) : chain[i].seq <= n
           /\ co[c].next \in 1..Len(co[c].batch) /\ co[c].batch[co[c].next] \in Elems(todo)
           /\ backend = "sql" => co[c].next = 1
           /\ backend # "memory" /\ co[c].mode \in {"flush", "sync"}
           /\ backend # "sql" => Len(todo) = 1
  <1>1. /\ co[c] \in Frames /\ Shape(co[c]) /\ TailSound(co[c]) /\ Apart(Line) /\ DOMAIN Line = Spots
        /\ Line[c] = co[c].batch /\ c \in Spots
    BY Basics, SpotsAre DEF IInv, Tails
  <1>2. /\ co[c].next \in 1..Len(co[c].batch) /\ backend # "memory" /\ co[c].mode \in {"flush", "sync"}
        /\ backend = "sql" => co[c].next = 1
    BY <1>1 DEF Shape
  <1>3. co[c].tail \in Seq(Nat) /\ co[c].batch \in Seq(Nat)
    BY <1>1 DEF Frames
  <1>4. tail \in Seq(Nat) /\ n \in Nat /\ n = Len(tail)
    BY <1>3, LenProperties DEF ToStore
  <1>5. NextRows(c) = LinkedRows(todo, tail, n)
    BY DEF NextRows, ToStore
  <1>6. /\ tail = Genesis \/ tail[Len(tail)] \in Stored \cup pruned
        /\ co[c].stale \/ \A i \in 1..Len(chain) : chain[i].seq <= n
    BY <1>1 DEF TailSound, ToStore
  <1>7. PICK e \in Nat : e = co[c].batch[co[c].next]
    BY <1>2, <1>3, ElementOfSeq
  <1>8. e \in Elems(co[c].batch)
    BY <1>2, <1>7 DEF Elems
  <1>9. CASE backend = "sql"
    <2>1. todo = co[c].batch
      BY <1>9 DEF ToStore
    <2>2. \A i, j \in 1..Len(todo) : i < j => todo[i] # todo[j]
      <3>1. \A i, j \in 1..Len(Line[c]) : Line[c][i] = Line[c][j] => i = j
        BY <1>1 DEF Apart
      <3>2. \A i, j \in 1..Len(todo) : todo[i] = todo[j] => i = j
        BY <1>1, <2>1, <3>1
      <3> QED
        BY <3>2
    <2>3. todo # <<>>
      BY <1>2, <2>1, EmptySeq
    <2> QED
      BY <1>2, <1>3, <1>4, <1>5, <1>6, <1>7, <1>8, <1>9, <2>1, <2>2, <2>3
  <1>10. CASE backend # "sql"
    <2>1. todo = <<e>>
      BY <1>7, <1>10 DEF ToStore
    <2>2. /\ todo \in Seq(Nat) /\ Len(todo) = 1 /\ todo # <<>> /\ Elems(todo) = {e}
      <3>1. todo = Append(<<>>, e) /\ <<>> \in Seq(Nat)
        BY <2>1, EmptySeq
      <3>2. Elems(todo) = Elems(<<>>) \cup {e} /\ Elems(<<>>) = {}
        BY <3>1, ElemsOf
      <3>3. todo \in Seq(Nat) /\ Len(todo) = 1 /\ todo # <<>>
        BY <2>1
      <3> QED
        BY <3>2, <3>3
    <2>3. \A i, j \in 1..Len(todo) : i < j => todo[i] # todo[j]
      BY <2>2
    <2> QED
      BY <1>2, <1>3, <1>4, <1>5, <1>6, <1>7, <1>8, <1>10, <2>2, <2>3
  <1> QED
    BY <1>9, <1>10

LEMMA RowFields ==
    ASSUME NEW batch \in Seq(Nat), NEW prev \in Seq(Nat), NEW n \in Nat
    PROVE  /\ Len(LinkedRows(batch, prev, n)) = Len(batch)
           /\ \A i \in 1..Len(batch) : /\ LinkedRows(batch, prev, n)[i].event = batch[i]
                                       /\ LinkedRows(batch, prev, n)[i].seq = n + i
  BY LinkedRowsSound

LEMMA NextGoesOn ==
    ASSUME IInv, NEW c \in Coros, co[c].pc = "insert",
           NEW todo, NEW tail, NEW n, ToStore(c, todo, tail, n)
    PROVE  /\ todo \in Seq(Nat) /\ tail \in Seq(Nat) /\ n \in Nat /\ n = Len(tail)
           /\ NextRows(c) = LinkedRows(todo, tail, n)
           /\ \A i, j \in 1..Len(todo) : i < j => todo[i] # todo[j]
           /\ tail = Genesis \/ tail[Len(tail)] \in Stored \cup pruned
           /\ co[c].stale \/ \A i \in 1..Len(chain) : chain[i].seq <= n
           /\ backend # "memory"
  <1>1. n = Len(tail)
    BY DEF ToStore
  <1>2. \A i, j \in 1..Len(todo) : i < j => todo[i] # todo[j]
    BY NextIs
  <1>3. co[c].stale \/ \A i \in 1..Len(chain) : chain[i].seq <= n
    BY NextIs
  <1>4. /\ todo \in Seq(Nat) /\ tail \in Seq(Nat) /\ n \in Nat
        /\ NextRows(c) = LinkedRows(todo, tail, n)
        /\ tail = Genesis \/ tail[Len(tail)] \in Stored \cup pruned
        /\ backend # "memory"
    BY NextIs
  <1> QED
    BY <1>1, <1>2, <1>3, <1>4

(* Without a conflict the rows fit behind the tail. *)
LEMMA NextBehind ==
    ASSUME IInv, NEW c \in Coros, co[c].pc = "insert", ~Conflict(c), Beside,
           NEW todo, NEW tail, NEW n, ToStore(c, todo, tail, n),
           NEW frame, Insert(c, NextRows(c), frame)
    PROVE  StoredBehind(todo, tail, n)
  <1>1. /\ todo \in Seq(Nat) /\ tail \in Seq(Nat) /\ n \in Nat /\ n = Len(tail)
        /\ NextRows(c) = LinkedRows(todo, tail, n)
        /\ \A i, j \in 1..Len(todo) : i < j => todo[i] # todo[j]
        /\ tail = Genesis \/ tail[Len(tail)] \in Stored \cup pruned
        /\ co[c].stale \/ \A i \in 1..Len(chain) : chain[i].seq <= n
        /\ backend # "memory"
    BY NextGoesOn
  <1>2. /\ chain' = chain \o NextRows(c)
        /\ raced' = IF co[c].stale THEN raced \cup {r.event : r \in Elems(NextRows(c))} ELSE raced
    BY DEF Insert
  <1>3. {r.event : r \in Elems(NextRows(c))} = Elems(todo)
    BY <1>1, RowEvents
  <1>4. \A i \in 1..Len(todo) : /\ NextRows(c)[i] \in Elems(NextRows(c))
                                /\ NextRows(c)[i].event = todo[i] /\ NextRows(c)[i].seq = n + i
    <2>1. todo \in Seq(Nat) /\ tail \in Seq(Nat) /\ n \in Nat
      BY <1>1
    <2>2. /\ Len(LinkedRows(todo, tail, n)) = Len(todo)
          /\ \A i \in 1..Len(todo) : /\ LinkedRows(todo, tail, n)[i].event = todo[i]
                                     /\ LinkedRows(todo, tail, n)[i].seq = n + i
      BY <2>1, RowFields
    <2>3. NextRows(c) = LinkedRows(todo, tail, n)
      BY <1>1
    <2> QED
      BY <2>2, <2>3 DEF Elems
  <1>5. \A r \in Elems(NextRows(c)) : r.event \notin Stored /\ (backend = "dynamodb" \/ r.seq \notin Seqs)
    BY DEF Conflict
  <1>6. \A i \in 1..Len(todo) : todo[i] \notin Stored
    BY <1>4, <1>5
  <1>7. ASSUME NEW i \in 1..Len(chain), NEW j \in 1..Len(todo), chain[i].seq = n + j
        PROVE  backend = "dynamodb" /\ todo[j] \in raced'
    <2>1. chain[i].seq \in Seqs
      BY DEF Seqs
    <2>2. backend = "dynamodb"
      BY <1>4, <1>5, <1>7, <2>1
    <2>3. ~(n + j <= n)
      BY <1>1
    <2>4. co[c].stale
      BY <1>1, <1>7, <2>3
    <2>5. todo[j] \in Elems(todo)
      BY DEF Elems
    <2> QED
      BY <1>2, <1>3, <2>2, <2>4, <2>5
  <1>8. backend' = backend /\ pruned' = pruned
    BY DEF Beside
  <1> QED
    BY <1>1, <1>2, <1>6, <1>7, <1>8 DEF StoredBehind

LEMMA NextInserted ==
    ASSUME IInv, NEW c \in Coros, co[c].pc = "insert", ~Conflict(c), Beside,
           NEW todo, NEW tail, NEW n, ToStore(c, todo, tail, n),
           NEW frame, Insert(c, NextRows(c), frame),
           Shape(frame), frame.list = {}, TailSound(frame)'
    PROVE  Inserted(c, todo, tail, n, frame)
  <1>1. StoredBehind(todo, tail, n)
    BY NextBehind
  <1>2. /\ todo \in Seq(Nat) /\ tail \in Seq(Nat) /\ n \in Nat
        /\ NextRows(c) = LinkedRows(todo, tail, n)
        /\ Elems(todo) \subseteq Elems(co[c].batch)
    BY NextIs
  <1>3. NextRows(c) = <<>> <=> todo = <<>>
    BY <1>2, RowEvents
  <1>4. co' = [d \in Coros |-> IF d = c THEN frame
                               ELSE IF todo # <<>> /\ At(d, "insert") /\ Proc(d) # Proc(c)
                                    THEN [co[d] EXCEPT !.stale = TRUE] ELSE co[d]]
    BY <1>3 DEF Insert
  <1>5. \A d \in Coros : d # c /\ Proc(d) = Proc(c) => co[d].pc \notin {"tail", "insert"}
    BY HolderAlone
  <1> QED
    BY <1>1, <1>2, <1>4, <1>5 DEF Inserted, Beside

LEMMA NothingInserted ==
    ASSUME IInv, NEW c \in Coros, co[c].pc \in {"tail", "insert"}, backend # "memory", Beside,
           Insert(c, <<>>, Idle)
    PROVE  Inserted(c, <<>>, <<>>, 0, Idle)
  <1>1. <<>> \in Seq(Nat) /\ Len(<<>>) = 0 /\ Elems(<<>>) = {}
    BY EmptySeq, ElemsOf
  <1>2. LinkedRows(<<>>, <<>>, 0) = <<>>
    BY <1>1, RowEvents
  <1>3. /\ chain' = chain \o <<>>
        /\ raced \subseteq raced'
        /\ co' = [d \in Coros |-> IF d = c THEN Idle
                                  ELSE IF <<>> # <<>> /\ At(d, "insert") /\ Proc(d) # Proc(c)
                                       THEN [co[d] EXCEPT !.stale = TRUE] ELSE co[d]]
    BY DEF Insert
  <1>4. StoredBehind(<<>>, <<>>, 0)
    <2>1. PICK none : none = <<>>
      OBVIOUS
    <2>2. /\ chain' = chain \o LinkedRows(none, none, 0) /\ raced \subseteq raced'
          /\ backend' = backend /\ pruned' = pruned /\ backend # "memory"
      BY <1>2, <1>3, <2>1 DEF Beside
    <2>3. 1..Len(none) = {} /\ none = Genesis /\ Len(none) = 0
      BY <1>1, <2>1 DEF Genesis
    <2>4. StoredBehind(none, none, 0)
      BY <2>2, <2>3 DEF StoredBehind
    <2> QED
      BY <2>1, <2>4
  <1>5. Shape(Idle) /\ Idle.list = {} /\ TailSound(Idle)'
    BY IdleIs DEF TailSound
  <1>6. \A d \in Coros : d # c /\ Proc(d) = Proc(c) => co[d].pc \notin {"tail", "insert"}
    BY HolderAlone
  <1> QED
    BY <1>1, <1>3, <1>4, <1>5, <1>6 DEF Inserted, Beside

(* The insert failed, with or without its rows in the table. *)
LEMMA RaiseStep ==
    ASSUME IInv, NEW c \in Coros, Beside,
           \/ co[c].pc \in {"tail", "insert"} /\ Raise(c, <<>>)
           \/ co[c].pc = "insert" /\ ~Conflict(c) /\ Raise(c, NextRows(c))
    PROVE  IInv'
  <1>1. Shape(co[c])
    BY Basics
  <1>2. backend # "memory" /\ co[c].mode \in {"flush", "sync"}
    BY <1>1 DEF Shape
  <1>3. /\ lock' = Unlock(c) /\ promised' = promised
        /\ queue' = (IF co[c].mode = "flush" THEN Requeue(c) ELSE queue)
        /\ alive' \subseteq alive
    BY DEF Raise
  <1>4. CASE co[c].pc \in {"tail", "insert"} /\ Raise(c, <<>>)
    <2>1. Insert(c, <<>>, Idle) /\ <<>> \in Seq(Nat) /\ 0 \in Nat
      BY <1>4, EmptySeq DEF Raise
    <2>2. Inserted(c, <<>>, <<>>, 0, Idle)
      BY <1>2, <1>4, <2>1, NothingInserted
    <2>3. torn' = torn \cup (Elems(co[c].batch) \cap (Stored \cup Elems(<<>>)))
      <3>1. {r.event : r \in Elems(<<>>)} = Elems(<<>>)
        BY ElemsOf
      <3> QED
        BY <1>4, <3>1 DEF Raise
    <2> QED
      BY <1>2, <1>3, <2>1, <2>2, <2>3, StoreFails
  <1>5. CASE co[c].pc = "insert" /\ ~Conflict(c) /\ Raise(c, NextRows(c))
    <2>1. PICK todo : todo = IF backend = "sql" THEN co[c].batch ELSE <<co[c].batch[co[c].next]>>
      OBVIOUS
    <2>2. PICK tail : tail = co[c].tail
      OBVIOUS
    <2>3. PICK n : n = Len(tail)
      OBVIOUS
    <2>4. ToStore(c, todo, tail, n)
      BY <2>1, <2>2, <2>3 DEF ToStore
    <2>5. /\ todo \in Seq(Nat) /\ tail \in Seq(Nat) /\ n \in Nat
          /\ NextRows(c) = LinkedRows(todo, tail, n)
      BY <1>5, <2>4, NextIs
    <2>6. Insert(c, NextRows(c), Idle)
      BY <1>5 DEF Raise
    <2>7. Shape(Idle) /\ Idle.list = {} /\ TailSound(Idle)'
      BY IdleIs DEF TailSound
    <2>8. Inserted(c, todo, tail, n, Idle)
      BY <1>5, <2>4, <2>6, <2>7, NextInserted
    <2>9. {r.event : r \in Elems(NextRows(c))} = Elems(todo)
      BY <2>5, RowEvents
    <2>10. torn' = torn \cup (Elems(co[c].batch) \cap (Stored \cup Elems(todo)))
      BY <1>5, <2>9 DEF Raise
    <2> QED
      BY <1>2, <1>3, <2>5, <2>8, <2>10, StoreFails
  <1> QED
    BY <1>4, <1>5

LEMMA MemorySaveStep ==
    ASSUME IInv, NEW c \in Coros, MemorySave(c)
    PROVE  IInv'
  <1>1. /\ backend = "memory" /\ co[c].pc = "lock" /\ Beside
        /\ lock' = Unlock(c) /\ promised' = promised \cup Elems(co[c].batch)
        /\ queue' = queue /\ alive' = alive /\ torn' = torn
    <2>1. faults \in Nat
      BY DEF IInv, Typed
    <2> QED
      BY <2>1 DEF MemorySave, At, Done, Beside, bounds
  <1>2. PICK batch : batch = co[c].batch
    OBVIOUS
  <1>3. PICK tail : tail = IF chain = <<>> THEN Genesis ELSE Sum(chain[Len(chain)])
    OBVIOUS
  <1>4. PICK n : n = Len(chain)
    OBVIOUS
  <1>5. /\ chain \in Seq(Rows) /\ co \in [Coros -> Frames] /\ Apart(Line) /\ DOMAIN Line = Spots
        /\ Line[c] = co[c].batch /\ c \in Spots /\ Shape(co[c]) /\ BatchSound(co[c])
    BY Basics, SpotsAre DEF IInv, Accounted
  <1>6. batch \in Seq(Nat) /\ n \in Nat /\ n = Len(chain)
    BY <1>2, <1>4, <1>5, LenProperties DEF Frames
  <1>7. /\ tail \in Seq(Nat)
        /\ tail = Genesis \/ tail[Len(tail)] \in Stored
    <2>1. CASE chain = <<>>
      BY <1>3, <2>1, EmptySeq DEF Genesis
    <2>2. CASE chain # <<>>
      <3>1. PICK k \in 1..Len(chain) : k = Len(chain)
        BY <1>5, <2>2, EmptySeq
      <3>2. /\ chain[k].prev \in Seq(Nat) /\ chain[k].event \in Nat /\ chain[k].event \in Stored
        <4>1. chain[k] \in Rows
          BY <1>5, ElementOfSeq
        <4> QED
          BY <4>1 DEF Rows, Stored
      <3>3. tail = Append(chain[k].prev, chain[k].event)
        BY <1>3, <2>2, <3>1 DEF Sum
      <3> QED
        BY <3>2, <3>3, LastOfAppend
    <2> QED
      BY <2>1, <2>2
  <1>8. /\ Insert(c, LinkedRows(batch, tail, n), Idle)
    <2>1. chain # <<>> => Last(chain) = chain[Len(chain)]
      BY DEF Last
    <2> QED
      BY <1>2, <1>3, <1>4, <2>1 DEF MemorySave, Done
  <1>9. StoredBehind(batch, tail, n)
    <2>1. \A i, j \in 1..Len(batch) : i < j => batch[i] # batch[j]
      <3>1. \A i, j \in 1..Len(Line[c]) : Line[c][i] = Line[c][j] => i = j
        BY <1>5 DEF Apart
      <3>2. \A i, j \in 1..Len(batch) : batch[i] = batch[j] => i = j
        BY <1>2, <1>5, <3>1
      <3> QED
        BY <3>2
    <2>2. \A i \in 1..Len(batch) : batch[i] \notin Stored
      BY <1>1, <1>2, <1>5 DEF BatchSound, Elems
    <2>3. chain' = chain \o LinkedRows(batch, tail, n) /\ raced \subseteq raced'
      BY <1>8 DEF Insert
    <2>4. backend' = backend /\ pruned' = pruned
      BY <1>1 DEF Beside
    <2> QED
      BY <1>1, <1>3, <1>4, <1>7, <2>1, <2>2, <2>3, <2>4 DEF StoredBehind
  <1>10. Inserted(c, batch, tail, n, Idle)
    <2>1. LinkedRows(batch, tail, n) = <<>> <=> batch = <<>>
      BY <1>6, <1>7, RowEvents
    <2>2. co' = [d \in Coros |-> IF d = c THEN Idle
                                 ELSE IF batch # <<>> /\ At(d, "insert") /\ Proc(d) # Proc(c)
                                      THEN [co[d] EXCEPT !.stale = TRUE] ELSE co[d]]
      BY <1>8, <2>1 DEF Insert
    <2>3. \A d \in Coros : d # c /\ Proc(d) = Proc(c) => co[d].pc \notin {"tail", "insert"}
      BY <1>1, HolderAlone
    <2>4. Shape(Idle) /\ Idle.list = {} /\ TailSound(Idle)'
      BY IdleIs DEF TailSound
    <2> QED
      BY <1>1, <1>2, <1>9, <2>2, <2>3, <2>4 DEF Inserted, Beside
  <1>11. \A i \in 1..Len(co[c].batch) : i < co[c].next \/ co[c].batch[i] \in Elems(batch)
    BY <1>2 DEF Elems
  <1> QED
    BY <1>1, <1>6, <1>7, <1>10, <1>11, StoreEnds

(* Nothing conflicts: the rows of the statement are inserted and the batch ends. *)
LEMMA EndsStep ==
    ASSUME IInv, NEW c \in Coros, co[c].pc = "insert", ~Conflict(c), Beside,
           backend = "sql" \/ co[c].next = Len(co[c].batch), Done(c, NextRows(c))
    PROVE  IInv'
  <1>1. PICK todo : todo = IF backend = "sql" THEN co[c].batch ELSE <<co[c].batch[co[c].next]>>
    OBVIOUS
  <1>2. PICK tail : tail = co[c].tail
    OBVIOUS
  <1>3. PICK n : n = Len(tail)
    OBVIOUS
  <1>4. ToStore(c, todo, tail, n)
    BY <1>1, <1>2, <1>3 DEF ToStore
  <1>5. /\ todo \in Seq(Nat) /\ tail \in Seq(Nat) /\ n \in Nat
        /\ co[c].next \in 1..Len(co[c].batch) /\ co[c].batch[co[c].next] \in Elems(todo)
    BY <1>4, NextIs
  <1>6. /\ Insert(c, NextRows(c), Idle) /\ lock' = Unlock(c)
        /\ promised' = promised \cup Elems(co[c].batch)
        /\ queue' = queue /\ alive' = alive /\ torn' = torn
    BY DEF Done
  <1>7. Shape(Idle) /\ Idle.list = {} /\ TailSound(Idle)'
    BY IdleIs DEF TailSound
  <1>8. Inserted(c, todo, tail, n, Idle)
    BY <1>4, <1>6, <1>7, NextInserted
  <1>9. \A i \in 1..Len(co[c].batch) : i < co[c].next \/ co[c].batch[i] \in Elems(todo)
    <2>1. CASE backend = "sql"
      BY <1>1, <2>1 DEF Elems
    <2>2. CASE co[c].next = Len(co[c].batch)
      <3>1. \A i \in 1..Len(co[c].batch) : i < co[c].next \/ i = co[c].next
        BY <1>5, <2>2
      <3> QED
        BY <1>5, <3>1
    <2> QED
      BY <2>1, <2>2
  <1> QED
    BY <1>5, <1>6, <1>8, <1>9, StoreEnds

LEMMA BehindIs ==
    ASSUME chain \in Seq(Rows), NEW todo \in Seq(Nat), NEW tail \in Seq(Nat), NEW n \in Nat,
           StoredBehind(todo, tail, n)
    PROVE  /\ Len(chain) \in Nat /\ Len(chain') = Len(chain) + Len(todo)
           /\ \A i \in 1..Len(chain) : chain'[i] = chain[i]
           /\ \A i \in 1..Len(todo) : chain'[Len(chain) + i].seq = n + i
           /\ Stored' = Stored \cup Elems(todo)
  <1>1. /\ chain' \in Seq(Rows) /\ Len(chain) \in Nat /\ Len(todo) \in Nat
        /\ Len(chain') = Len(chain) + Len(todo)
        /\ \A i \in 1..Len(chain) : chain'[i] = chain[i]
        /\ \A i \in 1..Len(todo) :
              /\ chain'[Len(chain) + i] = LinkedRows(todo, tail, n)[i]
              /\ chain'[Len(chain) + i].event = todo[i]
              /\ chain'[Len(chain) + i].seq = n + i
              /\ Len(chain'[Len(chain) + i].prev) = Len(tail) + i - 1
              /\ chain'[Len(chain) + i].prev
                    = IF i = 1 THEN tail ELSE Append(chain'[Len(chain) + i - 1].prev, todo[i - 1])
        /\ \A k \in 1..Len(chain') : k \in 1..Len(chain) \/ k - Len(chain) \in 1..Len(todo)
        /\ Stored' = Stored \cup Elems(todo)
    BY AppendRows DEF StoredBehind
  <1> QED
    BY <1>1

(* One event is in, and the batch goes on at pc. *)
Onward(c, pc) == [co[c] EXCEPT !.pc = pc, !.next = @ + 1, !.tail = Sum(NextRows(c)[1])]

LEMMA GoesOnStep ==
    ASSUME IInv, NEW c \in Coros, co[c].pc = "insert", ~Conflict(c), Beside, NEW pc,
           \/ backend = "mongodb" /\ pc = "tail"
           \/ backend = "dynamodb" /\ pc = "insert",
           co[c].next # Len(co[c].batch),
           Insert(c, NextRows(c), Onward(c, pc)),
           UNCHANGED <<lock, queue, alive, torn, promised>>
    PROVE  IInv'
  <1>1. PICK todo : todo = IF backend = "sql" THEN co[c].batch ELSE <<co[c].batch[co[c].next]>>
    OBVIOUS
  <1>2. PICK tail : tail = co[c].tail
    OBVIOUS
  <1>3. PICK n : n = Len(tail)
    OBVIOUS
  <1>4. ToStore(c, todo, tail, n)
    BY <1>1, <1>2, <1>3 DEF ToStore
  <1>5. /\ todo \in Seq(Nat) /\ tail \in Seq(Nat) /\ n \in Nat /\ Len(todo) = 1
        /\ co[c].next \in 1..Len(co[c].batch) /\ co[c].batch[co[c].next] \in Elems(todo)
        /\ NextRows(c) = LinkedRows(todo, tail, n)
        /\ co[c].stale \/ \A i \in 1..Len(chain) : chain[i].seq <= n
    BY <1>4, NextIs
  <1>6. StoredBehind(todo, tail, n)
    BY <1>4, NextBehind
  <1>7. PICK e \in Nat : e = todo[1]
    <2>1. 1 \in 1..Len(todo)
      BY <1>5
    <2> QED
      BY <1>5, <2>1, ElementOfSeq
  <1>8. PICK more \in Seq(Nat) : more = Sum(NextRows(c)[1]) /\ more # <<>> /\ Len(more) = n + 1
                                 /\ more[Len(more)] = e
    <2>1. NextRows(c)[1].event = e /\ NextRows(c)[1].prev = tail
      <3>1. 1 \in 1..Len(todo)
        BY <1>5
      <3> QED
        <4>1. /\ LinkedRows(todo, tail, n)[1].event = todo[1]
              /\ LinkedRows(todo, tail, n)[1].prev = tail
          <5>1. todo \in Seq(Nat) /\ tail \in Seq(Nat) /\ n \in Nat
            BY <1>5
          <5>2. \A i \in 1..Len(todo) :
                    /\ LinkedRows(todo, tail, n)[i].event = todo[i]
                    /\ LinkedRows(todo, tail, n)[i].prev
                          = IF i = 1 THEN tail
                            ELSE Append(LinkedRows(todo, tail, n)[i - 1].prev, todo[i - 1])
            BY <5>1, LinkedRowsSound
          <5> QED
            BY <3>1, <5>2
        <4> QED
          BY <1>5, <1>7, <4>1
    <2>2. Sum(NextRows(c)[1]) = Append(tail, e)
      BY <2>1 DEF Sum
    <2> QED
      BY <1>3, <1>5, <2>2, LastOfAppend
  <1>9. PICK f : f = Onward(c, pc)
    OBVIOUS
  <1>10. co[c] \in Frames /\ Shape(co[c]) /\ chain \in Seq(Rows)
    BY Basics
  <1>11. pc \in {"tail", "insert"} /\ pc \in Steps /\ backend # "sql" /\ backend # "memory"
    BY DEF Steps
  <1>12. /\ f \in Frames /\ f.pc = pc /\ f.next = co[c].next + 1 /\ f.tail = more
         /\ f.mode = co[c].mode /\ f.batch = co[c].batch /\ f.list = co[c].list /\ f.stale = co[c].stale
    <2>1. f = [co[c] EXCEPT !.pc = pc, !.next = @ + 1, !.tail = more]
      BY <1>8, <1>9 DEF Onward
    <2>2. co[c].next + 1 \in Nat
      BY <1>10 DEF Frames
    <2> QED
      BY <1>8, <1>10, <1>11, <2>1, <2>2 DEF Frames
  <1>13. Shape(f) /\ f.list = {}
    <2>1. /\ co[c].mode \in {"flush", "sync"} /\ co[c].list = {} /\ co[c].next \in 1..Len(co[c].batch)
      BY <1>10 DEF Shape
    <2>2. co[c].next + 1 \in 1..Len(co[c].batch)
      <3>1. Len(co[c].batch) \in Nat
        BY <1>10, LenProperties DEF Frames
      <3> QED
        BY <2>1, <3>1
    <2> QED
      BY <1>11, <1>12, <2>1, <2>2 DEF Shape
  <1>14. TailSound(f)'
    <2>1. /\ Len(chain) \in Nat /\ Len(chain') = Len(chain) + 1
          /\ \A i \in 1..Len(chain) : chain'[i] = chain[i]
          /\ chain'[Len(chain) + 1].seq = n + 1
          /\ Stored' = Stored \cup Elems(todo)
      <3>2. 1 \in 1..Len(todo)
        BY <1>5
      <3>3. /\ Len(chain) \in Nat /\ Len(chain') = Len(chain) + Len(todo)
            /\ \A i \in 1..Len(chain) : chain'[i] = chain[i]
            /\ \A i \in 1..Len(todo) : chain'[Len(chain) + i].seq = n + i
            /\ Stored' = Stored \cup Elems(todo)
        BY <1>5, <1>6, <1>10, BehindIs
      <3> QED
        BY <1>5, <3>2, <3>3
    <2>2. e \in Stored'
      <3>1. e \in Elems(todo)
        BY <1>5, <1>7 DEF Elems
      <3> QED
        BY <2>1, <3>1
    <2>3. f.stale \/ \A i \in 1..Len(chain') : chain'[i].seq <= n + 1
      <3> SUFFICES ASSUME ~f.stale, NEW i \in 1..Len(chain')
                   PROVE  chain'[i].seq <= n + 1
        OBVIOUS
      <3>1. CASE i \in 1..Len(chain)
        <4>1. chain[i].seq <= n /\ chain'[i] = chain[i]
          BY <1>5, <1>12, <2>1, <3>1
        <4>2. chain[i].seq \in Nat
          <5>1. chain[i] \in Rows
            BY <1>10, <3>1, ElementOfSeq
          <5> QED
            BY <5>1 DEF Rows
        <4> QED
          BY <1>5, <4>1, <4>2
      <3>2. CASE i \notin 1..Len(chain)
        <4>1. i = Len(chain) + 1
          BY <2>1, <3>2
        <4> QED
          BY <1>5, <2>1, <4>1
      <3> QED
        BY <3>1, <3>2
    <2>4. f.tail[Len(f.tail)] = e /\ Len(f.tail) = n + 1
      BY <1>8, <1>12
    <2> QED
      BY <2>2, <2>3, <2>4 DEF TailSound
  <1>15. Inserted(c, todo, tail, n, f)
    BY <1>4, <1>9, <1>13, <1>14, NextInserted
  <1> QED
    BY <1>5, <1>11, <1>12, <1>15, StoreGoesOn

LEMMA SaveStep ==
    ASSUME IInv, NEW c \in Coros, SqlSave(c) \/ MongoSave(c) \/ DynamoSave(c)
    PROVE  IInv'
  <1>1. co[c].pc = "insert" /\ Beside
    <2>1. faults \in Nat
      BY DEF IInv, Typed
    <2> QED
      BY <2>1 DEF SqlSave, MongoSave, DynamoSave, At, Beside, bounds
  <1>2. CASE Conflict(c)
    <2>1. Raise(c, <<>>)
      BY <1>2 DEF SqlSave, MongoSave, DynamoSave
    <2> QED
      BY <1>1, <2>1, RaiseStep
  <1>3. CASE ~Conflict(c) /\ backend = "sql"
    <2>1. Done(c, NextRows(c))
      BY <1>3 DEF SqlSave, MongoSave, DynamoSave
    <2> QED
      BY <1>1, <1>3, <2>1, EndsStep
  <1>4. CASE ~Conflict(c) /\ backend # "sql"
    <2>1. PICK pc : /\ \/ backend = "mongodb" /\ pc = "tail"
                       \/ backend = "dynamodb" /\ pc = "insert"
                    /\ InsertNext(c, pc)
      BY <1>4 DEF SqlSave, MongoSave, DynamoSave
    <2>2. NextRows(c) = <<NextRows(c)[1]>>
      <3>1. PICK todo : todo = IF backend = "sql" THEN co[c].batch ELSE <<co[c].batch[co[c].next]>>
        OBVIOUS
      <3>2. PICK tail : tail = co[c].tail
        OBVIOUS
      <3>3. PICK n : n = Len(tail)
        OBVIOUS
      <3>4. ToStore(c, todo, tail, n)
        BY <3>1, <3>2, <3>3 DEF ToStore
      <3>5. /\ todo \in Seq(Nat) /\ tail \in Seq(Nat) /\ n \in Nat /\ Len(todo) = 1
            /\ NextRows(c) = LinkedRows(todo, tail, n)
        BY <1>1, <1>4, <3>4, NextIs
      <3>6. NextRows(c) \in Seq(Rows) /\ Len(NextRows(c)) = 1
        BY <3>5, LinkedRowsSound
      <3> QED
        BY <3>6
    <2>3. CASE co[c].next = Len(co[c].batch)
      <3>1. Done(c, NextRows(c))
        BY <2>1, <2>2, <2>3 DEF InsertNext
      <3> QED
        BY <1>1, <1>4, <2>3, <3>1, EndsStep
    <2>4. CASE co[c].next # Len(co[c].batch)
      <3>1. /\ Insert(c, NextRows(c), Onward(c, pc))
            /\ UNCHANGED <<lock, queue, alive, torn, promised>>
        BY <2>1, <2>2, <2>4 DEF InsertNext, Onward
      <3> QED
        BY <1>1, <1>4, <2>1, <2>4, <3>1, GoesOnStep
    <2> QED
      BY <2>3, <2>4
  <1> QED
    BY <1>2, <1>3, <1>4

LEMMA FailsStep ==
    ASSUME IInv, NEW c \in Coros, Fails(c)
    PROVE  IInv'
  <1>1. Beside
    <2>1. faults \in Nat
      BY DEF IInv, Typed
    <2> QED
      BY <2>1 DEF Fails, Beside
  <1>2. \/ co[c].pc \in {"tail", "insert"} /\ Raise(c, <<>>)
        \/ co[c].pc = "insert" /\ ~Conflict(c) /\ Raise(c, NextRows(c))
    BY DEF Fails, At
  <1> QED
    BY <1>1, <1>2, RaiseStep

LEMMA ReadTailStep ==
    ASSUME IInv, NEW c \in Coros, ReadTail(c)
    PROVE  IInv'
  <1>1. /\ backend' = backend /\ chain' = chain /\ logged' = logged /\ queue' = queue /\ alive' = alive
        /\ up' = up /\ reader' = reader /\ promised' = promised /\ pruned' = pruned /\ cut' = cut
        /\ raced' = raced /\ torn' = torn /\ faults' = faults /\ cutoff' = cutoff
        /\ backend # "memory" /\ co[c].pc \in {"lock", "tail"}
        /\ co[c].pc = "lock" => lock[Proc(c)] = Free
        /\ lock' = [lock EXCEPT ![Proc(c)] = c]
    BY DEF ReadTail, At, HasLock, logger, bounds
  <1>2. Stored' = Stored
    BY <1>1 DEF Stored
  <1>3. /\ co \in [Coros -> Frames] /\ queue \in [Procs -> Seq(Nat)] /\ chain \in Seq(Rows)
        /\ Line \in [Spots -> Seq(Nat)] /\ \A d \in Coros : Shape(co[d])
    BY Basics
  <1>4. PICK tail \in Seq(Nat) :
            /\ tail = LastAuditState
            /\ tail = Genesis \/ tail[Len(tail)] \in Stored
            /\ \A i \in 1..Len(chain) : chain[i].seq <= Len(tail)
    <2>1. \A i \in 1..Len(chain) : chain[i].seq = Len(chain[i].prev) + 1
      BY <1>1 DEF IInv, Chained
    <2> QED
      BY <1>3, <2>1, LastState
  <1>5. PICK f : f = [co[c] EXCEPT !.pc = "insert", !.tail = tail, !.stale = FALSE]
    OBVIOUS
  <1>6. /\ f \in Frames /\ f.pc = "insert" /\ f.tail = tail /\ f.stale = FALSE
        /\ f.mode = co[c].mode /\ f.batch = co[c].batch /\ f.next = co[c].next /\ f.list = co[c].list
    BY <1>3, <1>5 DEF Frames, Steps
  <1>7. co' \in [Coros -> Frames] /\ co'[c] = f /\ \A d \in Coros : d # c => co'[d] = co[d]
    <2>1. co' = [co EXCEPT ![c] = f]
      BY <1>4, <1>5 DEF ReadTail
    <2> QED
      BY <1>3, <1>6, <2>1
  <1>8. \A d \in Coros : /\ co'[d].mode = co[d].mode /\ co'[d].batch = co[d].batch
                         /\ co'[d].next = co[d].next /\ co'[d].list = co[d].list
    BY <1>6, <1>7
  <1>9. Line' = Line
    <2>1. /\ Line' \in [Spots -> Seq(Nat)]
          /\ \A p \in Procs : Line'[Queue(p)] = queue'[p]
          /\ \A d \in Coros : Line'[d] = co'[d].batch
      BY <1>1, <1>3, <1>7, LineIsNext
    <2>2. ASSUME NEW x \in Spots
          PROVE  Line'[x] = Line[x]
      <3>1. CASE x \in Coros
        BY <1>8, <2>1, <3>1, Basics
      <3>2. ASSUME NEW p \in Procs, x = Queue(p)
            PROVE  Line'[x] = Line[x]
        BY <1>1, <2>1, <3>2, Basics
      <3> QED
        BY <3>1, <3>2, SpotsAre
    <2> QED
      BY <1>3, <2>1, <2>2
  <1>10. Shape(f)
    <2>1. Shape(co[c]) /\ (backend = "sql" => co[c].pc = "lock")
      BY <1>1, <1>3 DEF Shape
    <2> QED
      BY <1>1, <1>6, <2>1 DEF Shape
  <1>11. lock \in [Procs -> Coros \cup {Free}] /\ Proc(c) \in Procs /\ Free \notin Coros
    BY SpotsAre DEF IInv, Typed, Free, Coros
  <1>12. Typed'
    <2>1. (\A d \in Coros : Shape(co[d]))'
      <3>1. \A d \in Coros : Shape(co'[d])
        BY <1>3, <1>7, <1>10
      <3> QED
        BY <1>1, <3>1 DEF Shape
    <2>2. lock' \in [Procs -> Coros \cup {Free}]
      BY <1>1, <1>11
    <2> QED
      BY <1>1, <1>2, <1>7, <1>9, <2>1, <2>2 DEF IInv, Typed
  <1>13. Locked'
    <2>1. ASSUME NEW d \in Coros
          PROVE  co'[d].pc \in {"tail", "insert"} <=> lock'[Proc(d)] = d
      <3>1. co[d].pc \in {"tail", "insert"} <=> lock[Proc(d)] = d
        BY DEF IInv, Locked
      <3>2. co[c].pc \in {"tail", "insert"} <=> lock[Proc(c)] = c
        BY DEF IInv, Locked
      <3>3. Proc(d) \in Procs
        BY SpotsAre
      <3>4. CASE d = c
        BY <1>1, <1>6, <1>7, <1>11, <3>4
      <3>5. CASE d # c /\ Proc(d) = Proc(c)
        <4>1. lock'[Proc(d)] # d /\ lock[Proc(d)] # d
          BY <1>1, <1>11, <3>2, <3>5
        <4> QED
          BY <1>7, <3>1, <3>5, <4>1
      <3>6. CASE Proc(d) # Proc(c)
        BY <1>1, <1>7, <1>11, <3>1, <3>3, <3>6
      <3> QED
        BY <3>4, <3>5, <3>6
    <2>2. ASSUME NEW p \in Procs
          PROVE  lock'[p] = Free \/ Proc(lock'[p]) = p
      BY <1>1, <1>11 DEF IInv, Locked
    <2> QED
      BY <2>1, <2>2 DEF Locked
  <1>14. OnePlace'
    BY <1>9 DEF IInv, OnePlace
  <1>15. Accounted'
    <2>1. (\A d \in Coros : BatchSound(co[d]))'
      <3>1. \A d \in Coros : BatchSound(co[d])
        BY DEF IInv, Accounted
      <3> QED
        BY <1>1, <1>2, <1>8, <3>1 DEF BatchSound
    <2> QED
      BY <1>1, <1>2, <1>9, <2>1 DEF IInv, Accounted
  <1>16. Tails'
    <2> SUFFICES ASSUME NEW d \in Coros
                 PROVE  TailSound(co[d])'
      BY DEF Tails
    <2>1. CASE d = c
      <3>1. f.tail = Genesis \/ f.tail[Len(f.tail)] \in Stored' \cup pruned'
        BY <1>2, <1>4, <1>6
      <3>2. \A i \in 1..Len(chain') : chain'[i].seq <= Len(f.tail)
        BY <1>1, <1>4, <1>6
      <3> QED
        BY <1>7, <2>1, <3>1, <3>2 DEF TailSound
    <2>2. CASE d # c
      BY <1>1, <1>2, <1>7, <2>2 DEF IInv, Tails, TailSound
    <2> QED
      BY <2>1, <2>2
  <1>17. Chained'
    BY <1>1, ChainedSame DEF IInv
  <1>18. Pages'
    <2>1. (\A d \in Coros : \A e \in co[d].list : e < cutoff /\ e \in pruned)'
      BY <1>1, <1>8 DEF IInv, Pages
    <2>2. \A e : NewestFirst(e)' = NewestFirst(e)
      BY <1>2 DEF NewestFirst
    <2> QED
      BY <1>1, <1>2, <2>1, <2>2 DEF IInv, Pages
  <1> QED
    BY <1>12, <1>13, <1>14, <1>15, <1>16, <1>17, <1>18 DEF IInv

-----------------------------------------------------------------------------
(* Pruning and reading. *)

(* A step that takes events below the cut-off out of the table, at most. *)
Trims ==
    /\ chain' \in Seq(Rows) /\ Chained' /\ Stored' \subseteq Stored /\ Stored \subseteq Stored' \cup pruned'
    /\ pruned \subseteq pruned' /\ pruned' \subseteq 1..logged
    /\ \A i \in 1..Len(chain') : \E j \in 1..Len(chain) : chain'[i] = chain[j]
    /\ cutoff' \in Nat /\ cutoff <= cutoff' /\ \A e \in Stored \ Stored' : e < cutoff'
    /\ co' \in [Coros -> Frames]
    /\ \A c \in Coros :
          /\ Shape(co'[c]) /\ \A e \in co'[c].list : e < cutoff' /\ e \in pruned'
          /\ co'[c] = co[c] \/ {co[c].pc, co'[c].pc} \subseteq {"idle", "drop"}
    /\ backend' = backend /\ logged' = logged /\ queue' = queue /\ alive' = alive /\ up' = up
    /\ lock' = lock /\ reader' = reader /\ promised' = promised /\ cut' = cut /\ raced' = raced
    /\ torn' = torn /\ faults' = faults

LEMMA TrimsKeeps ==
    ASSUME IInv, Trims
    PROVE  IInv'
  <1>1. /\ backend' = backend /\ logged' = logged /\ queue' = queue /\ alive' = alive /\ up' = up
        /\ lock' = lock /\ reader' = reader /\ promised' = promised /\ cut' = cut /\ raced' = raced
        /\ torn' = torn /\ faults' = faults
        /\ Stored' \subseteq Stored /\ Stored \subseteq Stored' \cup pruned'
        /\ pruned \subseteq pruned' /\ pruned' \subseteq 1..logged
        /\ cutoff' \in Nat /\ cutoff <= cutoff'
        /\ co' \in [Coros -> Frames] /\ \A c \in Coros : Shape(co'[c])
    BY DEF Trims
  <1>2. /\ co \in [Coros -> Frames] /\ queue \in [Procs -> Seq(Nat)] /\ Line \in [Spots -> Seq(Nat)]
        /\ logged \in Nat /\ \A c \in Coros : Shape(co[c])
    BY Basics
  <1>3. ASSUME NEW c \in Coros, {co[c].pc, co'[c].pc} \subseteq {"idle", "drop"}
        PROVE  /\ co[c].batch = <<>> /\ co'[c].batch = <<>> /\ co'[c].mode # "sync"
    <2>1. Shape(co[c]) /\ Shape(co'[c])
      BY <1>1, <1>2
    <2> QED
      BY <1>3, <2>1, IdleIs DEF Shape
  <1>4. \A c \in Coros : co'[c].batch = co[c].batch
    BY <1>3 DEF Trims
  <1>5. Line' = Line
    <2>1. /\ Line' \in [Spots -> Seq(Nat)]
          /\ \A p \in Procs : Line'[Queue(p)] = queue'[p]
          /\ \A c \in Coros : Line'[c] = co'[c].batch
      BY <1>1, <1>2, LineIsNext
    <2>2. ASSUME NEW x \in Spots
          PROVE  Line'[x] = Line[x]
      <3>1. CASE x \in Coros
        BY <1>4, <2>1, <3>1, Basics
      <3>2. ASSUME NEW p \in Procs, x = Queue(p)
            PROVE  Line'[x] = Line[x]
        BY <1>1, <2>1, <3>2, Basics
      <3> QED
        BY <3>1, <3>2, SpotsAre
    <2> QED
      BY <1>2, <2>1, <2>2
  <1>6. Typed'
    <2>1. (\A c \in Coros : Shape(co[c]))'
      BY <1>1 DEF Shape
    <2>2. (Stored \cup promised \cup pruned \cup cut \subseteq 1..logged)'
      BY <1>1 DEF IInv, Typed
    <2>3. chain' \in Seq(Rows)
      BY DEF Trims
    <2> QED
      BY <1>1, <1>5, <2>1, <2>2, <2>3 DEF IInv, Typed
  <1>7. \A c \in Coros : \/ co'[c] = co[c]
                         \/ co[c].pc \notin {"tail", "insert"} /\ co'[c].pc \notin {"tail", "insert"}
    BY DEF Trims
  <1>8. Locked'
    BY <1>1, <1>7, LockedKeeps
  <1>9. OnePlace'
    BY <1>5 DEF IInv, OnePlace
  <1>10. Accounted'
    <2>1. ASSUME NEW c \in Coros
          PROVE  BatchSound(co[c])'
      <3>1. CASE co'[c] = co[c]
        BY <1>1, <3>1 DEF IInv, Accounted, BatchSound
      <3>2. CASE {co[c].pc, co'[c].pc} \subseteq {"idle", "drop"}
        <4>1. co'[c].batch = <<>> /\ co'[c].mode # "sync" /\ Len(<<>>) = 0 /\ Elems(<<>>) = {}
          BY <1>3, <3>2, EmptySeq, ElemsOf
        <4> QED
          BY <4>1 DEF BatchSound
      <3> QED
        BY <3>1, <3>2 DEF Trims
    <2> QED
      BY <1>1, <1>5, <2>1 DEF IInv, Accounted
  <1>11. Tails'
    <2> SUFFICES ASSUME NEW c \in Coros
                 PROVE  TailSound(co[c])'
      BY DEF Tails
    <2>1. CASE co'[c] = co[c]
      <3>1. TailSound(co[c])
        BY DEF IInv, Tails
      <3>2. \A i \in 1..Len(chain') : \E j \in 1..Len(chain) : chain'[i] = chain[j]
        BY DEF Trims
      <3> QED
        BY <1>1, <2>1, <3>1, <3>2 DEF TailSound
    <2>2. CASE {co[c].pc, co'[c].pc} \subseteq {"idle", "drop"}
      BY <2>2 DEF TailSound
    <2> QED
      BY <2>1, <2>2 DEF Trims
  <1>12. Pages'
    <2>1. (\A c \in Coros : \A e \in co[c].list : e < cutoff /\ e \in pruned)'
      BY DEF Trims
    <2>2. /\ cutoff \in Nat /\ reader \in Readers /\ Stored \subseteq Nat
      BY DEF IInv, Typed
    <2>3. \A e \in Nat : e < cutoff => e < cutoff'
      BY <1>1, <2>2
    <2>4. reader.snap \subseteq Nat
      BY <2>2 DEF Readers
    <2>5. ASSUME NEW e \in Stored, ~(e < cutoff')
          PROVE  e \in Stored'
      BY <2>5 DEF Trims
    <2>6. ASSUME NEW e \in Nat, ~(e < cutoff')
          PROVE  NewestFirst(e)' = NewestFirst(e)
      <3>1. \A f \in Stored \ Stored' : f < cutoff'
        BY DEF Trims
      <3>2. \A f \in Stored : f >= e => f \in Stored'
        BY <1>1, <2>2, <2>6, <3>1
      <3>3. {f \in Stored' : f >= e} = {f \in Stored : f >= e}
        BY <1>1, <3>2
      <3> QED
        BY <3>3 DEF NewestFirst
    <2>7. Pages
      BY DEF IInv
    <2>8. (reader.pc # "idle" => \A e \in reader.snap : e < cutoff \/ e \in Stored)'
      BY <1>1, <2>3, <2>4, <2>5, <2>7 DEF Pages
    <2>9. (reader.pc = "more" =>
              \A e \in reader.snap \ reader.seen : e < cutoff \/ NewestFirst(e) > reader.offset)'
      <3> SUFFICES ASSUME reader'.pc = "more", NEW e \in reader'.snap \ reader'.seen, ~(e < cutoff')
                   PROVE  NewestFirst(e)' > reader'.offset
        OBVIOUS
      <3>1. e \in Nat /\ (e < cutoff \/ NewestFirst(e) > reader.offset)
        BY <1>1, <2>4, <2>7 DEF Pages
      <3> QED
        BY <1>1, <2>3, <2>4, <2>6, <3>1
    <2>10. (reader.pc = "done" => \A e \in reader.snap \ reader.seen : e < cutoff)'
      BY <1>1, <2>3, <2>4, <2>7 DEF Pages
    <2>11. (reader.pc = "idle" => reader = Unread)'
      BY <1>1, <2>7 DEF Pages, Unread
    <2> QED
      BY <2>1, <2>8, <2>9, <2>10, <2>11 DEF Pages
  <1>13. Chained'
    BY DEF Trims
  <1> QED
    BY <1>6, <1>8, <1>9, <1>10, <1>11, <1>12, <1>13 DEF IInv

LEMMA DeleteTrims ==
    ASSUME IInv, NEW es \in SUBSET (1..logged), Delete(es), backend' = backend, raced' = raced
    PROVE  /\ chain' \in Seq(Rows) /\ Chained' /\ Stored' = Stored \ es /\ pruned' = pruned \cup es
           /\ pruned' \subseteq 1..logged
           /\ \A i \in 1..Len(chain') : \E j \in 1..Len(chain) : chain'[i] = chain[j]
  <1>1. chain \in Seq(Rows) /\ Chained /\ pruned \subseteq 1..logged
    BY DEF IInv, Typed
  <1>2. Chained'
    BY <1>1, ChainedDelete
  <1>3. /\ chain' \in Seq(Rows) /\ Stored' = Stored \ es /\ pruned' = pruned \cup es
        /\ \E m \in [1..Len(chain') -> 1..Len(chain)] :
              \A i \in 1..Len(chain') : chain'[i] = chain[m[i]]
    BY <1>1, DeleteRows
  <1>4. \A i \in 1..Len(chain') : \E j \in 1..Len(chain) : chain'[i] = chain[j]
    BY <1>3
  <1> QED
    BY <1>1, <1>2, <1>3, <1>4

LEMMA PruneStep ==
    ASSUME IInv, NEW c \in Coros, Prune(c)
    PROVE  IInv'
  <1>1. /\ co \in [Coros -> Frames] /\ chain \in Seq(Rows) /\ cutoff \in Nat /\ faults \in Nat
        /\ Stored \cup pruned \subseteq 1..logged /\ logged \in Nat
        /\ \A d \in Coros : Shape(co[d])
        /\ \A d \in Coros : \A e \in co[d].list : e < cutoff /\ e \in pruned
        /\ Chained
    BY DEF IInv, Typed, Pages
  <1>2. \A d \in Coros : co[d].list \subseteq Nat
    BY <1>1 DEF Frames
  <1>3. ASSUME PruneLocked(c)
        PROVE  Trims
    <2>1. PICK ts \in 2..MaxEvents : /\ cutoff = 0 /\ cutoff' = ts /\ Delete(Before(ts))
                                     /\ UNCHANGED <<backend, logged, logger, lock, co, reader, promised, cut, raced, torn, faults>>
      BY <1>3 DEF PruneLocked
    <2>2. PICK es \in SUBSET (1..logged) : es = Before(ts)
      BY <1>1 DEF Before
    <2>3. /\ chain' \in Seq(Rows) /\ Chained' /\ Stored' = Stored \ es /\ pruned' = pruned \cup es
          /\ pruned' \subseteq 1..logged
          /\ \A i \in 1..Len(chain') : \E j \in 1..Len(chain) : chain'[i] = chain[j]
      BY <2>1, <2>2, DeleteTrims
    <2>4. \A e \in es : e < ts
      BY <2>2 DEF Before
    <2>5. cutoff' \in Nat /\ cutoff <= cutoff' /\ \A e \in Stored \ Stored' : e < cutoff'
      <3>1. cutoff' = ts /\ cutoff = 0 /\ ts \in Nat /\ 0 <= ts
        BY <2>1
      <3>2. \A e \in Stored \ Stored' : e \in es
        BY <2>3
      <3> QED
        BY <2>4, <3>1, <3>2
    <2>6. \A d \in Coros : co[d].list = {}
      BY <1>1, <1>2, <2>1
    <2>7. co' = co
      BY <2>1
    <2>8. \A d \in Coros : \A e \in co'[d].list : e < cutoff' /\ e \in pruned'
      BY <2>6, <2>7
    <2> QED
      BY <1>1, <2>1, <2>3, <2>5, <2>7, <2>8 DEF Trims, logger
  <1>4. ASSUME ScanBefore(c)
        PROVE  Trims
    <2>1. PICK ts \in 2..MaxEvents :
              /\ cutoff = 0 /\ cutoff' = ts /\ pruned' = pruned \cup Before(ts) /\ At(c, "idle")
              /\ co' = [co EXCEPT ![c] = [Idle EXCEPT !.mode = "prune", !.pc = "drop", !.list = Before(ts)]]
              /\ UNCHANGED <<backend, chain, logged, logger, lock, reader, promised, cut, raced, torn, faults>>
      BY <1>4 DEF ScanBefore, Turn
    <2>2. PICK es \in SUBSET (1..logged) : es = Before(ts)
      BY <1>1 DEF Before
    <2>3. PICK f : f = [Idle EXCEPT !.mode = "prune", !.pc = "drop", !.list = es]
      OBVIOUS
    <2>4. f \in Frames /\ f.pc = "drop" /\ f.mode = "prune" /\ f.batch = <<>> /\ f.list = es
      <3>1. es \subseteq Nat /\ Idle \in Frames /\ Idle.batch = <<>>
        BY <1>1, IdleIs
      <3> QED
        BY <2>3, <3>1 DEF Frames, Steps
    <2>5. Shape(f)
      BY <2>4 DEF Shape
    <2>6. co' \in [Coros -> Frames] /\ co'[c] = f /\ \A d \in Coros : d # c => co'[d] = co[d]
      <3>1. co' = [co EXCEPT ![c] = f]
        BY <2>1, <2>2, <2>3
      <3> QED
        BY <1>1, <2>4, <3>1
    <2>7. \A d \in Coros : co[d].list = {}
      BY <1>1, <1>2, <2>1
    <2>8. \A e \in es : e < ts
      BY <2>2 DEF Before
    <2>9. \A d \in Coros : \A e \in co'[d].list : e < cutoff' /\ e \in pruned'
      BY <2>1, <2>2, <2>4, <2>6, <2>7, <2>8
    <2>10. Chained'
      BY <1>1, <2>1, ChainedSame
    <2>11. Stored' = Stored
      BY <2>1 DEF Stored
    <2>12. \A d \in Coros : Shape(co'[d])
      BY <1>1, <2>5, <2>6
    <2>13. \A d \in Coros : co'[d] = co[d] \/ {co[d].pc, co'[d].pc} \subseteq {"idle", "drop"}
      BY <2>1, <2>4, <2>6 DEF At
    <2>14. cutoff' \in Nat /\ cutoff <= cutoff'
      BY <2>1
    <2>15. pruned \subseteq pruned' /\ pruned' \subseteq 1..logged
      BY <1>1, <2>1, <2>2
    <2>16. \A i \in 1..Len(chain') : \E j \in 1..Len(chain) : chain'[i] = chain[j]
      BY <2>1
    <2> QED
      BY <1>1, <2>1, <2>6, <2>9, <2>10, <2>11, <2>12, <2>13, <2>14, <2>15, <2>16 DEF Trims, logger
  <1>5. ASSUME DynamoPrune(c)
        PROVE  Trims
    <2>1. /\ At(c, "drop")
          /\ UNCHANGED <<backend, logged, logger, lock, reader, promised, cut, raced, torn, bounds>>
          /\ \/ \E e \in co[c].list : Delete({e}) /\ co' = [co EXCEPT ![c].list = @ \ {e}]
             \/ co' = [co EXCEPT ![c] = Idle] /\ UNCHANGED <<chain, pruned>>
      BY <1>5 DEF DynamoPrune
    <2>2. cutoff' = cutoff /\ co[c] \in Frames /\ Shape(co[c]) /\ co[c].pc = "drop"
      BY <1>1, <2>1 DEF bounds, At
    <2>3. ASSUME NEW f \in Frames, co' = [co EXCEPT ![c] = f], Shape(f), f.list \subseteq co[c].list,
                 f.pc \in {"idle", "drop"}, pruned \subseteq pruned'
          PROVE  /\ co' \in [Coros -> Frames]
                 /\ \A d \in Coros :
                       /\ Shape(co'[d]) /\ \A e \in co'[d].list : e < cutoff' /\ e \in pruned'
                       /\ co'[d] = co[d] \/ {co[d].pc, co'[d].pc} \subseteq {"idle", "drop"}
      <3>1. co' \in [Coros -> Frames] /\ co'[c] = f /\ \A d \in Coros : d # c => co'[d] = co[d]
        BY <1>1, <2>3
      <3> QED
        BY <1>1, <2>2, <2>3, <3>1
    <2>4. CASE co' = [co EXCEPT ![c] = Idle] /\ UNCHANGED <<chain, pruned>>
      <3>1. Idle \in Frames /\ Shape(Idle) /\ Idle.list = {} /\ Idle.pc = "idle"
        BY IdleIs
      <3>2. /\ co' \in [Coros -> Frames]
            /\ \A d \in Coros :
                  /\ Shape(co'[d]) /\ \A e \in co'[d].list : e < cutoff' /\ e \in pruned'
                  /\ co'[d] = co[d] \/ {co[d].pc, co'[d].pc} \subseteq {"idle", "drop"}
        BY <2>3, <2>4, <3>1
      <3>3. Chained' /\ Stored' = Stored /\ chain' = chain /\ pruned' = pruned
        BY <1>1, <2>1, <2>4, ChainedSame DEF Stored
      <3>4. cutoff' \in Nat /\ cutoff <= cutoff'
        BY <1>1, <2>2
      <3>5. \A i \in 1..Len(chain') : \E j \in 1..Len(chain) : chain'[i] = chain[j]
        BY <3>3
      <3> QED
        BY <1>1, <2>1, <3>2, <3>3, <3>4, <3>5 DEF Trims, logger, bounds
    <2>5. ASSUME NEW e \in co[c].list, Delete({e}), co' = [co EXCEPT ![c].list = @ \ {e}]
          PROVE  Trims
      <3>1. {e} \in SUBSET (1..logged) /\ e < cutoff /\ e \in pruned
        BY <1>1, <2>5
      <3>2. PICK es \in SUBSET (1..logged) : es = {e}
        BY <3>1
      <3>3. /\ chain' \in Seq(Rows) /\ Chained' /\ Stored' = Stored \ es /\ pruned' = pruned \cup es
            /\ pruned' \subseteq 1..logged
            /\ \A i \in 1..Len(chain') : \E j \in 1..Len(chain) : chain'[i] = chain[j]
        BY <2>1, <2>5, <3>2, DeleteTrims
      <3>4. PICK f : f = [co[c] EXCEPT !.list = @ \ {e}]
        OBVIOUS
      <3>5. /\ f \in Frames /\ f.pc = "drop" /\ f.mode = co[c].mode /\ f.batch = co[c].batch
            /\ f.list = co[c].list \ {e}
        <4>1. co[c].list \ {e} \in SUBSET Nat
          BY <1>2
        <4> QED
          BY <2>2, <3>4, <4>1 DEF Frames
      <3>6. Shape(f) /\ f.list \subseteq co[c].list
        BY <2>2, <3>5 DEF Shape
      <3>7. co' = [co EXCEPT ![c] = f]
        BY <2>5, <3>4
      <3>8. /\ co' \in [Coros -> Frames]
            /\ \A d \in Coros :
                  /\ Shape(co'[d]) /\ \A g \in co'[d].list : g < cutoff' /\ g \in pruned'
                  /\ co'[d] = co[d] \/ {co[d].pc, co'[d].pc} \subseteq {"idle", "drop"}
        BY <2>3, <3>3, <3>5, <3>6, <3>7
      <3>9. cutoff' \in Nat /\ cutoff <= cutoff' /\ \A g \in Stored \ Stored' : g < cutoff'
        BY <1>1, <2>2, <3>1, <3>2, <3>3
      <3>10. Stored' \subseteq Stored /\ Stored \subseteq Stored' \cup pruned' /\ pruned \subseteq pruned'
        BY <3>3
      <3> QED
        BY <2>1, <3>3, <3>8, <3>9, <3>10 DEF Trims, logger, bounds
    <2> QED
      BY <2>1, <2>4, <2>5
  <1> QED
    BY <1>3, <1>4, <1>5, TrimsKeeps DEF Prune

LEMMA ReadPageStep ==
    ASSUME IInv, ReadPage
    PROVE  IInv'
  <1>1. /\ backend' = backend /\ chain' = chain /\ logged' = logged /\ queue' = queue /\ alive' = alive
        /\ up' = up /\ lock' = lock /\ co' = co /\ promised' = promised /\ pruned' = pruned /\ cut' = cut
        /\ raced' = raced /\ torn' = torn /\ faults' = faults /\ cutoff' = cutoff
    BY DEF ReadPage, logger, bounds
  <1>2. Stored' = Stored /\ Line' = Line
    BY <1>1 DEF Stored, Line
  <1>3. /\ logged \in Nat /\ reader \in Readers /\ Stored \subseteq 1..logged
        /\ \A c \in Coros : Shape(co[c])
    BY DEF IInv, Typed
  <1>4. Stored \in SUBSET Nat /\ IsFiniteSet(Stored)
    BY <1>3, StoredFinite
  <1>5. PICK n \in Nat : n = reader.offset
    BY <1>3 DEF Readers
  <1>6. PICK size \in Nat \ {0} : size = PageSize
    BY BoundsAssumption
  <1>7. PICK page : page = {e \in Stored : NewestFirst(e) \in (n + 1)..(n + size)}
    OBVIOUS
  <1>8. /\ reader.pc \in {"idle", "more"}
        /\ reader' = [pc |-> IF page = {} THEN "done" ELSE "more", offset |-> n + size,
                      snap |-> IF reader.pc = "idle" THEN Stored ELSE reader.snap,
                      seen |-> reader.seen \cup page]
    <2>1. page = Page(reader.offset)
      BY <1>5, <1>6, <1>7 DEF Page
    <2>2. reader.pc # "done" /\ reader.pc \in {"idle", "more", "done"}
      BY <1>3 DEF ReadPage, Readers
    <2> QED
      BY <1>5, <1>6, <2>1, <2>2 DEF ReadPage
  <1>9. reader' \in Readers
    <2>1. page \subseteq Nat /\ n + size \in Nat /\ reader.snap \subseteq Nat /\ reader.seen \subseteq Nat
      <3>1. page \subseteq Nat
        BY <1>4, <1>7
      <3>2. n + size \in Nat
        OBVIOUS
      <3> QED
        BY <1>3, <3>1, <3>2 DEF Readers
    <2> QED
      BY <1>4, <1>8, <2>1 DEF Readers
  <1>10. /\ Cardinality(Stored) \in Nat
         /\ \A e \in Stored : NewestFirst(e) \in 1..Cardinality(Stored)
         /\ \A k \in 1..Cardinality(Stored) : \E e \in Stored : NewestFirst(e) = k
    BY <1>4, CountedDown DEF NewestFirst
  <1>11. /\ reader'.pc \in {"done", "more"} /\ (reader'.pc = "done" <=> page = {})
         /\ reader'.offset = n + size /\ reader'.seen = reader.seen \cup page
         /\ reader'.snap = IF reader.pc = "idle" THEN Stored ELSE reader.snap
    BY <1>8
  (* What was not seen before this page lies beyond the pages before it. *)
  <1>12. ASSUME NEW e \in reader'.snap \ reader.seen, ~(e < cutoff)
         PROVE  e \in Stored /\ NewestFirst(e) > n
    <2>1. CASE reader.pc = "idle"
      <3>1. n = 0
        BY <1>5, <2>1 DEF IInv, Pages, Unread
      <3>2. e \in Stored
        BY <1>11, <1>12, <2>1
      <3>3. PICK a \in 1..Cardinality(Stored) : a = NewestFirst(e)
        BY <1>10, <3>2
      <3> QED
        BY <3>1, <3>2, <3>3
    <2>2. CASE reader.pc = "more"
      <3>1. e \in reader.snap \ reader.seen
        BY <1>11, <1>12, <2>2
      <3> QED
        BY <1>5, <1>12, <2>2, <3>1 DEF IInv, Pages
    <2> QED
      BY <1>8, <2>1, <2>2
  <1>13. ASSUME NEW e \in reader'.snap, ~(e < cutoff)
         PROVE  e \in Stored
    BY <1>8, <1>11, <1>13 DEF IInv, Pages
  <1>14. ASSUME reader'.pc = "more", NEW e \in reader'.snap \ reader'.seen, ~(e < cutoff)
         PROVE  NewestFirst(e) > n + size
    <2>1. e \in Stored /\ NewestFirst(e) > n /\ e \notin page
      BY <1>11, <1>12, <1>14
    <2>2. PICK a \in 1..Cardinality(Stored) : a = NewestFirst(e)
      BY <1>10, <2>1
    <2>3. a \notin (n + 1)..(n + size) /\ a > n
      BY <1>7, <2>1, <2>2
    <2>4. a \in Nat
      BY <1>10, <2>2
    <2> QED
      BY <2>2, <2>3, <2>4
  <1>15. ASSUME reader'.pc = "done", NEW e \in reader'.snap \ reader'.seen
         PROVE  e < cutoff
    <2> SUFFICES ASSUME ~(e < cutoff)
                 PROVE  FALSE
      OBVIOUS
    <2>1. e \in Stored /\ NewestFirst(e) > n /\ page = {}
      BY <1>11, <1>12, <1>15
    <2>2. PICK a \in 1..Cardinality(Stored) : a = NewestFirst(e)
      BY <1>10, <2>1
    <2>3. a > n
      BY <2>1, <2>2
    <2>4. n + 1 \in 1..Cardinality(Stored)
      BY <1>10, <2>3
    <2>5. PICK f \in Stored : NewestFirst(f) = n + 1
      BY <1>10, <2>4
    <2>6. NewestFirst(f) \in (n + 1)..(n + size)
      <3>1. n + 1 \in (n + 1)..(n + size)
        OBVIOUS
      <3> QED
        BY <2>5, <3>1
    <2> QED
      BY <1>7, <2>1, <2>6
  <1>16. \A e : NewestFirst(e)' = NewestFirst(e)
    BY <1>2 DEF NewestFirst
  <1>17. Pages'
    <2>1. (\A c \in Coros : \A e \in co[c].list : e < cutoff /\ e \in pruned)'
      BY <1>1 DEF IInv, Pages
    <2>2. reader'.pc # "idle"
      BY <1>11
    <2> QED
      BY <1>1, <1>2, <1>11, <1>13, <1>14, <1>15, <1>16, <2>1, <2>2 DEF Pages
  <1>18. Typed'
    <2>1. (\A c \in Coros : Shape(co[c]))'
      BY <1>1, <1>3 DEF Shape
    <2> QED
      BY <1>1, <1>2, <1>9, <2>1 DEF IInv, Typed
  <1>19. Locked' /\ OnePlace'
    BY <1>1, <1>2 DEF IInv, Locked, OnePlace
  <1>20. Accounted'
    <2>1. (\A c \in Coros : BatchSound(co[c]))'
      BY <1>1, <1>2 DEF IInv, Accounted, BatchSound
    <2> QED
      BY <1>1, <1>2, <2>1 DEF IInv, Accounted
  <1>21. Tails'
    BY <1>1, <1>2 DEF IInv, Tails, TailSound
  <1>22. Chained'
    BY <1>1, ChainedSame DEF IInv
  <1> QED
    BY <1>17, <1>18, <1>19, <1>20, <1>21, <1>22 DEF IInv

-----------------------------------------------------------------------------
(* The invariant. *)

LEMMA Initial == Init => IInv
  <1> SUFFICES ASSUME Init
               PROVE  IInv
    OBVIOUS
  <1>1. /\ backend \in Backends /\ up \subseteq Procs /\ alive \subseteq up
    BY DEF Init
  <1>2. /\ chain = <<>> /\ logged = 0 /\ queue = [p \in Procs |-> <<>>] /\ lock = [p \in Procs |-> Free]
        /\ co = [c \in Coros |-> Idle] /\ reader = Unread
        /\ promised = {} /\ pruned = {} /\ cut = {} /\ raced = {} /\ torn = {}
        /\ faults = 0 /\ cutoff = 0
    BY DEF Init
  <1>3. /\ <<>> \in Seq(Nat) /\ <<>> \in Seq(Rows) /\ Len(<<>>) = 0 /\ Elems(<<>>) = {}
        /\ Idle \in Frames /\ Shape(Idle) /\ TailSound(Idle) /\ BatchSound(Idle)
        /\ Idle.pc = "idle" /\ Idle.batch = <<>> /\ Idle.list = {}
    BY EmptySeq, ElemsOf, IdleIs
  <1>4. Stored = {} /\ Len(chain) = 0
    BY <1>2, <1>3 DEF Stored
  <1>5. \A x \in Spots : Line[x] = <<>>
    <2>1. queue \in [Procs -> Seq(Nat)] /\ co \in [Coros -> Frames]
      BY <1>2, <1>3
    <2>2. /\ \A p \in Procs : Line[Queue(p)] = queue[p]
          /\ \A c \in Coros : Line[c] = co[c].batch
      BY <2>1, LineIs
    <2> SUFFICES ASSUME NEW x \in Spots
                 PROVE  Line[x] = <<>>
      OBVIOUS
    <2>3. CASE x \in Coros
      BY <1>2, <1>3, <2>2, <2>3
    <2>4. ASSUME NEW p \in Procs, x = Queue(p)
          PROVE  Line[x] = <<>>
      BY <1>2, <2>2, <2>4
    <2> QED
      BY <2>3, <2>4, SpotsAre
  <1>6. Typed
    <2>1. reader \in Readers
      BY <1>2 DEF Readers, Unread
    <2>2. \A c \in Coros : Shape(co[c])
      BY <1>2, <1>3
    <2>3. /\ queue \in [Procs -> Seq(Nat)] /\ co \in [Coros -> Frames] /\ chain \in Seq(Rows)
          /\ lock \in [Procs -> Coros \cup {Free}] /\ {logged, faults, cutoff} \subseteq Nat
      BY <1>2, <1>3
    <2>4. Stored \cup promised \cup pruned \cup cut \subseteq 1..logged
      BY <1>2, <1>4
    <2>5. \A x \in Spots : Elems(Line[x]) \subseteq 1..logged
      BY <1>3, <1>5
    <2> QED
      BY <1>1, <2>1, <2>2, <2>3, <2>4, <2>5 DEF Typed
  <1>7. Locked
    <2>1. Free \notin Coros
      BY DEF Free, Coros
    <2>2. \A c \in Coros : Proc(c) \in Procs
      BY SpotsAre
    <2> QED
      BY <1>2, <1>3, <2>1, <2>2 DEF Locked
  <1>8. OnePlace
    <2>1. DOMAIN Line = Spots
      BY DEF Line
    <2>2. \A x \in Spots : Len(Line[x]) = 0
      BY <1>3, <1>5
    <2> QED
      BY <2>1, <2>2 DEF OnePlace, Apart
  <1>9. Accounted
    <2>1. \A c \in Coros : BatchSound(co[c])
      BY <1>2, <1>3
    <2>2. \A p \in Procs : Elems(queue[p]) = {}
      BY <1>2, <1>3
    <2> QED
      BY <1>2, <1>4, <2>1, <2>2 DEF Accounted
  <1>10. Tails
    BY <1>2, <1>3 DEF Tails
  <1>11. Chained
    <2>1. 1..Len(chain) = {}
      BY <1>4
    <2> QED
      BY <2>1 DEF Chained, Verifies
  <1>12. Pages
    BY <1>2, <1>3 DEF Pages, Unread
  <1> QED
    BY <1>6, <1>7, <1>8, <1>9, <1>10, <1>11, <1>12 DEF IInv

LEMMA Stutters ==
    ASSUME IInv, UNCHANGED vars
    PROVE  IInv'
  <1>1. /\ backend' = backend /\ chain' = chain /\ logged' = logged /\ queue' = queue /\ alive' = alive
        /\ up' = up /\ lock' = lock /\ co' = co /\ promised' = promised /\ pruned' = pruned /\ cut' = cut
        /\ raced' = raced /\ torn' = torn /\ faults' = faults /\ cutoff' = cutoff /\ reader' = reader
    BY DEF vars, bounds
  <1>2. Trims
    <2>1. /\ chain \in Seq(Rows) /\ Chained /\ cutoff \in Nat /\ co \in [Coros -> Frames]
          /\ pruned \subseteq 1..logged /\ \A c \in Coros : Shape(co[c])
          /\ \A c \in Coros : \A e \in co[c].list : e < cutoff /\ e \in pruned
      BY DEF IInv, Typed, Pages
    <2>2. Chained' /\ Stored' = Stored
      BY <1>1, <2>1, ChainedSame DEF Stored
    <2>3. \A i \in 1..Len(chain') : \E j \in 1..Len(chain) : chain'[i] = chain[j]
      BY <1>1
    <2>4. cutoff' \in Nat /\ cutoff <= cutoff'
      BY <1>1, <2>1
    <2> QED
      BY <1>1, <2>1, <2>2, <2>3, <2>4 DEF Trims
  <1> QED
    BY <1>2, TrimsKeeps

(* No step breaks the invariant. *)
LEMMA Invariant == Spec => []IInv
  <1>1. IInv /\ [Next]_vars => IInv'
    <2> SUFFICES ASSUME IInv, [Next]_vars
                 PROVE  IInv'
      OBVIOUS
    <2>1. CASE \/ \E c \in Coros : LogQueued(c) \/ LogSync(c)
               \/ \E p \in Procs : StartLoop(p) \/ FlushLoop(p) \/ Close(p) \/ Dies(p)
      BY <2>1, LoggerStep
    <2>2. ASSUME NEW c \in Coros, Save(c) \/ Fails(c) \/ Prune(c)
          PROVE  IInv'
      BY <2>2, MemorySaveStep, ReadTailStep, SaveStep, FailsStep, PruneStep DEF Save
    <2>3. CASE ReadPage
      BY <2>3, ReadPageStep
    <2>4. CASE UNCHANGED vars
      BY <2>4, Stutters
    <2> QED
      BY <2>1, <2>2, <2>3, <2>4 DEF Next
  <1> QED
    BY Initial, <1>1, PTL DEF Spec

LEMMA AtMostOne ==
    ASSUME NEW S, \A x, y \in S : x = y
    PROVE  Cardinality(S) \in {0, 1} /\ (S = {} => Cardinality(S) = 0)
  <1>1. Cardinality({}) = 0
    BY FS_EmptySet
  <1>2. ASSUME NEW x \in S
        PROVE  Cardinality(S) = 1
    <2>1. S = {x}
      OBVIOUS
    <2>2. Cardinality({x}) = 1
      BY FS_Singleton
    <2> QED
      BY <2>1, <2>2
  <1> QED
    BY <1>1, <1>2

(* An event is in one place of one line. *)
LEMMA OneSpot ==
    ASSUME IInv, NEW x \in Spots, NEW y \in Spots,
           NEW i \in 1..Len(Line[x]), NEW j \in 1..Len(Line[y]), Line[x][i] = Line[y][j]
    PROVE  x = y /\ i = j
  <1>1. DOMAIN Line = Spots
    BY DEF Line
  <1>2. \A v, w \in DOMAIN Line : \A k \in 1..Len(Line[v]), l \in 1..Len(Line[w]) :
            Line[v][k] = Line[w][l] => v = w /\ k = l
    BY DEF IInv, OnePlace, Apart
  <1> QED
    BY <1>1, <1>2

LEMMA EventsSound == IInv => EventsAccounted
  <1> SUFFICES ASSUME IInv
               PROVE  EventsAccounted
    OBVIOUS
  <1>1. /\ queue \in [Procs -> Seq(Nat)] /\ co \in [Coros -> Frames] /\ Line \in [Spots -> Seq(Nat)]
        /\ \A p \in Procs : Line[Queue(p)] = queue[p]
        /\ \A c \in Coros : Line[c] = co[c].batch
        /\ \A x \in Spots : Elems(Line[x]) \subseteq 1..logged
        /\ \A c \in Coros : Shape(co[c])
        /\ \A c \in Coros : c \in Spots
        /\ \A p \in Procs : Queue(p) \in Spots
    BY Basics, SpotsAre
  <1>2. ASSUME NEW c \in Coros, NEW e \in Elems(co[c].batch)
        PROVE  Saving(c)
    <2>1. co[c] \in Frames /\ Shape(co[c]) /\ Elems(<<>>) = {} /\ Idle.batch = <<>>
      BY <1>1, ElemsOf, IdleIs
    <2>2. co[c].pc \in {"lock", "tail", "insert"}
      BY <1>2, <2>1 DEF Shape, Frames, Steps
    <2> QED
      BY <2>1, <2>2 DEF Shape, Saving
  <1>3. TypeOK
    <2>1. Held \subseteq 1..logged /\ Queued \subseteq 1..logged
      BY <1>1 DEF Held, Queued
    <2>2. ASSUME NEW p \in Procs
          PROVE  lock[p] = Free \/ ~At(lock[p], "idle")
      <3> SUFFICES ASSUME lock[p] # Free
                   PROVE  ~At(lock[p], "idle")
        OBVIOUS
      <3>1. PICK c \in Coros : c = lock[p]
        BY DEF IInv, Typed
      <3>2. Proc(c) = p
        BY <3>1 DEF IInv, Locked
      <3>3. co[c].pc \in {"tail", "insert"}
        BY <3>1, <3>2 DEF IInv, Locked
      <3> QED
        BY <3>1, <3>3 DEF At
    <2> QED
      BY <2>1, <2>2 DEF IInv, Typed, TypeOK
  <1>4. promised \subseteq Stored \cup Queued \cup Held \cup pruned \cup cut
    <2> SUFFICES ASSUME NEW e \in promised \ (Stored \cup pruned \cup cut)
                 PROVE  e \in Queued \cup Held
      OBVIOUS
    <2>1. PICK x \in Spots : e \in Elems(Line[x])
      BY DEF IInv, Accounted
    <2>2. ASSUME NEW p \in Procs, x = Queue(p)
          PROVE  e \in Queued
      BY <1>1, <2>1, <2>2 DEF Queued
    <2>3. CASE x \in Coros
      BY <1>1, <1>2, <2>1, <2>3 DEF Held
    <2> QED
      BY <2>2, <2>3, SpotsAre
  <1>5. ASSUME NEW e \in 1..logged
        PROVE  Places(e) <= 1
    <2> DEFINE inQueues == {x \in Procs \X (1..MaxEvents) : x[2] <= Len(queue[x[1]]) /\ queue[x[1]][x[2]] = e}
               inHands == {c \in Coros : Saving(c) /\ e \in Elems(co[c].batch)}
    <2>1. Places(e) = Cardinality(inQueues) + Cardinality(inHands)
      BY DEF Places
    <2>3. \A x \in inQueues : /\ x[1] \in Procs /\ x[2] \in 1..Len(Line[Queue(x[1])])
                              /\ Line[Queue(x[1])][x[2]] = e /\ x = <<x[1], x[2]>>
      <3> SUFFICES ASSUME NEW x \in inQueues
                   PROVE  /\ x[1] \in Procs /\ x[2] \in 1..Len(Line[Queue(x[1])])
                          /\ Line[Queue(x[1])][x[2]] = e /\ x = <<x[1], x[2]>>
        OBVIOUS
      <3>1. PICK p \in Procs, i \in 1..MaxEvents : x = <<p, i>>
        OBVIOUS
      <3>2. i <= Len(queue[p]) /\ queue[p][i] = e
        BY <3>1
      <3>3. Len(queue[p]) \in Nat /\ i \in Nat /\ i >= 1
        BY <1>1, LenProperties, BoundsAssumption
      <3>4. i \in 1..Len(queue[p])
        BY <3>2, <3>3
      <3> QED
        BY <1>1, <3>1, <3>2, <3>4
    <2>4. \A c \in inHands : c \in Coros /\ \E i \in 1..Len(Line[c]) : Line[c][i] = e
      BY <1>1 DEF Elems
    <2> HIDE DEF inQueues, inHands
    <2>5. \A x, y \in inQueues : x = y
      <3> SUFFICES ASSUME NEW x \in inQueues, NEW y \in inQueues
                   PROVE  x = y
        OBVIOUS
      <3>1. PICK p \in Procs : p = x[1] /\ x[2] \in 1..Len(Line[Queue(p)]) /\ Line[Queue(p)][x[2]] = e
        BY <2>3
      <3>2. PICK q \in Procs : q = y[1] /\ y[2] \in 1..Len(Line[Queue(q)]) /\ Line[Queue(q)][y[2]] = e
        BY <2>3
      <3>3. Queue(p) = Queue(q) /\ x[2] = y[2]
        <4>1. Queue(p) \in Spots /\ Queue(q) \in Spots
          BY <1>1
        <4> QED
          BY <3>1, <3>2, <4>1, OneSpot
      <3>4. p = q
        BY <3>3, SpotsAre
      <3>5. x = <<x[1], x[2]>> /\ y = <<y[1], y[2]>>
        BY <2>3
      <3> QED
        BY <3>1, <3>2, <3>3, <3>4, <3>5
    <2>6. \A c, d \in inHands : c = d
      <3> SUFFICES ASSUME NEW c \in inHands, NEW d \in inHands
                   PROVE  c = d
        OBVIOUS
      <3>1. PICK i \in 1..Len(Line[c]) : Line[c][i] = e
        BY <2>4
      <3>2. PICK j \in 1..Len(Line[d]) : Line[d][j] = e
        BY <2>4
      <3>3. c \in Spots /\ d \in Spots
        BY <1>1, <2>4
      <3> QED
        BY <3>1, <3>2, <3>3, OneSpot
    <2>7. inQueues = {} \/ inHands = {}
      <3> SUFFICES ASSUME NEW x \in inQueues, NEW c \in inHands
                   PROVE  FALSE
        OBVIOUS
      <3>1. PICK p \in Procs, i \in 1..Len(Line[Queue(x[1])]) :
               p = x[1] /\ i = x[2] /\ Line[Queue(p)][i] = e
        BY <2>3
      <3>2. PICK j \in 1..Len(Line[c]) : Line[c][j] = e
        BY <2>4
      <3>3. Queue(p) = c
        BY <1>1, <2>4, <3>1, <3>2, OneSpot
      <3> QED
        BY <2>4, <3>3, SpotsAre
    <2>8. Cardinality(inQueues) \in {0, 1} /\ (inQueues = {} => Cardinality(inQueues) = 0)
      BY <2>5, AtMostOne
    <2>9. Cardinality(inHands) \in {0, 1} /\ (inHands = {} => Cardinality(inHands) = 0)
      BY <2>6, AtMostOne
    <2> QED
      BY <2>1, <2>7, <2>8, <2>9
  <1>6. Stored \cap Queued \subseteq torn
    BY DEF IInv, Accounted, Queued
  <1>7. backend = "memory" => torn = {} /\ cut \cap Stored = {}
    BY DEF IInv, Accounted
  <1> QED
    BY <1>3, <1>4, <1>5, <1>6, <1>7 DEF EventsAccounted

LEMMA ChainIs == IInv => ChainSound
  <1> SUFFICES ASSUME IInv
               PROVE  ChainSound
    OBVIOUS
  <1>1. Chained /\ chain \in Seq(Rows)
    BY DEF IInv, Typed
  <1>2. ASSUME NEW r \in Elems(chain)
        PROVE  r.prev = Genesis \/ Last(r.prev) \in Stored \cup pruned
    <2>1. Continues(r)
      BY <1>1 DEF Elems, Chained
    <2> QED
      BY <2>1 DEF Continues, Last
  <1>3. ASSUME NEW i \in 1..Len(chain), NEW j \in 1..Len(chain), i < j
        PROVE  /\ chain[i].event # chain[j].event
               /\ chain[i].prev = chain[j].prev => backend = "dynamodb" /\ {chain[i].event, chain[j].event} \cap raced # {}
               /\ chain[i].seq = chain[j].seq =>
                     \/ backend = "dynamodb" /\ {chain[i].event, chain[j].event} \cap raced # {}
                     \/ backend = "memory" /\ pruned # {}
    <2>1. /\ chain[i].event # chain[j].event
          /\ backend = "memory" => Len(chain[i].prev) < Len(chain[j].prev)
          /\ chain[i].seq = chain[j].seq =>
                \/ backend = "memory"
                \/ backend = "dynamodb" /\ {chain[i].event, chain[j].event} \cap raced # {}
      BY <1>1, <1>3 DEF Chained
    <2>2. /\ backend = "memory" /\ pruned = {} => chain[i].seq = i /\ chain[j].seq = j
          /\ backend # "memory" => /\ chain[i].seq = Len(chain[i].prev) + 1
                                   /\ chain[j].seq = Len(chain[j].prev) + 1
      BY <1>1 DEF Chained
    <2>3. Len(chain[i].prev) \in Nat /\ Len(chain[j].prev) \in Nat /\ i # j
      <3>1. chain[i] \in Rows /\ chain[j] \in Rows
        BY <1>1, ElementOfSeq
      <3>2. chain[i].prev \in Seq(Nat) /\ chain[j].prev \in Seq(Nat)
        BY <3>1 DEF Rows
      <3> QED
        BY <1>3, <3>2, LenProperties
    <2>4. chain[i].prev = chain[j].prev => backend # "memory"
      BY <2>1, <2>3
    <2>5. chain[i].prev = chain[j].prev => chain[i].seq = chain[j].seq
      BY <2>2, <2>4
    <2> QED
      BY <2>1, <2>2, <2>3, <2>4, <2>5
  <1>4. ASSUME NEW i \in 1..Len(chain), NEW j \in 1..Len(chain), i # j
        PROVE  /\ chain[i].event # chain[j].event
               /\ chain[i].prev = chain[j].prev => backend = "dynamodb" /\ {chain[i].event, chain[j].event} \cap raced # {}
               /\ chain[i].seq = chain[j].seq =>
                     \/ backend = "dynamodb" /\ {chain[i].event, chain[j].event} \cap raced # {}
                     \/ backend = "memory" /\ pruned # {}
    <2>1. i < j \/ j < i
      <3>1. Len(chain) \in Nat
        BY <1>1, LenProperties
      <3> QED
        BY <1>4, <3>1
    <2>2. {chain[i].event, chain[j].event} = {chain[j].event, chain[i].event}
      OBVIOUS
    <2> QED
      BY <1>3, <2>1, <2>2
  <1>5. backend = "memory" => Verifies \/ pruned # {}
    BY <1>1 DEF Chained
  <1> QED
    BY <1>2, <1>4, <1>5 DEF ChainSound

(* No event that log() accepted is lost: it is in the trail, in one queue or in  *)
(* the hands of one flush, unless it was pruned or its flush was cancelled by      *)
(* close() or by the end of the process, and a batch that failed is back in its    *)
(* queue exactly once.                                                               *)
THEOREM EventsKept == Spec => []EventsAccounted
  BY Invariant, EventsSound, PTL

(* Every row continues a row that is or was in the trail; two rows share a        *)
(* predecessor or a sequence only after two processes raced in DynamoDB, or after  *)
(* the in-memory adapter pruned.                                                    *)
THEOREM ChainKept == Spec => []ChainSound
  BY Invariant, ChainIs, PTL

(* Paging through search_audit_events misses no event that was there when the     *)
(* first page was read, unless it is below the cut-off of a pruning.               *)
THEOREM PagesKept == Spec => []PagesComplete
  <1>1. IInv => PagesComplete
    BY DEF IInv, Pages, PagesComplete
  <1> QED
    BY Invariant, <1>1, PTL
=============================================================================
