------------------------------- MODULE Audit -------------------------------
(* The audit trail: loggers that queue events and flush them in batches, and  *)
(* the hash chain the four adapters keep.  Each process has a logger with its   *)
(* flush loop and an adapter with its lock; the table is shared.  An event is   *)
(* its timestamp: the n-th event logged is n.  A checksum covers the event and  *)
(* the checksum before it, so it is the sequence of the events it covers.       *)
EXTENDS Naturals, FiniteSets, Sequences, SequencesExt

CONSTANTS
    Procs,        \* processes of the application
    QueueLimit,   \* queue_limit of the logger
    MaxEvents,    \* bound on the events logged
    Loops,        \* processes that start their flush task
    MaxFaults,    \* bound on the calls that fail and the processes that die
    PageSize      \* page_size of a search

ASSUME BoundsAssumption ==
    MaxEvents \in Nat /\ MaxFaults \in Nat /\ {QueueLimit, PageSize} \subseteq Nat \ {0}

Backends == {"memory", "sql", "mongodb", "dynamodb"}
Genesis  == <<>>
Loop(p)  == <<p, "loop">>
Main(p)  == <<p, "main">>
Coros    == Procs \X {"loop", "main"}
Proc(c)  == c[1]
Free     == <<"nobody", "none">>

VARIABLES
    backend,   \* the adapter
    chain,     \* audit_events in the order they were inserted
    logged,    \* the clock: events logged so far
    queue,     \* _queue of each logger
    alive,     \* processes whose flush task runs
    up,        \* processes that run and have not closed their logger
    lock,      \* holder of the audit lock of each adapter
    co,        \* the coroutines' local state
    reader,    \* a client that pages through the trail
    promised,  \* history: events whose log() was accepted
    pruned,    \* history: events deleted by a pruning
    cut,       \* history: events in the hands of a flush that was cancelled or died
    raced,     \* history: events chained to a tail another process had moved
    torn,      \* history: events of a batch that failed after it was stored in part
    faults,
    cutoff      \* the timestamp of the one pruning, 0 before it

vars == <<backend, chain, logged, queue, alive, up, lock, co, reader, promised, pruned,
          cut, raced, torn, faults, cutoff>>
logger == <<queue, alive, up>>
bounds == <<faults, cutoff>>

Idle == [pc |-> "idle", mode |-> "none", batch |-> <<>>, next |-> 1, tail |-> Genesis,
         list |-> {}, stale |-> FALSE]
Unread == [pc |-> "idle", offset |-> 0, snap |-> {}, seen |-> {}]

At(c, pc) == co[c].pc = pc
Unlock(c) == [lock EXCEPT ![Proc(c)] = Free]
Elems(s) == {s[i] : i \in 1..Len(s)}
Stored == {chain[i].event : i \in 1..Len(chain)}

(* The in-memory adapter never suspends and lives in one process. *)
Turn(c) ==
    /\ At(c, "idle") /\ Proc(c) \in up
    /\ backend = "memory" => \A d \in Coros : At(d, "idle")

(* Bound: nothing fails while a client pages through the trail. *)
Fault == faults < MaxFaults /\ reader.pc = "idle"

------------------------------------------------------------------------------
(* AuditLogger *)

(* The queue is swapped for an empty one and the batch is saved. *)
Flush(c, pending, mode) ==
    IF pending = <<>> THEN UNCHANGED co
    ELSE co' = [co EXCEPT ![c] = [Idle EXCEPT !.pc = "lock", !.mode = mode, !.batch = pending]]

LogQueued(c) ==
    LET p == Proc(c)  mine == Append(queue[p], logged + 1) IN
    /\ c = Main(p) /\ Turn(c) /\ logged < MaxEvents
    /\ logged' = logged + 1
    /\ promised' = promised \cup {logged + 1}
    /\ IF Len(mine) >= QueueLimit
       THEN queue' = [queue EXCEPT ![p] = <<>>] /\ Flush(c, mine, "flush")
       ELSE queue' = [queue EXCEPT ![p] = mine] /\ UNCHANGED co
    /\ UNCHANGED <<backend, chain, alive, up, lock, reader, pruned, cut, raced, torn, bounds>>

(* sync=True: written at once, and an error is the caller's. *)
LogSync(c) ==
    /\ c = Main(Proc(c)) /\ Turn(c) /\ logged < MaxEvents
    /\ logged' = logged + 1
    /\ Flush(c, <<logged + 1>>, "sync")
    /\ UNCHANGED <<backend, chain, logger, lock, reader, promised, pruned, cut, raced, torn, bounds>>

StartLoop(p) ==
    /\ p \in (Loops \cap up) \ alive
    /\ alive' = alive \cup {p}
    /\ UNCHANGED <<backend, chain, logged, queue, up, lock, co, reader, promised, pruned, cut,
                   raced, torn, bounds>>

FlushLoop(p) ==
    /\ p \in alive /\ Turn(Loop(p)) /\ queue[p] # <<>>
    /\ queue' = [queue EXCEPT ![p] = <<>>]
    /\ Flush(Loop(p), queue[p], "flush")
    /\ UNCHANGED <<backend, chain, logged, alive, up, lock, reader, promised, pruned, cut, raced,
                   torn, bounds>>

(* What a coroutine that stops here has not stored. *)
Unsaved(c) == Elems(co[c].batch) \ Stored

(* close(): the flush task is cancelled wherever it waits, and CancelledError is *)
(* no Exception: its batch is not re-queued.  Then the queue is flushed.          *)
Close(p) ==
    /\ Turn(Main(p))
    /\ up' = up \ {p} /\ alive' = alive \ {p}
    /\ cut' = cut \cup Unsaved(Loop(p))
    /\ lock' = IF lock[p] = Loop(p) THEN Unlock(Loop(p)) ELSE lock
    /\ queue' = [queue EXCEPT ![p] = <<>>]
    /\ co' = [co EXCEPT ![Loop(p)] = Idle,
                        ![Main(p)] = IF queue[p] = <<>> THEN Idle
                                     ELSE [Idle EXCEPT !.pc = "lock", !.mode = "flush",
                                                       !.batch = queue[p]]]
    /\ UNCHANGED <<backend, chain, logged, reader, promised, pruned, raced, torn, bounds>>

(* The process ends: the queue and the batches in hand go with it. *)
Dies(p) ==
    /\ Fault
    /\ p \in up \/ ~At(Main(p), "idle")
    /\ faults' = faults + 1
    /\ up' = up \ {p} /\ alive' = alive \ {p}
    /\ cut' = cut \cup Elems(queue[p]) \cup Unsaved(Loop(p)) \cup Unsaved(Main(p))
    /\ queue' = [queue EXCEPT ![p] = <<>>]
    /\ co' = [co EXCEPT ![Loop(p)] = Idle, ![Main(p)] = Idle]
    /\ lock' = [lock EXCEPT ![p] = Free]
    /\ UNCHANGED <<backend, chain, logged, reader, promised, pruned, raced, torn, cutoff>>

(* Mutant: the failed batch replaces what was queued meanwhile. *)
RequeueOver(c) == [queue EXCEPT ![Proc(c)] = co[c].batch]

(* pending + self._queue *)
Requeue(c) == [queue EXCEPT ![Proc(c)] = co[c].batch \o @]

------------------------------------------------------------------------------
(* The chain. *)

Sum(r) == Append(r.prev, r.event)
Row(e, n, prev) == [event |-> e, seq |-> n, prev |-> prev]
Seqs == {chain[i].seq : i \in 1..Len(chain)}

(* The rows of a batch, each chained to the one before it. *)
LinkedRows(batch, prev, n) ==
    [i \in 1..Len(batch) |-> Row(batch[i], n + i, prev \o SubSeq(batch, 1, i - 1))]

(* The row with the highest sequence. *)
LastAuditState ==
    IF chain = <<>> THEN Genesis
    ELSE Sum(CHOOSE r \in Elems(chain) : \A q \in Elems(chain) : q.seq <= r.seq)

(* The rows are in the table: the tails other processes hold are out of date. *)
Insert(c, rows, frame) ==
    /\ chain' = chain \o rows
    /\ raced' = IF co[c].stale THEN raced \cup {r.event : r \in Elems(rows)} ELSE raced
    /\ co' = [d \in Coros |-> IF d = c THEN frame
                              ELSE IF rows # <<>> /\ At(d, "insert") /\ Proc(d) # Proc(c)
                                   THEN [co[d] EXCEPT !.stale = TRUE] ELSE co[d]]

Done(c, rows) ==
    /\ Insert(c, rows, Idle)
    /\ lock' = Unlock(c)
    /\ promised' = promised \cup Elems(co[c].batch)
    /\ UNCHANGED <<queue, alive, torn>>

(* The save raised: a flush re-queues its batch and raises, which ends the flush *)
(* task; a synchronous log raises.                                                 *)
Raise(c, rows) ==
    /\ Insert(c, rows, Idle)
    /\ lock' = Unlock(c)
    /\ queue' = IF co[c].mode = "flush" THEN Requeue(c) ELSE queue
    /\ alive' = IF c = Loop(Proc(c)) THEN alive \ {Proc(c)} ELSE alive
    /\ torn' = torn \cup (Elems(co[c].batch) \cap (Stored \cup {r.event : r \in Elems(rows)}))
    /\ UNCHANGED promised

Saving(c) == co[c].mode \in {"flush", "sync"}

(* The sequence is the length of the chain, whatever was pruned before. *)
MemorySave(c) ==
    /\ backend = "memory" /\ At(c, "lock") /\ Saving(c)
    /\ LET tail == IF chain = <<>> THEN Genesis ELSE Sum(Last(chain))
       IN Done(c, LinkedRows(co[c].batch, tail, Len(chain)))
    /\ UNCHANGED <<backend, logged, up, reader, pruned, cut, bounds>>

(* Mutant: DynamoDB appends without the lock. *)
NoLock(c) == TRUE

HasLock(c) == lock[Proc(c)] = Free

(* The lock is taken and the tail read.  MongoDB reads it again for each event.  *)
ReadTail(c) ==
    /\ backend # "memory"
    /\ (At(c, "lock") /\ HasLock(c)) \/ At(c, "tail")
    /\ lock' = [lock EXCEPT ![Proc(c)] = c]
    /\ co' = [co EXCEPT ![c].pc = "insert", ![c].tail = LastAuditState, ![c].stale = FALSE]
    /\ UNCHANGED <<backend, chain, logged, logger, reader, promised, pruned, cut, raced, torn, bounds>>

(* What the statement under way inserts: SQL commits the batch, the others put    *)
(* its next event.                                                                  *)
NextRows(c) ==
    LET f == co[c]
        todo == IF backend = "sql" THEN f.batch ELSE <<f.batch[f.next]>>
    IN LinkedRows(todo, f.tail, Len(f.tail))

(* The id is unique everywhere, the sequence not in DynamoDB. *)
Conflict(c) ==
    \E r \in Elems(NextRows(c)) :
        r.event \in Stored \/ (backend # "dynamodb" /\ r.seq \in Seqs)

SqlSave(c) ==
    /\ backend = "sql" /\ At(c, "insert")
    /\ IF Conflict(c) THEN Raise(c, <<>>) ELSE Done(c, NextRows(c))
    /\ UNCHANGED <<backend, logged, up, reader, pruned, cut, bounds>>

(* One event is in; the batch goes on at pc. *)
InsertNext(c, pc) ==
    LET row == NextRows(c)[1] IN
    IF co[c].next = Len(co[c].batch) THEN Done(c, <<row>>)
    ELSE /\ Insert(c, <<row>>, [co[c] EXCEPT !.pc = pc, !.next = @ + 1, !.tail = Sum(row)])
         /\ UNCHANGED <<lock, queue, alive, torn, promised>>

MongoSave(c) ==
    /\ backend = "mongodb" /\ At(c, "insert")
    /\ IF Conflict(c) THEN Raise(c, <<>>) ELSE InsertNext(c, "tail")
    /\ UNCHANGED <<backend, logged, up, reader, pruned, cut, bounds>>

(* The tail is read once for the batch. *)
DynamoSave(c) ==
    /\ backend = "dynamodb" /\ At(c, "insert")
    /\ IF Conflict(c) THEN Raise(c, <<>>) ELSE InsertNext(c, "insert")
    /\ UNCHANGED <<backend, logged, up, reader, pruned, cut, bounds>>

(* A call fails; what it inserts may be there all the same. *)
Fails(c) ==
    /\ Fault
    /\ faults' = faults + 1
    /\ \/ (At(c, "tail") \/ At(c, "insert")) /\ Raise(c, <<>>)
       \/ At(c, "insert") /\ ~Conflict(c) /\ Raise(c, NextRows(c))
    /\ UNCHANGED <<backend, logged, up, reader, pruned, cut, cutoff>>

------------------------------------------------------------------------------
(* delete_audit_events_before: the cut-off is a timestamp, not a place in the    *)
(* chain.                                                                            *)

Before(ts) == {e \in Stored : e < ts}

(* The n-th of the places that are kept. *)
Kept(places, n) == CHOOSE i \in places : Cardinality({j \in places : j <= i}) = n

Delete(es) ==
    LET kept == {i \in 1..Len(chain) : chain[i].event \notin es} IN
    /\ chain' = [n \in 1..Cardinality(kept) |-> chain[Kept(kept, n)]]
    /\ pruned' = pruned \cup es

(* One statement under the lock. *)
PruneLocked(c) ==
    \E ts \in 2..MaxEvents :
        /\ backend # "dynamodb" /\ c = Main(Proc(c)) /\ Turn(c) /\ HasLock(c) /\ cutoff = 0
        /\ cutoff' = ts
        /\ Delete(Before(ts))
        /\ UNCHANGED <<backend, logged, logger, lock, co, reader, promised, cut, raced, torn, faults>>

(* No lock: the records are scanned, then deleted one at a time. *)
ScanBefore(c) ==
    \E ts \in 2..MaxEvents :
        /\ backend = "dynamodb" /\ c = Main(Proc(c)) /\ Turn(c) /\ cutoff = 0
        /\ cutoff' = ts
        /\ co' = [co EXCEPT ![c] = [Idle EXCEPT !.mode = "prune", !.pc = "drop", !.list = Before(ts)]]
        /\ pruned' = pruned \cup Before(ts)
        /\ UNCHANGED <<backend, chain, logged, logger, lock, reader, promised, cut, raced, torn,
                       faults>>

DynamoPrune(c) ==
    /\ \/ /\ At(c, "drop")
          /\ \E e \in co[c].list :
               /\ Delete({e})
               /\ co' = [co EXCEPT ![c].list = @ \ {e}]
       \/ /\ At(c, "drop") /\ co[c].list = {}
          /\ co' = [co EXCEPT ![c] = Idle]
          /\ UNCHANGED <<chain, pruned>>
    /\ UNCHANGED <<backend, logged, logger, lock, reader, promised, cut, raced, torn, bounds>>

------------------------------------------------------------------------------
(* search_audit_events: newest first, one page at a time. *)

(* Mutant: oldest first. *)
OldestFirst(e) == Cardinality({f \in Stored : f <= e})

(* The place of an event in the listing. *)
NewestFirst(e) == Cardinality({f \in Stored : f >= e})

Page(offset) == {e \in Stored : NewestFirst(e) \in (offset + 1)..(offset + PageSize)}

ReadPage ==
    /\ reader.pc # "done" /\ logged = MaxEvents /\ faults = 0
    /\ reader' = [pc |-> IF Page(reader.offset) = {} THEN "done" ELSE "more",
                  offset |-> reader.offset + PageSize,
                  snap |-> IF reader.pc = "idle" THEN Stored ELSE reader.snap,
                  seen |-> reader.seen \cup Page(reader.offset)]
    /\ UNCHANGED <<backend, chain, logged, logger, lock, co, promised, pruned, cut, raced, torn,
                   bounds>>

------------------------------------------------------------------------------
Init ==
    /\ backend \in Backends
    /\ up \in IF backend = "memory" THEN {{p} : p \in Procs} ELSE {Procs}
    /\ alive = Loops \cap up
    /\ chain = <<>> /\ logged = 0
    /\ queue = [p \in Procs |-> <<>>] /\ lock = [p \in Procs |-> Free]
    /\ co = [c \in Coros |-> Idle] /\ reader = Unread
    /\ promised = {} /\ pruned = {} /\ cut = {} /\ raced = {} /\ torn = {}
    /\ faults = 0 /\ cutoff = 0

Save(c) == MemorySave(c) \/ ReadTail(c) \/ SqlSave(c) \/ MongoSave(c) \/ DynamoSave(c)
Prune(c) == PruneLocked(c) \/ ScanBefore(c) \/ DynamoPrune(c)

Next ==
    \/ \E c \in Coros : LogQueued(c) \/ LogSync(c) \/ Save(c) \/ Fails(c) \/ Prune(c)
    \/ \E p \in Procs : StartLoop(p) \/ FlushLoop(p) \/ Close(p) \/ Dies(p)
    \/ ReadPage

Spec == Init /\ [][Next]_vars

------------------------------------------------------------------------------
(* Properties. *)

Held == UNION {Elems(co[c].batch) : c \in {d \in Coros : Saving(d)}}
Queued == UNION {Elems(queue[p]) : p \in Procs}

TypeOK ==
    /\ backend \in Backends /\ Stored \cup Held \cup Queued \subseteq 1..logged
    /\ up \subseteq Procs /\ alive \subseteq up
    /\ \A p \in Procs : lock[p] = Free \/ ~At(lock[p], "idle")

Places(e) ==
    Cardinality({x \in Procs \X (1..MaxEvents) : x[2] <= Len(queue[x[1]]) /\ queue[x[1]][x[2]] = e})
    + Cardinality({c \in Coros : Saving(c) /\ e \in Elems(co[c].batch)})

(* No event that log() accepted vanishes: it is stored, queued or in the hands  *)
(* of a flush, or it was pruned, or its flush was cancelled by close() or died.  *)
(* It is in one queue or batch only, and it is in the table and queued again      *)
(* only when its batch failed after a part of it was stored.                       *)
EventsAccounted ==
    /\ TypeOK
    /\ promised \subseteq Stored \cup Queued \cup Held \cup pruned \cup cut
    /\ \A e \in 1..logged : Places(e) <= 1
    /\ Stored \cap Queued \subseteq torn
    /\ backend = "memory" => torn = {} /\ cut \cap Stored = {}

Verifies ==
    \A i \in 1..Len(chain) : chain[i].prev = IF i = 1 THEN Genesis ELSE Sum(chain[i - 1])

(* The chain.  A row continues a row that is there or was pruned; two rows        *)
(* continue the same one only in DynamoDB, and only when two processes appended   *)
(* at once; no two rows have the same sequence otherwise, unless the in-memory     *)
(* adapter pruned; and it verifies a chain it has not pruned.                      *)
ChainSound ==
    /\ \A r \in Elems(chain) : r.prev = Genesis \/ Last(r.prev) \in Stored \cup pruned
    /\ \A i, j \in 1..Len(chain) :
          LET r == chain[i]  q == chain[j] IN
          /\ i # j => r.event # q.event
          /\ i # j /\ r.prev = q.prev => backend = "dynamodb" /\ {r.event, q.event} \cap raced # {}
          /\ i # j /\ r.seq = q.seq =>
                \/ backend = "dynamodb" /\ {r.event, q.event} \cap raced # {}
                \/ backend = "memory" /\ pruned # {}
    /\ backend = "memory" => Verifies \/ pruned # {}

(* Paging through the trail while events are stored and pruned misses no event   *)
(* that was there when the first page was read and is not below the cut-off of a  *)
(* pruning.                                                                         *)
PagesComplete == reader.pc = "done" => \A e \in reader.snap \ reader.seen : e < cutoff
==============================================================================
