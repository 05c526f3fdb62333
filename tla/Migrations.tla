------------------------------- MODULE Migrations -------------------------------
(* tessera migrate: the modules on disk, the settings entry that records which *)
(* of them have been applied, and runs and rollbacks that other processes, a     *)
(* failing module or a crash interrupt.  A version is its place in the order of  *)
(* the file names; what a module changes in the database is abstracted to how    *)
(* often it took effect.                                                          *)
EXTENDS Coroutines, Integers, SequencesExt

CONSTANT Versions    \* of the migration modules: 1..n

VARIABLES
    disk,      \* versions in ./tessera_migrations/
    journal,   \* the schema_migrations setting: versions, in the order applied
    effects    \* history: upgrades less downgrades that completed, by version

migrationVars == <<disk, journal, effects>>

Drop(list, v) == SelectSeq(list, LAMBDA w : w # v)

MigrationAppears ==
    \E v \in Versions \ disk : disk' = disk \cup {v} /\ UNCHANGED <<base, journal, effects>>

(* What the journal does not hold, in the order of the version numbers. *)
PendingUpTo(target) == SetToSortSeq({v \in disk \ Range(journal) : v <= target}, <)

(* A run: the journal is read for what is pending, and again for what is to be *)
(* written back.                                                                 *)
RunMigrations(c) ==
    \E target \in Versions :
        /\ Begin(c, [op |-> "apply", pc |-> "again", list |-> <<>>, todo |-> PendingUpTo(target)])
        /\ UNCHANGED <<area, backend, raced, migrationVars>>

(* A dry run ends here. *)
ReadAgain(c) ==
    /\ At(c, "again")
    /\ \/ Return(c)
       \/ /\ co[c].todo # <<>>
          /\ co' = [co EXCEPT ![c].pc = "apply", ![c].list = journal]
    /\ Continue /\ UNCHANGED <<raced, migrationVars>>

RollbackMigrations(c) ==
    \E steps \in 1..Len(journal) :
        /\ Begin(c, [op |-> "undo", pc |-> "undo", list |-> journal,
                     todo |-> Reverse(SubSeq(journal, Len(journal) - steps + 1, Len(journal)))])
        /\ UNCHANGED <<area, backend, raced, migrationVars>>

------------------------------------------------------------------------------
(* One module after the other. *)

Took(c, by) ==
    /\ effects' = [effects EXCEPT ![Head(co[c].todo)] = @ + by]
    /\ Overlap("journal", "both", Busy(c))

(* Mutant: the failed migration is recorded as well. *)
RecordFailed(f) == Append(f.list, Head(f.todo))
OnFailure(f) == f.list

(* Nothing more is done; what was read, and added since, is written back if it *)
(* is not empty.                                                                  *)
Fails(c) ==
    /\ IF OnFailure(co[c]) = <<>> THEN Return(c)
       ELSE co' = [co EXCEPT ![c].pc = "stop", ![c].list = OnFailure(co[c])]
    /\ UNCHANGED <<raced, effects>>

Upgrade(c) ==
    /\ At(c, "apply")
    /\ \/ /\ Took(c, 1)
          /\ co' = [co EXCEPT ![c].pc = "save", ![c].list = Append(@, Head(co[c].todo))]
       \/ Fails(c)
    /\ Continue /\ UNCHANGED <<disk, journal>>

Downgrade(c) ==
    /\ At(c, "undo")
    /\ \/ /\ Head(co[c].todo) \in disk
          /\ Took(c, -1)
          /\ co' = [co EXCEPT ![c].pc = "save", ![c].list = Drop(@, Head(co[c].todo))]
       \/ Fails(c)
    /\ Continue /\ UNCHANGED <<disk, journal>>

(* set_setting *)
SaveJournal(c) ==
    LET f == co[c] IN
    /\ f.pc \in {"save", "stop"}
    /\ journal' = f.list
    /\ IF f.pc = "stop" \/ Len(f.todo) = 1 THEN Return(c)
       ELSE co' = [co EXCEPT ![c].pc = f.op, ![c].todo = Tail(@)]
    /\ Overlap("journal", "both", Busy(c))
    /\ Continue /\ UNCHANGED <<disk, effects>>

RunDies(c) ==
    /\ ~At(c, "idle")
    /\ raced' = raced \cup (IF At(c, "save") THEN {<<"died", Head(co[c].todo)>>} ELSE {})
    /\ Return(c)
    /\ Continue /\ UNCHANGED migrationVars

MigrationsAtRest ==
    /\ backend = "sql"     \* the journal is one setting: a single read, a single write
    /\ \E n \in Versions \cup {0} :
           /\ journal = [i \in 1..n |-> i]
           /\ effects = [v \in Versions |-> IF v <= n THEN 1 ELSE 0]
    /\ disk \in {Versions, Range(journal)}

MigrationsNext ==
    \/ MigrationAppears
    \/ \E c \in Coros :
         \/ RunMigrations(c) \/ ReadAgain(c) \/ RollbackMigrations(c)
         \/ Upgrade(c) \/ Downgrade(c) \/ SaveJournal(c) \/ RunDies(c)

------------------------------------------------------------------------------
(* Properties. *)

Writing(v) == \E c \in Coros : At(c, "save") /\ Head(co[c].todo) = v

(* A migration is recorded exactly when its upgrade took effect, once, and was  *)
(* not taken back: whatever failed, while a run is between a module and the     *)
(* journal, and after any number of runs.  Only a run that died between the two, *)
(* and two runs that overlapped, leave a journal that says otherwise: "nothing   *)
(* is ever reported as applied unless its upgrade actually completed".            *)
JournalTrue ==
    Raced("journal", "both") \/ \A v \in Versions :
        \/ Raced("died", v) \/ Writing(v)
        \/ effects[v] = Cardinality({i \in DOMAIN journal : journal[i] = v}) /\ effects[v] \in {0, 1}

MigrationsSound == area = "migrations" =>
    /\ disk \subseteq Versions /\ Range(journal) \subseteq Versions
    /\ JournalTrue
==============================================================================
