---------------------------- MODULE BotProtection ----------------------------
(* The sliding windows of BotProtectionManager for one identifier, and its       *)
(* ledger of actions: lists in a cache server, which are trimmed by reading,     *)
(* deleting and pushing what is kept.  Requests are numbered in the order their  *)
(* timestamps are taken.                                                         *)
EXTENDS Coroutines, Sequences, SequencesExt

CONSTANTS PerMinute, PerHour,   \* max_requests_per_minute, max_requests_per_hour
          MaxEntries            \* _ACTION_LOG_MAX_ENTRIES

VARIABLES
    lists,      \* the stored lists, newest first
    stamped,    \* requests let through so far
    old,        \* how many of them are more than a minute old
    actions     \* actions recorded so far

botVars == <<lists, stamped, old, actions>>

Windows == {"minute", "hour"}
Limit(w) == IF w = "minute" THEN PerMinute ELSE PerHour

(* No behaviour lasts an hour. *)
Recent(w) == IF w = "minute" THEN (old + 1)..stamped ELSE 1..stamped
Kept(w, s) == SelectSeq(s, LAMBDA n : n \in Recent(w))

BotCall(c, kind, w, step) ==
    /\ Begin(c, [op |-> kind, list |-> w, pc |-> step, kept |-> <<>>, id |-> 0])
    /\ UNCHANGED <<area, backend, raced, botVars>>

(* Requests, other than c's, that have counted a window and are not in both. *)
Admitting(c) ==
    {d \in Busy(c) : co[d].op = "request" /\ ~(At(d, "count") /\ co[d].list = "minute")}

(* Calls, other than c's, that hold a copy of the list they are to rebuild. *)
Rebuilding(c, w) == {d \in Busy(c) : co[d].list = w /\ co[d].pc \in {"drop", "rebuild"}}

------------------------------------------------------------------------------
(* check_rate_limit *)
CheckRateLimit(c) == BotCall(c, "request", "minute", "count")

(* Counted, the request goes to the next window, or takes its timestamp. *)
Counted(c, n) ==
    LET w == co[c].list IN
    IF n >= Limit(w) THEN Return(c) /\ UNCHANGED stamped
    ELSE IF w = "minute"
    THEN /\ co' = [co EXCEPT ![c].list = "hour", ![c].pc = "count", ![c].kept = <<>>]
          /\ UNCHANGED stamped
    ELSE /\ stamped' = stamped + 1
         /\ co' = [co EXCEPT ![c].list = "minute", ![c].pc = "push", ![c].id = stamped']

(* _window_count: entries that have become old by now are to be trimmed. *)
CountWindow(c) ==
    LET w == co[c].list IN
    /\ At(c, "count")
    /\ \E n \in old..stamped : old' = n
    /\ LET kept == SelectSeq(lists[w], LAMBDA n : w = "hour" \/ n > old') IN
       IF kept = lists[w] THEN Counted(c, Len(kept))
       ELSE co' = [co EXCEPT ![c].pc = "drop", ![c].kept = kept] /\ UNCHANGED stamped
    /\ Overlap("count", "both", Admitting(c))
    /\ Continue /\ UNCHANGED <<lists, actions>>

(* Mutant: the list is rebuilt in the order it was read. *)
ReadOrder(kept) == Reverse(kept)
Rebuilt(kept) == kept

DropList(c) ==
    LET w == co[c].list IN
    /\ At(c, "drop")
    /\ lists' = [lists EXCEPT ![w] = <<>>]
    /\ Goto(c, "rebuild")
    /\ Overlap("list", w, Rebuilding(c, w))
    /\ Continue /\ UNCHANGED <<stamped, old, actions>>

(* What is kept is pushed onto what is there by then. *)
RebuildList(c) ==
    LET w == co[c].list IN
    /\ At(c, "rebuild")
    /\ lists' = [lists EXCEPT ![w] = Rebuilt(co[c].kept) \o @]
    /\ IF co[c].op = "request" THEN Counted(c, Len(co[c].kept)) ELSE Return(c) /\ UNCHANGED stamped
    /\ Continue /\ UNCHANGED <<raced, old, actions>>

PushRequest(c) ==
    LET w == co[c].list IN
    /\ At(c, "push")
    /\ lists' = [lists EXCEPT ![w] = <<co[c].id>> \o @]
    /\ IF w = "minute" THEN co' = [co EXCEPT ![c].list = "hour"] ELSE Return(c)
    /\ Overlap("list", w, Rebuilding(c, w))
    /\ Continue /\ UNCHANGED <<stamped, old, actions>>

------------------------------------------------------------------------------
(* record_action *)
RecordAction(c) == BotCall(c, "action", "actions", "append")

AppendAction(c) ==
    /\ At(c, "append")
    /\ actions' = actions + 1
    /\ lists' = [lists EXCEPT !["actions"] = <<actions'>> \o @]
    /\ Goto(c, "measure")
    /\ Overlap("list", "actions", Rebuilding(c, "actions"))
    /\ Continue /\ UNCHANGED <<stamped, old>>

MeasureActions(c) ==
    LET s == lists["actions"] IN
    /\ At(c, "measure")
    /\ IF Len(s) > MaxEntries
       THEN co' = [co EXCEPT ![c].pc = "drop", ![c].kept = SubSeq(s, 1, MaxEntries)]
       ELSE Return(c)
    /\ Continue /\ UNCHANGED <<raced, botVars>>

(* A request is cancelled, or its process ends. *)
BotDies(c) ==
    /\ ~At(c, "idle")
    /\ Overlap("died", co[c].list,
               IF co[c].pc \in {"rebuild", "push", "measure", "drop"} THEN {c} ELSE {})
    /\ Return(c)
    /\ Continue /\ UNCHANGED botVars

BotAtRest ==
    /\ backend = "memory"      \* the adapter plays no part
    /\ \E n \in 0..PerMinute :
           /\ stamped = n /\ lists = [w \in Windows |-> [i \in 1..n |-> n + 1 - i]]
                                     @@ ("actions" :> [i \in 1..MaxEntries |-> MaxEntries + 1 - i])
    /\ old = 0 /\ actions = MaxEntries

BotNext ==
    \E c \in Coros :
        \/ CheckRateLimit(c) \/ CountWindow(c) \/ DropList(c) \/ RebuildList(c) \/ PushRequest(c)
        \/ RecordAction(c) \/ AppendAction(c) \/ MeasureActions(c) \/ BotDies(c)

------------------------------------------------------------------------------
(* Properties. *)

(* The requests let through in a window are no more than its limit, unless two  *)
(* of them counted it before either was in the list.                            *)
LimitKept ==
    \A w \in Windows : Cardinality(Recent(w)) > Limit(w) =>
        Raced("count", "both") \/ \E v \in Windows : Raced("list", v) \/ Raced("died", v)

(* With no call in progress a window holds each recent request once, and the    *)
(* ledger the last actions, newest first, unless an entry was pushed, or the    *)
(* list deleted, while another call was to rebuild it, or a call died before it *)
(* had pushed what it was to push.                                              *)
ListsWhole ==
    \A w \in Windows \cup {"actions"} :
        \/ Raced("list", w) \/ Raced("died", "minute") \/ Raced("died", w)
        \/ \E c \in Coros : ~At(c, "idle")
        \/ IF w = "actions"
           THEN lists[w] = [i \in 1..MaxEntries |-> actions + 1 - i]
           ELSE LET kept == Kept(w, lists[w])
                IN ToSet(kept) = Recent(w) /\ IsInjective(kept)

BotSound == area = "bot" =>
    /\ old \in 0..stamped
    /\ \A w \in Windows : ToSet(lists[w]) \subseteq 1..stamped
    /\ LimitKept /\ ListsWhole
==============================================================================
