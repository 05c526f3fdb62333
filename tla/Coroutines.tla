------------------------------ MODULE Coroutines ------------------------------
(* What the request handlers of one deployment share: an adapter, coroutines   *)
(* of several processes that are suspended between two calls, and the history   *)
(* of the steps that overlapped.  The parts that extend this module share no    *)
(* state: a behaviour is about one of them.                                     *)
EXTENDS Naturals, FiniteSets

CONSTANTS
    Coros,      \* coroutines
    Procs,      \* processes of the deployment
    MaxFlows,   \* bound on the flows started
    Longer,     \* parts whose behaviours start one flow more
    None        \* no value (a model value)

ASSUME NoneAssumption == None \notin Nat
ASSUME ProcsAssumption == Procs # {}
ASSUME FlowsAssumption == MaxFlows \in Nat

Backends == {"memory", "sql", "mongodb", "dynamodb"}

VARIABLES
    area,      \* the part of the system the behaviour is about
    backend,   \* the adapter
    co,        \* the coroutines' local state
    flows,     \* flows started so far
    raced      \* history: <<kind, id>> of the steps that overlapped

base == <<area, backend, co, flows, raced>>

Idle == [op |-> "none", pc |-> "idle"]

At(c, pc) == co[c].pc = pc
Become(c, frame) == co' = [co EXCEPT ![c] = frame]
Goto(c, pc) == Become(c, [co[c] EXCEPT !.pc = pc])
Return(c) == Become(c, Idle)

FlowBound == IF area \in Longer THEN MaxFlows + 1 ELSE MaxFlows

(* A handler is called. *)
MayBegin(c) == At(c, "idle") /\ flows < FlowBound
Begin(c, frame) ==
    /\ MayBegin(c)
    /\ flows' = flows + 1
    /\ Become(c, frame)

(* The handler goes on: nothing is started. *)
Continue == UNCHANGED <<area, backend, flows>>

Busy(c) == {d \in Coros \ {c} : ~At(d, "idle")}

(* Awaiting a method of the in-memory adapter hands the loop to nobody else. *)
Alone(c) == backend = "memory" => Busy(c) = {}

Overlap(kind, id, ds) == raced' = IF ds = {} THEN raced ELSE raced \cup {<<kind, id>>}
Raced(kind, id) == <<kind, id>> \in raced

(* Only a database outside the process is shared by several of them. *)
Reachable == IF backend = "memory" THEN {CHOOSE p \in Procs : TRUE} ELSE Procs

BaseInit(a) ==
    /\ area = a /\ backend \in Backends
    /\ co = [c \in Coros |-> Idle]
    /\ flows = 0 /\ raced = {}
==============================================================================
