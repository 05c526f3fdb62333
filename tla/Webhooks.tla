------------------------------ MODULE Webhooks ------------------------------
(* Webhook delivery: events are queued once per subscribed endpoint in a      *)
(* cache list; workers pop a job, post it, record the attempt in the database  *)
(* and push a retry.  Endpoints are changed and deleted meanwhile, and any      *)
(* coroutine may die between two calls.                                         *)
EXTENDS Naturals, FiniteSets, Sequences

CONSTANTS
    Events,       \* event ids; each has a type of its own
    Endpoints,    \* endpoint ids
    Workers,      \* coroutines that run process_pending_events
    Clients,      \* coroutines of the dispatching and the admin requests
    MaxRetries,   \* Len(RETRY_DELAYS_SECONDS)
    MaxJobs,      \* max_jobs of a cycle
    MaxChanges,   \* bound on the changes of endpoints
    MaxDeaths     \* bound on the coroutines that die

ASSUME CorosAssumption == Workers \cap Clients = {}
ASSUME RetriesAssumption == {MaxRetries, MaxJobs} \subseteq Nat

Coros    == Workers \cup Clients
Backends == {"memory", "sql", "mongodb", "dynamodb"}
NoJob    == <<>>

VARIABLES
    backend,    \* the adapter
    state,      \* of each endpoint: "new", "on", "off" or "gone"
    events,     \* the subscription of each endpoint; {} subscribes to all
    rows,       \* delivery rows: [job, ok]
    queue,      \* tessera:webhook:queue, its head first
    due,        \* jobs whose scheduled_for has passed
    co,         \* the coroutines' local state
    used,       \* event ids handed out
    fates,      \* history: <<event, endpoint, what became of it>>
    raced,      \* history: endpoints deleted while a row was being written
    changes, deaths

hookVars == <<backend, state, events, rows, queue, due, co, used, fates, raced, changes, deaths>>
endpoint == <<state, events>>
jobs     == <<queue, due>>
bounds   == <<changes, deaths>>

(* A job: the event, the endpoint and the attempts made so far. *)
Job(e, p, n) == <<e, p, n>>
EventOf(j) == j[1]
EndpointOf(j) == j[2]
Attempts(j) == j[3]

NoCall == [pc |-> "idle", job |-> NoJob, ok |-> FALSE, event |-> "none", list |-> {}, now |-> {},
         seen |-> 0, requeued |-> 0]

At(c, pc) == co[c].pc = pc
Enter(c, pc) == co' = [co EXCEPT ![c].pc = pc]
Return(c) == co' = [co EXCEPT ![c] = NoCall]
Live(p) == state[p] \in {"on", "off"}

------------------------------------------------------------------------------
(* Endpoints.  Registration, update and the four deletions. *)

RegisterEndpoint ==
    \E p \in Endpoints, sub \in {{}} \cup {{e} : e \in Events} :
        /\ state[p] = "new" /\ changes < MaxChanges
        /\ changes' = changes + 1
        /\ state' = [state EXCEPT ![p] = "on"]
        /\ events' = [events EXCEPT ![p] = sub]
        /\ UNCHANGED <<backend, rows, jobs, co, used, fates, raced, deaths>>

UpdateEndpoint ==
    \E p \in Endpoints, enabled \in {"on", "off"} :
        /\ Live(p) /\ state[p] # enabled /\ changes < MaxChanges
        /\ changes' = changes + 1
        /\ state' = [state EXCEPT ![p] = enabled]
        /\ UNCHANGED <<backend, events, rows, jobs, co, used, fates, raced, deaths>>

DeleteEndpoint(c) ==
    \E p \in Endpoints :
        /\ At(c, "idle") /\ Live(p) /\ changes < MaxChanges
        /\ changes' = changes + 1
        /\ co' = [co EXCEPT ![c].pc = "delete", ![c].job = Job("none", p, 0)]
        /\ UNCHANGED <<backend, endpoint, rows, jobs, used, fates, raced, deaths>>

RowsOf(p) == {r \in rows : EndpointOf(r.job) = p}
Target(c) == EndpointOf(co[c].job)
Deleting(p) == \E c \in Clients : co[c].pc \in {"delete", "deliveries", "profile"} /\ Target(c) = p
Writing(p) == \E c \in Coros : At(c, "insert") /\ Target(c) = p
Stamp(p) == raced' = IF Writing(p) THEN raced \cup {p} ELSE raced

DropProfile(c) == state' = [state EXCEPT ![Target(c)] = "gone"] /\ Return(c)

MemoryDelete(c) ==
    /\ backend = "memory" /\ At(c, "delete")
    /\ rows' = rows \ RowsOf(Target(c))
    /\ DropProfile(c)
    /\ UNCHANGED <<backend, events, jobs, used, fates, raced, bounds>>

(* One transaction; the rows it does not see yet survive it. *)
SqlDelete(c) ==
    /\ backend = "sql" /\ At(c, "delete")
    /\ rows' = rows \ RowsOf(Target(c))
    /\ DropProfile(c)
    /\ Stamp(Target(c))
    /\ UNCHANGED <<backend, events, jobs, used, fates, bounds>>

(* delete_many on the deliveries, then delete_one on the endpoint. *)
MongoDelete(c) ==
    /\ backend = "mongodb"
    /\ \/ /\ At(c, "delete")
          /\ rows' = rows \ RowsOf(Target(c))
          /\ Enter(c, "profile") /\ UNCHANGED state
       \/ /\ At(c, "profile")
          /\ DropProfile(c) /\ UNCHANGED rows
    /\ Stamp(Target(c))
    /\ UNCHANGED <<backend, events, jobs, used, fates, bounds>>

(* Query the deliveries, delete them one at a time, then the endpoint. *)
DynamoDelete(c) ==
    /\ backend = "dynamodb"
    /\ \/ /\ At(c, "delete")
          /\ co' = [co EXCEPT ![c].pc = "deliveries", ![c].list = RowsOf(Target(c))]
          /\ UNCHANGED <<rows, state>>
       \/ /\ At(c, "deliveries")
          /\ \E r \in co[c].list :
               /\ rows' = rows \ {r}
               /\ co' = [co EXCEPT ![c].list = @ \ {r}]
          /\ UNCHANGED state
       \/ /\ At(c, "deliveries") /\ co[c].list = {}
          /\ DropProfile(c) /\ UNCHANGED rows
    /\ Stamp(Target(c))
    /\ UNCHANGED <<backend, events, jobs, used, fates, bounds>>

------------------------------------------------------------------------------
(* dispatch_event: one job for every endpoint that is enabled and subscribed   *)
(* when the endpoints are listed; the pushes follow one by one.                 *)

Subscribed(p, e) ==
    /\ state[p] = "on"
    /\ events[p] = {} \/ e \in events[p]

DispatchEvent(c) ==
    \E e \in Events \ used :
        /\ At(c, "idle")
        /\ used' = used \cup {e}
        /\ co' = [co EXCEPT ![c].pc = "push", ![c].event = e,
                            ![c].list = {p \in Endpoints : Subscribed(p, e)}]
        /\ UNCHANGED <<backend, endpoint, rows, jobs, fates, raced, bounds>>

PushNext(c) ==
    /\ At(c, "push")
    /\ \/ co[c].list = {} /\ Return(c) /\ UNCHANGED jobs
       \/ \E p \in co[c].list :
            LET job == Job(co[c].event, p, 0) IN
            /\ queue' = <<job>> \o queue
            /\ due' = due \cup {job}
            /\ co' = [co EXCEPT ![c].list = @ \ {p}]
    /\ UNCHANGED <<backend, endpoint, rows, used, fates, raced, bounds>>

(* send_test_event delivers at once, whatever the endpoint subscribes to; a     *)
(* failure is retried through the queue.                                         *)
SendTestEvent(c) ==
    \E e \in Events \ used, p \in Endpoints :
        /\ At(c, "idle") /\ Live(p)
        /\ used' = used \cup {e}
        /\ co' = [co EXCEPT ![c].pc = "lookup", ![c].job = Job(e, p, 0)]
        /\ UNCHANGED <<backend, endpoint, rows, jobs, fates, raced, bounds>>

------------------------------------------------------------------------------
(* process_pending_events.  "now" is read once, at the start of the cycle.      *)

StartCycle(w) ==
    /\ At(w, "idle")
    /\ co' = [co EXCEPT ![w].pc = "pop", ![w].now = due]
    /\ UNCHANGED <<backend, endpoint, rows, jobs, used, fates, raced, bounds>>

PopJob(w) ==
    LET last == queue[Len(queue)] IN
    /\ At(w, "pop")
    /\ IF queue = <<>> \/ co[w].seen = MaxJobs THEN Return(w) /\ UNCHANGED queue
       ELSE /\ queue' = SubSeq(queue, 1, Len(queue) - 1)
            /\ co' = [co EXCEPT ![w].pc = IF last \in co[w].now THEN "lookup" ELSE "putback",
                                ![w].job = last, ![w].seen = @ + 1]
    /\ UNCHANGED <<backend, endpoint, rows, due, used, fates, raced, bounds>>

(* Mutant: the job that is not due is not pushed again. *)
PutBackNot(w) ==
    /\ At(w, "putback")
    /\ IF co[w].requeued + 1 >= co[w].seen THEN Return(w)
       ELSE co' = [co EXCEPT ![w].pc = "pop", ![w].job = NoJob, ![w].requeued = @ + 1]
    /\ UNCHANGED <<backend, endpoint, rows, jobs, used, fates, raced, bounds>>

(* Not due: back at the head.  The cycle ends when all it has seen was so.      *)
PutBack(w) ==
    /\ At(w, "putback")
    /\ queue' = <<co[w].job>> \o queue
    /\ IF co[w].requeued + 1 >= co[w].seen THEN Return(w)
       ELSE co' = [co EXCEPT ![w].pc = "pop", ![w].job = NoJob, ![w].requeued = @ + 1]
    /\ UNCHANGED <<backend, endpoint, rows, due, used, fates, raced, bounds>>

------------------------------------------------------------------------------
(* _deliver_job *)

(* The job is settled: a worker pops the next one, a test request returns. *)
Settle(c, fate) ==
    /\ fates' = fates \cup {<<EventOf(co[c].job), EndpointOf(co[c].job), fate>>}
    /\ due' = due \ {co[c].job}

NextJob(c) ==
    IF c \in Workers THEN co' = [co EXCEPT ![c].pc = "pop", ![c].job = NoJob, ![c].ok = FALSE]
    ELSE Return(c)

(* A job whose endpoint is gone or disabled by now is dropped. *)
ReadEndpoint(c) ==
    /\ At(c, "lookup")
    /\ IF state[Target(c)] = "on"
       THEN Enter(c, "post") /\ UNCHANGED <<fates, due>>
       ELSE Settle(c, "dropped") /\ NextJob(c)
    /\ UNCHANGED <<backend, endpoint, rows, queue, used, raced, bounds>>

(* The answer, a transport error, or an address that is no longer safe. *)
Post(c) ==
    /\ At(c, "post")
    /\ \E ok \in BOOLEAN : co' = [co EXCEPT ![c].pc = "record", ![c].ok = ok]
    /\ UNCHANGED <<backend, endpoint, rows, jobs, used, fates, raced, bounds>>

(* IntegrityError of save_webhook_delivery ends the whole cycle. *)
DropJob(c) == Settle(c, "dropped") /\ Return(c) /\ UNCHANGED rows

(* Mutant: the answer is not looked at. *)
RetriesAfterSuccess(c) == Attempts(co[c].job) < MaxRetries

Retries(c) == ~co[c].ok /\ Attempts(co[c].job) < MaxRetries

SaveRow(c) ==
    /\ rows' = rows \cup {[job |-> co[c].job, ok |-> co[c].ok]}
    /\ IF Retries(c) THEN Enter(c, "retry") /\ UNCHANGED <<fates, due>>
       ELSE Settle(c, IF co[c].ok THEN "delivered" ELSE "exhausted") /\ NextJob(c)

(* save_webhook_delivery *)
MemoryRecord(c) ==
    /\ backend = "memory" /\ At(c, "record")
    /\ IF Live(Target(c)) THEN SaveRow(c) ELSE DropJob(c)
    /\ UNCHANGED <<backend, endpoint, queue, used, raced, bounds>>

(* The other adapters read the endpoint, then write the row. *)
CheckEndpoint(c) ==
    /\ At(c, "record")
    /\ IF Live(Target(c)) THEN Enter(c, "insert") /\ UNCHANGED <<rows, fates, due>> ELSE DropJob(c)
    /\ raced' = IF Deleting(Target(c)) THEN raced \cup {Target(c)} ELSE raced
    /\ UNCHANGED <<backend, endpoint, queue, used, bounds>>

SqlRecord(c) == backend = "sql" /\ CheckEndpoint(c)
MongoRecord(c) == backend = "mongodb" /\ CheckEndpoint(c)
DynamoRecord(c) == backend = "dynamodb" /\ CheckEndpoint(c)

InsertRow(c) ==
    /\ At(c, "insert")
    /\ SaveRow(c)
    /\ UNCHANGED <<backend, endpoint, queue, used, raced, bounds>>

Retry(c) ==
    LET j == co[c].job IN
    /\ At(c, "retry")
    /\ queue' = <<Job(EventOf(j), EndpointOf(j), Attempts(j) + 1)>> \o queue
    /\ due' = due \ {j}
    /\ NextJob(c)
    /\ UNCHANGED <<backend, endpoint, rows, used, fates, raced, bounds>>

------------------------------------------------------------------------------
Queued == {queue[i] : i \in 1..Len(queue)}
Waiting == Queued \cup {co[w].job : w \in {v \in Workers : At(v, "putback")}}

(* scheduled_for passes. *)
TimePasses ==
    \E j \in Waiting \ due :
        /\ due' = due \cup {j}
        /\ UNCHANGED <<backend, endpoint, rows, queue, co, used, fates, raced, bounds>>

(* The job in hand is out of the queue: it dies with its coroutine.  So do the  *)
(* endpoints a dispatch has not reached.                                          *)
InHand(c) == IF c \in Workers \/ co[c].pc \in {"lookup", "post", "record", "insert", "retry"}
             THEN {co[c].job} \ {NoJob} ELSE {}

Dies(c) ==
    /\ ~At(c, "idle") /\ deaths < MaxDeaths
    /\ deaths' = deaths + 1
    /\ fates' = fates \cup {<<EventOf(j), EndpointOf(j), "lost">> : j \in InHand(c)}
    /\ due' = due \ InHand(c)
    /\ Return(c)
    /\ UNCHANGED <<backend, endpoint, rows, queue, used, raced, changes>>

HookInit ==
    /\ backend \in Backends
    /\ state \in [Endpoints -> {"new", "on"}]
    /\ events = [p \in Endpoints |-> {}]
    /\ rows = {} /\ queue = <<>> /\ due = {}
    /\ co = [c \in Coros |-> NoCall]
    /\ used = {} /\ fates = {} /\ raced = {} /\ changes = 0 /\ deaths = 0

Delivery(c) ==
    \/ ReadEndpoint(c) \/ Post(c) \/ InsertRow(c) \/ Retry(c)
    \/ MemoryRecord(c) \/ SqlRecord(c) \/ MongoRecord(c) \/ DynamoRecord(c)

Request(c) ==
    \/ DispatchEvent(c) \/ SendTestEvent(c) \/ DeleteEndpoint(c)

Running(c) ==
    \/ PushNext(c)
    \/ MemoryDelete(c) \/ SqlDelete(c) \/ MongoDelete(c) \/ DynamoDelete(c)

HookNext ==
    \/ RegisterEndpoint \/ UpdateEndpoint \/ TimePasses
    \/ \E c \in Clients : Request(c) \/ Running(c)
    \/ \E w \in Workers : StartCycle(w) \/ PopJob(w) \/ PutBack(w)
    \/ \E c \in Coros : Delivery(c) \/ Dies(c)

(* Requests run to their end, time passes, and somebody keeps calling          *)
(* process_pending_events.                                                       *)
Fairness ==
    /\ \A c \in Clients : WF_hookVars(Running(c) \/ Delivery(c))
    /\ \A w \in Workers : WF_hookVars(StartCycle(w) \/ PopJob(w) \/ PutBack(w) \/ Delivery(w))
    /\ \A e \in Events, p \in Endpoints, n \in 1..MaxRetries :
           WF_hookVars(Job(e, p, n) \in Waiting /\ Job(e, p, n) \notin due
                   /\ due' = due \cup {Job(e, p, n)}
                   /\ UNCHANGED <<backend, endpoint, rows, queue, co, used, fates, raced, bounds>>)

HookSpec == HookInit /\ [][HookNext]_hookVars /\ Fairness

------------------------------------------------------------------------------
(* Properties. *)

Jobs == {Job(e, p, n) : e \in Events, p \in Endpoints, n \in 0..MaxRetries}

HookTypeOK ==
    /\ backend \in Backends /\ state \in [Endpoints -> {"new", "on", "off", "gone"}]
    /\ rows \subseteq [job : Jobs, ok : BOOLEAN] /\ Queued \subseteq Jobs /\ due \subseteq Jobs
    /\ used \subseteq Events /\ raced \subseteq Endpoints
    /\ \A c \in Coros : co[c].requeued <= co[c].seen /\ co[c].seen <= MaxJobs

Copies(e, p) ==
    LET mine(j) == j # NoJob /\ EventOf(j) = e /\ EndpointOf(j) = p
    IN Cardinality({i \in 1..Len(queue) : mine(queue[i])})
       + Cardinality({c \in Coros : InHand(c) # {} /\ mine(co[c].job)})
Fates(e, p) == {f \in fates : f[1] = e /\ f[2] = p}

(* Every job is in one place and comes to one end.  An event for an endpoint is *)
(* queued once or held by one coroutine until it is delivered, given up after    *)
(* the last retry, dropped with its endpoint or lost with a coroutine; never      *)
(* twice, and never again after that.  No attempt is recorded twice, and a        *)
(* deleted endpoint keeps a row only if one was being written meanwhile.          *)
JobsAccounted ==
    /\ HookTypeOK
    /\ \A e \in Events, p \in Endpoints : Copies(e, p) + Cardinality(Fates(e, p)) <= 1
    /\ \A r \in rows : Attempts(r.job) <= MaxRetries
    /\ \A r, s \in rows : r.job = s.job => r = s
    /\ \A r \in rows : r.ok => Copies(EventOf(r.job), EndpointOf(r.job)) = 0
    /\ \A p \in Endpoints : state[p] = "gone" => RowsOf(p) = {} \/ p \in raced

(* Every job that is queued is settled in the end: a job that is not due and    *)
(* stops a cycle early does not keep the due ones behind it for ever.            *)
EventuallySettled ==
    \A e \in Events, p \in Endpoints : Copies(e, p) > 0 ~> Fates(e, p) # {}
==============================================================================
