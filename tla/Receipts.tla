------------------------------- MODULE Receipts -------------------------------
(* The receiver's side of a webhook: one signed delivery reaches                *)
(* verify_webhook_signature more than once, and its id is kept in a cache        *)
(* server for twice the tolerance of the timestamp (which is at least 30 s).     *)
(* Time is counted in halves of a second, of which int(time.time()) sees none.   *)
EXTENDS Coroutines, Sequences

CONSTANT Tolerance    \* tolerance_seconds

VARIABLES
    moment,     \* the receiver's clock
    stamp,      \* the second the sender signed
    seen,       \* tessera:webhook:seen:{delivery_id}: when it was set
    answered    \* history: when deliveries were accepted

receiptVars == <<moment, stamp, seen, answered>>

TimeGoesOn ==
    /\ moment < 2 * (stamp + Tolerance + 1)
    /\ moment' = moment + 1
    /\ Continue /\ UNCHANGED <<co, raced, stamp, seen, answered>>

InTolerance == LET s == moment \div 2 IN s <= stamp + Tolerance /\ stamp <= s + Tolerance

(* Any other delivery is refused at once. *)
VerifySignature(c) ==
    /\ InTolerance
    /\ Begin(c, [op |-> "verify", pc |-> "exists"])
    /\ UNCHANGED <<area, backend, raced, receiptVars>>

(* Mutant: the entry is kept for the tolerance only. *)
SeenBriefly == seen # None /\ moment < seen + 2 * Tolerance
Seen == seen # None /\ moment < seen + 4 * Tolerance

SeenBefore(c) ==
    /\ At(c, "exists")
    /\ IF Seen THEN Return(c) ELSE Goto(c, "set")
    /\ LET others == {d \in Busy(c) : At(d, "set")}
       IN  Overlap("id", "seen", IF InTolerance THEN others ELSE {c})
    /\ Continue /\ UNCHANGED receiptVars

SetSeen(c) ==
    /\ At(c, "set")
    /\ seen' = moment /\ answered' = Append(answered, moment)
    /\ Return(c)
    /\ Continue /\ UNCHANGED <<raced, moment, stamp>>

VerifyDies(c) ==
    /\ ~At(c, "idle")
    /\ Return(c)
    /\ Continue /\ UNCHANGED <<raced, receiptVars>>

ReceiptsAtRest ==
    /\ backend = "memory"    \* no database is asked
    /\ moment = 0 /\ stamp \in 0..Tolerance + 1
    /\ seen = None /\ answered = <<>>

ReceiptsNext ==
    \/ TimeGoesOn
    \/ \E c \in Coros : VerifySignature(c) \/ SeenBefore(c) \/ SetSeen(c) \/ VerifyDies(c)

------------------------------------------------------------------------------
(* Properties. *)

(* A delivery is accepted once: "the delivery id has not been seen before".     *)
(* Only calls that looked before either recorded it, a call that looked after    *)
(* the tolerance had run out, and a delivery that came in the first second of     *)
(* its tolerance, whose entry ends within the last, are excepted.                 *)
AcceptedOnce ==
    Len(answered) > 1 =>
        Raced("id", "seen") \/ answered[1] \div 2 + Tolerance = stamp

ReceiptsSound == area = "receipts" =>
    /\ seen \in {None} \cup 0..moment
    /\ AcceptedOnce
==============================================================================
