--------------------------- MODULE WebhookDelivery ---------------------------
(***************************************************************************)
(* internal/webhook/delivery.go and delivery_dispatcher.go: dispatchers    *)
(* that share the table of deliveries.  A tick claims a batch under a      *)
(* lease, calls every destination at once and records each outcome.  A     *)
(* lease that runs out lets another dispatcher take the delivery over.     *)
(***************************************************************************)
EXTENDS Webhooks, Retry

CONSTANTS
    Procs,         \* dispatcher processes
    Lease,         \* DeliveryLeaseDuration
    BatchSize,     \* DeliveryBatchSize
    MaxOutages,    \* bound on crashes and shutdowns
    Events         \* which of crash, shutdown, store and invalid may happen

ASSUME WebhookDeliveryAssumption ==
    /\ Lease \in Nat \ {0}
    /\ BatchSize \in Nat \ {0}
    /\ MaxOutages \in Nat
    /\ Events \subseteq {"crash", "shutdown", "store", "invalid"}

VARIABLES
    outages,    \* crashes and shutdowns so far
    mode,       \* each process: up, stopping (context cancelled) or down
    work        \* what each process does about each delivery it claimed

processVars == <<outages, mode, work>>

\* Each claimed delivery has a goroutine from the start: as many may run as a batch
\* has.  The work keeps what the claim returned.
Works ==
    [pc : {"idle", "ready", "calling", "reporting"}, number : 0..MaxAttempts,
     secret : 0..MaxSecret, expires : Nat, finished : Nat,
     outcome : Outcomes, retry : BOOLEAN]
NoWork == [pc |-> "idle", number |-> 0, secret |-> 0, expires |-> 0, finished |-> 0,
           outcome |-> "none", retry |-> FALSE]

DeliveryTypeOK ==
    /\ WebhookTypeOK
    /\ clock \in Time
    /\ outages \in Nat
    /\ mode \in [Procs -> {"up", "stopping", "down"}]
    /\ work \in [Procs \X Deliveries -> Works]

DeliveryInit ==
    /\ WebhookInit
    /\ outages = 0
    /\ mode = [p \in Procs |-> "up"]
    /\ work = [pd \in Procs \X Deliveries |-> NoWork]

-----------------------------------------------------------------------------
Work(p, d) == work[<<p, d>>]

\* A tick waits for every delivery it claimed.
Between(p) == \A d \in Deliveries : Work(p, d).pc = "idle"

CallMayFail(p) == "store" \in Events \/ mode[p] = "stopping"

Drop(p, d) == work' = [work EXCEPT ![<<p, d>>] = NoWork]

\* SKIP LOCKED may leave out any row, so a batch is any part of what is due.
Batches == {batch \in SUBSET {d \in Deliveries : Claimable(d, clock)} :
               Cardinality(batch) <= BatchSize}

Taken(d) ==
    [pc |-> "ready", number |-> delivery[d].attempts + 1, secret |-> delivery[d].secret,
     expires |-> clock + Lease, finished |-> 0, outcome |-> "none", retry |-> FALSE]

Claim(p) ==
    /\ mode[p] = "up"
    /\ Between(p)
    /\ \E batch \in Batches :
          /\ ClaimDeliveries(batch, clock, clock + Lease)
          /\ work' = [pd \in Procs \X Deliveries |->
                IF pd[1] = p /\ pd[2] \in batch THEN Taken(pd[2]) ELSE work[pd]]
    /\ UNCHANGED <<clock, outages, mode>>

\* The claim committed, its answer was lost: the deliveries wait out the lease.
ClaimLost(p) ==
    /\ mode[p] # "down"
    /\ CallMayFail(p)
    /\ Between(p)
    /\ \E batch \in Batches : ClaimDeliveries(batch, clock, clock + Lease)
    /\ UNCHANGED <<clock, processVars>>

-----------------------------------------------------------------------------
\* Execute: what ends it, when, and whether another attempt may help.
Concluded(w, outcome, retry) ==
    [pc |-> "reporting", number |-> w.number, secret |-> w.secret, expires |-> w.expires,
     finished |-> clock, outcome |-> outcome, retry |-> retry]

Conclude(p, d, outcome, retry) ==
    work' = [work EXCEPT ![<<p, d>>] = Concluded(@, outcome, retry)]

\* The destination, the secret or the payload is not usable: no retry would help.
Refuse(p, d) == "invalid" \in Events /\ Conclude(p, d, "failed", FALSE)

Begin(p, d) ==
    /\ Work(p, d).pc = "ready"
    /\ \/ mode[p] = "stopping" /\ Conclude(p, d, "cancelled", TRUE)
       \/ mode[p] = "up" /\ Refuse(p, d)
       \/ mode[p] = "up" /\ work' = [work EXCEPT ![<<p, d>>].pc = "calling"]
    /\ UNCHANGED <<webhookVars, clock, outages, mode>>

\* The receiver accepts, refuses, or fails in a way that may pass, as do a timeout
\* and a network fault; a shutdown cancels the call, whatever the receiver made of it.
Answer(p, d) ==
    /\ Work(p, d).pc = "calling"
    /\ \/ Conclude(p, d, "succeeded", FALSE)
       \/ \E retry \in BOOLEAN : Conclude(p, d, "failed", retry)
       \/ mode[p] = "stopping" /\ Conclude(p, d, "cancelled", TRUE)
    /\ UNCHANGED <<webhookVars, clock, outages, mode>>

\* (SettlesOnlyFinal has no last attempt.)
SettlesOnlyFinal(w) == ~ w.retry
Settles(w) == ~ w.retry \/ w.number >= MaxAttempts

Report(d, w) ==
    \E delay \in RetryDelays(w.number) :
        Complete(d, w.number, w.outcome, w.finished, Settles(w), w.finished + delay)

ReportRecorded(p, d) ==
    /\ Work(p, d).pc = "reporting"
    /\ Report(d, Work(p, d))
    /\ Drop(p, d)
    /\ UNCHANGED <<clock, outages, mode>>

ReportLost(p, d) ==
    /\ Work(p, d).pc = "reporting"
    /\ ~ HoldsDelivery(d, Work(p, d).number, Work(p, d).finished)
    /\ Drop(p, d)
    /\ UNCHANGED <<webhookVars, clock, outages, mode>>

\* Any other error: the delivery waits out its lease, unless the call committed.
ReportFails(p, d) ==
    /\ Work(p, d).pc = "reporting"
    /\ CallMayFail(p)
    /\ Drop(p, d)
    /\ UNCHANGED <<webhookVars, clock, outages, mode>>

WorkStep(p, d) ==
    \/ Begin(p, d) \/ Answer(p, d)
    \/ ReportRecorded(p, d) \/ ReportLost(p, d) \/ ReportFails(p, d)

-----------------------------------------------------------------------------
Crash(p) ==
    /\ "crash" \in Events
    /\ outages < MaxOutages
    /\ mode[p] # "down"
    /\ outages' = outages + 1
    /\ mode' = [mode EXCEPT ![p] = "down"]
    /\ work' = [pd \in Procs \X Deliveries |-> IF pd[1] = p THEN NoWork ELSE work[pd]]
    /\ UNCHANGED <<webhookVars, clock>>

Shutdown(p) ==
    /\ "shutdown" \in Events
    /\ outages < MaxOutages
    /\ mode[p] = "up"
    /\ outages' = outages + 1
    /\ mode' = [mode EXCEPT ![p] = "stopping"]
    /\ UNCHANGED <<webhookVars, clock, work>>

Exit(p) ==
    /\ mode[p] = "stopping"
    /\ Between(p)
    /\ mode' = [mode EXCEPT ![p] = "down"]
    /\ UNCHANGED <<webhookVars, clock, outages, work>>

Restart(p) ==
    /\ mode[p] = "down"
    /\ mode' = [mode EXCEPT ![p] = "up"]
    /\ UNCHANGED <<webhookVars, clock, outages, work>>

ProcessStep(p) == Crash(p) \/ Shutdown(p) \/ Exit(p) \/ Restart(p)

DispatchStep ==
    \/ \E p \in Procs : Claim(p) \/ ClaimLost(p) \/ ProcessStep(p)
    \/ \E p \in Procs, d \in Deliveries : WorkStep(p, d)

\* A fleet that keeps up: every process is up and between ticks with nothing to do.
KeepsUp(p) ==
    /\ mode[p] = "up"
    /\ Between(p)
    /\ \A d \in Deliveries : ~ Claimable(d, clock) /\ ~ Exhausted(d, clock)

-----------------------------------------------------------------------------
(* Properties of the dispatchers *)

\* While its lease lasts, a dispatcher is the only one to call the destination of
\* a delivery, with the attempt's own number.
Holding(p, d) == Work(p, d).pc # "idle" /\ clock < Work(p, d).expires

OneCaller ==
    \A p, q \in Procs, d \in Deliveries : Holding(p, d) /\ Holding(q, d) => p = q

\* A call within its lease is signed with a secret that receivers still have to
\* accept: it is retired only once no dispatcher is about to use it.
SignedWithLiveSecret ==
    \A p \in Procs, d \in Deliveries :
        Work(p, d).pc \in {"ready", "calling"} /\ clock < Work(p, d).expires
            => secret[<<d[2], Work(p, d).secret>>] \in {"active", "retiring"}

\* Every delivery ends in success or failure, although dispatchers crash in calls.
EveryDeliverySettles == \A d \in Deliveries : Unfinished(d) ~> ~ Unfinished(d)
=============================================================================
