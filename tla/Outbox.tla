------------------------------- MODULE Outbox -------------------------------
(***************************************************************************)
(* internal/outbox/outbox.go: dispatchers that share one queue, here with  *)
(* the ordered consumer of internal/postgres/incident.go, whose projection *)
(* cursor follows the versions of each aggregate.  A tick claims a batch   *)
(* under a lease, hands each entry to its handler and reports the outcome; *)
(* entries of a batch wait for one of Concurrency slots, their lease       *)
(* running.  Processes crash, shut down and restart, and store calls and   *)
(* handlers fail, also after their commit.                                 *)
(***************************************************************************)
EXTENDS OutboxStore, Retry, FiniteSets

CONSTANTS
    Procs,         \* dispatcher processes
    Lease,         \* DefaultLeaseDuration
    BatchSize,     \* entries one claim takes
    Concurrency,   \* entries one tick handles at a time
    MaxAttempts,   \* attempts before a failing entry is given up
    GapTimeout,    \* AggregateGapTimeout
    Retention,     \* how long markers and dead letters stay
    Invalid,       \* entries whose payload no handler accepts
    LastWrite,     \* bound on the instant of the last write
    MaxOutages,    \* bound on crashes and shutdowns
    Events         \* which of crash, shutdown, store and handler may happen

ASSUME OutboxAssumption ==
    /\ Lease \in Nat \ {0} /\ GapTimeout \in Nat \ {0} /\ Retention \in Nat
    /\ BatchSize \in Nat \ {0} /\ Concurrency \in Nat \ {0}
    /\ MaxAttempts \in Nat \ {0}
    /\ LastWrite \in Nat /\ MaxOutages \in Nat
    /\ Invalid \subseteq Entries
    /\ Events \subseteq {"crash", "shutdown", "store", "handler"}

VARIABLES
    clock,
    written,    \* versions written of each aggregate
    cursor,     \* incident_projection_cursors: last version projected, 0 if none
    outages,    \* crashes and shutdowns so far
    mode,       \* each process: up, stopping (context cancelled) or down
    work        \* what each process does about each entry it claimed

processVars == <<outages, mode, work>>
vars == <<outboxVars, clock, written, cursor, processVars>>

-----------------------------------------------------------------------------
\* A claimed entry waits for a slot, is handled, then has its outcome reported.
\* The dispatcher keeps what the claim returned and the instant of its tick.
Works == [pc       : {"idle", "waiting", "handling", "reporting"},
          now      : Nat,
          attempts : Nat,
          gapSince : Nat \cup {Never},
          code     : Codes \cup {"none"}]

NoWork == [pc |-> "idle", now |-> 0, attempts |-> 0, gapSince |-> Never,
           code |-> "none"]

TypeOK ==
    /\ OutboxTypeOK
    /\ clock \in Nat
    /\ written \in [Aggregates -> 0..MaxVersion]
    /\ cursor \in [Aggregates -> 0..MaxVersion]
    /\ outages \in Nat
    /\ mode \in [Procs -> {"up", "stopping", "down"}]
    /\ work \in [Procs \X Entries -> Works]

Init ==
    /\ OutboxInit
    /\ clock = 0
    /\ written = [a \in Aggregates |-> 0]
    /\ cursor = [a \in Aggregates |-> 0]
    /\ outages = 0
    /\ mode = [p \in Procs |-> "up"]
    /\ work = [pe \in Procs \X Entries |-> NoWork]

-----------------------------------------------------------------------------
Work(p, e) == work[<<p, e>>]

\* The dispatcher is between ticks: a tick waits for every entry it claimed.
Between(p) == \A e \in Entries : Work(p, e).pc = "idle"

InFlight(p) == {e \in Entries : Work(p, e).pc \in {"handling", "reporting"}}

\* A store call can return an error: a database fault, or the cancelled
\* context of a process that is stopping.
CallMayFail(p) == "store" \in Events \/ mode[p] = "stopping"

Drop(p, e) == work' = [work EXCEPT ![<<p, e>>] = NoWork]

Conclude(p, e, code) ==
    work' = [work EXCEPT ![<<p, e>>].pc = "reporting", ![<<p, e>>].code = code]

-----------------------------------------------------------------------------
\* A producer's transaction writes the next version and its entry.
Write(a) ==
    LET e == EntryOf(a, written[a] + 1) IN
    /\ clock <= LastWrite
    /\ written[a] < MaxVersion
    /\ written' = [written EXCEPT ![a] = @ + 1]
    /\ Enqueue(e, clock)
    /\ UNCHANGED <<marked, dead, clock, cursor, processVars>>

Batches == {batch \in SUBSET Entries :
               batch # {} /\ Cardinality(batch) <= BatchSize}

ClaimBatch(p) ==
    /\ mode[p] = "up"
    /\ Between(p)
    /\ \E batch \in Batches :
          /\ Claim(batch, clock, clock + Lease)
          /\ work' = [pe \in Procs \X Entries |->
                        IF pe[1] = p /\ pe[2] \in batch
                        THEN [pc |-> "waiting", now |-> clock,
                              attempts |-> queue[pe[2]].attempts + 1,
                              gapSince |-> queue[pe[2]].gapSince, code |-> "none"]
                        ELSE work[pe]]
    /\ UNCHANGED <<clock, written, cursor, outages, mode>>

\* The claim committed, its answer was lost: the entries wait out the lease.
ClaimLost(p) ==
    /\ mode[p] # "down"
    /\ CallMayFail(p)
    /\ Between(p)
    /\ \E batch \in Batches : Claim(batch, clock, clock + Lease)
    /\ UNCHANGED <<clock, written, cursor, processVars>>

Begin(p, e) ==
    /\ Work(p, e).pc = "waiting"
    /\ Cardinality(InFlight(p)) < Concurrency
    /\ work' = [work EXCEPT ![<<p, e>>].pc = "handling"]
    /\ UNCHANGED <<outboxVars, clock, written, cursor, outages, mode>>

-----------------------------------------------------------------------------
\* ProcessHealthTransition: a marked event does nothing, a version at or below
\* the cursor is marked, the next version takes effect, a later one is a gap.
\* The Monitor's row is locked before the cursor is read; a marker read before
\* the lock can be out of date, and then the cursor answers the same.
\* (FollowsLoosely takes any later version for the next one.)
Replayed(e)       == e.version <= cursor[e.aggregate]
FollowsLoosely(e) == e.version > cursor[e.aggregate]
Follows(e)        == e.version = cursor[e.aggregate] + 1

Project(e) ==
    \/ /\ Marked(e)
       /\ UNCHANGED <<cursor, marked>>
    \/ /\ ~ Marked(e) /\ Replayed(e)
       /\ Mark(e, clock)
       /\ UNCHANGED cursor
    \/ /\ ~ Marked(e) /\ ~ Replayed(e) /\ Follows(e)
       /\ Mark(e, clock)
       /\ cursor' = [cursor EXCEPT ![e.aggregate] = e.version]

Gap(e) == ~ Marked(e) /\ ~ Replayed(e) /\ ~ Follows(e)

Handling(p, e) == Work(p, e).pc = "handling"

HandlerSucceeds(p, e) ==
    /\ Handling(p, e)
    /\ mode[p] = "up"
    /\ e \notin Invalid
    /\ Project(e)
    /\ Conclude(p, e, "none")
    /\ UNCHANGED <<queue, dead, clock, written, outages, mode>>

HandlerFindsGap(p, e) ==
    /\ Handling(p, e)
    /\ mode[p] = "up"
    /\ e \notin Invalid
    /\ Gap(e)
    /\ Conclude(p, e, "gap")
    /\ UNCHANGED <<outboxVars, clock, written, cursor, outages, mode>>

\* The payload is read before the database is.
HandlerRejects(p, e) ==
    /\ Handling(p, e)
    /\ e \in Invalid
    /\ Conclude(p, e, "permanent")
    /\ UNCHANGED <<outboxVars, clock, written, cursor, outages, mode>>

\* An error says nothing about the handler's commit.
HandlerFails(p, e) ==
    /\ Handling(p, e)
    /\ "handler" \in Events \/ mode[p] = "stopping"
    /\ e \notin Invalid
    /\ Project(e) \/ UNCHANGED <<cursor, marked>>
    /\ Conclude(p, e, "failed")
    /\ UNCHANGED <<queue, dead, clock, written, outages, mode>>

HandlerStep(p, e) ==
    \/ HandlerSucceeds(p, e) \/ HandlerFindsGap(p, e)
    \/ HandlerRejects(p, e) \/ HandlerFails(p, e)

-----------------------------------------------------------------------------
\* What the dispatcher does about an outcome, from what its claim returned and
\* the instant of its tick: give the entry up, or choose the next attempt.
\* (GivesUpOnBudget counts a gap's attempts too; DelayUncapped lets the backoff
\* pass the instant at which a gap is given up.)
GapEnds(w) == (IF w.gapSince = Never THEN w.now ELSE w.gapSince) + GapTimeout

GivesUpOnBudget(w) ==
    \/ w.code = "permanent"
    \/ w.code = "gap" /\ w.now >= GapEnds(w)
    \/ w.attempts >= MaxAttempts
GivesUp(w) ==
    \/ w.code = "permanent"
    \/ w.code = "gap" /\ w.now >= GapEnds(w)
    \/ w.code # "gap" /\ w.attempts >= MaxAttempts

DelayUncapped(w, delay) == w.now + delay
NextAttempt(w, delay) ==
    IF w.code = "gap" /\ w.now + delay > GapEnds(w) THEN GapEnds(w) ELSE w.now + delay

Fail(e, w) ==
    \/ GivesUp(w) /\ Bury(e, w.attempts, w.code, w.now)
    \/ /\ ~ GivesUp(w)
       /\ \E delay \in RetryDelays(w.attempts) :
             Retry(e, w.attempts, w.code, NextAttempt(w, delay), w.now)

\* The store call that reports an outcome: Succeed or Fail.
Report(e, w) ==
    \/ w.code = "none" /\ Succeed(e, w.attempts, w.now)
    \/ w.code # "none" /\ Fail(e, w)

Reporting(p, e) == Work(p, e).pc = "reporting"

ReportRecorded(p, e) ==
    /\ Reporting(p, e)
    /\ mode[p] = "up"
    /\ Report(e, Work(p, e))
    /\ Drop(p, e)
    /\ UNCHANGED <<clock, written, cursor, outages, mode>>

\* ErrLeaseLost: another claim has the entry, or has finished it.
ReportLost(p, e) ==
    /\ Reporting(p, e)
    /\ ~ HoldsEntry(e, Work(p, e).attempts)
    /\ Drop(p, e)
    /\ UNCHANGED <<outboxVars, clock, written, cursor, outages, mode>>

\* Any other error: the entry waits out its lease, unless the call committed.
ReportFails(p, e) ==
    /\ Reporting(p, e)
    /\ CallMayFail(p)
    /\ Report(e, Work(p, e)) \/ UNCHANGED outboxVars
    /\ Drop(p, e)
    /\ UNCHANGED <<clock, written, cursor, outages, mode>>

WorkStep(p, e) ==
    \/ Begin(p, e) \/ HandlerStep(p, e)
    \/ ReportRecorded(p, e) \/ ReportLost(p, e) \/ ReportFails(p, e)

-----------------------------------------------------------------------------
\* Serve cleans up when it starts and once a day, between ticks.
CleanupMarkers(p) ==
    /\ mode[p] = "up"
    /\ Between(p)
    /\ Cleanup(clock - Retention)
    /\ UNCHANGED <<clock, written, cursor, processVars>>

Crash(p) ==
    /\ "crash" \in Events
    /\ outages < MaxOutages
    /\ mode[p] # "down"
    /\ outages' = outages + 1
    /\ mode' = [mode EXCEPT ![p] = "down"]
    /\ work' = [pe \in Procs \X Entries |-> IF pe[1] = p THEN NoWork ELSE work[pe]]
    /\ UNCHANGED <<outboxVars, clock, written, cursor>>

\* SIGTERM cancels the context that handlers and store calls run under; nothing
\* releases the entries already claimed.
Shutdown(p) ==
    /\ "shutdown" \in Events
    /\ outages < MaxOutages
    /\ mode[p] = "up"
    /\ outages' = outages + 1
    /\ mode' = [mode EXCEPT ![p] = "stopping"]
    /\ UNCHANGED <<outboxVars, clock, written, cursor, work>>

Exit(p) ==
    /\ mode[p] = "stopping"
    /\ Between(p)
    /\ mode' = [mode EXCEPT ![p] = "down"]
    /\ UNCHANGED <<outboxVars, clock, written, cursor, outages, work>>

Restart(p) ==
    /\ mode[p] = "down"
    /\ mode' = [mode EXCEPT ![p] = "up"]
    /\ UNCHANGED <<outboxVars, clock, written, cursor, outages, work>>

ProcessStep(p) == Crash(p) \/ Shutdown(p) \/ Exit(p) \/ Restart(p)

Advance ==
    /\ clock < MaxTime
    /\ clock' = clock + 1
    /\ UNCHANGED <<outboxVars, written, cursor, processVars>>

Step ==
    \/ \E a \in Aggregates : Write(a)
    \/ \E p \in Procs : ClaimBatch(p) \/ ClaimLost(p) \/ CleanupMarkers(p) \/ ProcessStep(p)
    \/ \E p \in Procs, e \in Entries : WorkStep(p, e)

Next == Step \/ Advance

Spec == Init /\ [][Next]_vars

-----------------------------------------------------------------------------
(* Time in a fleet that keeps up: the clock stands still while a process   *)
(* is down, has work in hand or could claim some.                          *)

KeepsUp(p) ==
    /\ mode[p] = "up"
    /\ Between(p)
    /\ \A e \in Entries : ~ Claimable(e, clock)

AdvancePromptly == (\A p \in Procs : KeepsUp(p)) /\ Advance

TimelySpec == Init /\ [][Step \/ AdvancePromptly]_vars

\* The ticker keeps firing and Go runs every ready goroutine; processes are
\* started again; time passes.
Fairness ==
    /\ \A p \in Procs : WF_vars(ClaimBatch(p)) /\ WF_vars(Exit(p)) /\ WF_vars(Restart(p))
    /\ \A p \in Procs, e \in Entries : WF_vars(WorkStep(p, e))
    /\ WF_vars(AdvancePromptly)

FairSpec == TimelySpec /\ Fairness

-----------------------------------------------------------------------------
(* Properties *)

\* The versions of an aggregate take effect in order, each once: neither a
\* second worker whose predecessor's lease ran out, nor a redelivery after the
\* marker was cleaned up, nor a batch handled out of order changes that.
InOrder == INSTANCE Projection WITH applied <- cursor

ProjectsInOrder == InOrder!Spec

\* outbox.go:161-167, docs/backend-contract.md:1016: live rows are never removed
\* by cleanup.  An entry leaves the queue only when its version has taken
\* effect or it is kept as a dead letter.
NothingVanishes ==
    [][\A e \in Entries : Queued(e) /\ ~ Queued(e)' =>
          Replayed(e)' \/ Dead(e)']_vars

\* Until its lease expires, only the dispatcher that holds an entry touches its
\* row: no claim, report or cleanup of another one does.
Held(p, e) ==
    /\ Work(p, e).pc # "idle"
    /\ HoldsEntry(e, Work(p, e).attempts)
    /\ clock < queue[e].expires

LeaseProtects ==
    [][\A p \in Procs, e \in Entries :
          Held(p, e) /\ Work(p, e)' = Work(p, e) => queue'[e] = queue[e]]_vars

\* An entry is given up for a gap only when the gap was first seen GapTimeout
\* ago, however many attempts that took, and never as a poison entry.
GapPatience ==
    [][\A e \in Entries : ~ Dead(e) /\ Dead(e)' /\ dead'[e].code = "gap" =>
          /\ queue[e].gapSince # Never
          /\ clock >= queue[e].gapSince + GapTimeout]_vars

\* In a fleet that keeps up, a gap is decided when its time is over: the entry
\* was projected or given up, except for a lease an outage left behind.
GapDecided ==
    \A e \in Entries : Queued(e) /\ queue[e].gapSince # Never =>
       clock <= queue[e].gapSince + GapTimeout + outages * Lease

\* Every entry is handled or given up in the end, although handlers fail,
\* predecessors are missing and dispatchers crash with entries in hand.
EveryEntrySettles == \A e \in Entries : Queued(e) ~> ~ Queued(e)
=============================================================================
