----------------------------- MODULE Scheduler -----------------------------
(***************************************************************************)
(* internal/run/scheduler.go: embedded worker processes that share one Run *)
(* store.  A process ticks: it lists the active Monitors, and for each one *)
(* whose current slot it has not attempted it starts a task that records   *)
(* the missed slots newest first, claims the due slot, executes the check  *)
(* and records the result under the lease it took.  Processes crash, shut  *)
(* down and restart, store calls fail (also after their commit), leases    *)
(* expire while their task still runs, and Monitors change meanwhile.      *)
(***************************************************************************)
EXTENDS RunStore, Schedule, FiniteSets

CONSTANTS
    Procs,         \* worker processes
    Interval,      \* effective interval of each Monitor
    Offset,        \* slot offset of each Monitor
    Ceiling,       \* the operator's execution ceiling
    Margin,        \* LeaseMargin
    MaxLease,      \* MaxLeaseDuration
    MaxBackfill,   \* MaxBackfillSlots
    Concurrency,   \* execution slots of a process
    Start,         \* the clock when the model starts
    MaxOutages,    \* bound on crashes and shutdowns
    LastEdit,      \* the last instant at which an edit reads the clock
    Events         \* which of crash, shutdown, store and edit may happen

ASSUME SchedulerAssumption ==
    /\ Interval \in [Monitors -> Nat \ {0}]
    /\ Offset \in [Monitors -> Nat]
    /\ \A m \in Monitors : Offset[m] < Interval[m] /\ Interval[m] <= Start
    /\ Ceiling \in Nat /\ Margin \in Nat /\ MaxLease \in Nat
    /\ MaxBackfill \in Nat \ {0} /\ MaxOutages \in Nat /\ LastEdit \in Nat
    /\ Concurrency \in Nat \ {0}
    /\ Start \in 1..MaxTime
    /\ MaxRevision >= 1
    /\ Events \subseteq {"crash", "shutdown", "store", "edit"}

VARIABLES
    clock,
    catalogue,    \* the monitors rows the scheduler reads
    edits,        \* the edit of each Monitor under way
    outages,      \* crashes and shutdowns so far
    mode,         \* each process: up, stopping (context cancelled) or down
    attempted,    \* Scheduler.attempted of each process
    tick,         \* the Tick each process is in
    tasks         \* the goroutine of each process for each Monitor

processVars == <<outages, mode, attempted, tick, tasks>>
vars == <<storeVars, clock, catalogue, edits, processVars>>

-----------------------------------------------------------------------------
\* A Schedulable, as ListSchedulable projects it.
Listings == [active : BOOLEAN, revision : Revisions, notBefore : Instants]

\* Tick's loop: the instant it was given, what ListSchedulable returned and
\* the Monitors the loop has not reached.
Ticks == [running : BOOLEAN, now : Instants, pending : SUBSET Monitors,
          listed : [Monitors -> Listings]]

NoTick == [running |-> FALSE, now |-> 0, pending |-> {},
           listed |-> [m \in Monitors |->
                         [active |-> FALSE, revision |-> 1, notBefore |-> 0]]]

\* A task: where it is, its due slot, the walk over missed instants (the next
\* candidate, the instant it stops at, how many the limit still allows), the
\* instant the tick was given, and the claim and result it holds.
Tasks == [pc       : {"idle", "backfill", "claim", "execute", "complete"},
          revision : Revisions,
          due      : Instants,
          walk     : Int,
          after    : Instants,
          left     : Nat,
          now      : Instants,
          id       : Nat,
          holder   : Nat,
          deadline : Nat,
          result   : ExecutedOutcomes \cup {"none"}]

IdleTask == [pc |-> "idle", revision |-> 1, due |-> 0, walk |-> 0, after |-> 0,
             left |-> 0, now |-> 0, id |-> 0, holder |-> Nobody,
             deadline |-> 0, result |-> "none"]

TypeOK ==
    /\ StoreTypeOK
    /\ clock \in Instants
    /\ catalogue \in [Monitors -> Listings]
    /\ edits \in [Monitors -> Instants \cup {NoInstant}]
    /\ outages \in Nat
    /\ mode \in [Procs -> {"up", "stopping", "down"}]
    /\ attempted \in [Procs -> [Monitors -> Instants \cup {NoInstant}]]
    /\ tick \in [Procs -> Ticks]
    /\ tasks \in [Procs \X Monitors -> Tasks]

NothingAttempted == [m \in Monitors |-> NoInstant]

Init ==
    /\ StoreInit
    /\ clock = Start
    /\ catalogue = [m \in Monitors |->
                      [active |-> TRUE, revision |-> 1, notBefore |-> Start]]
    /\ edits = [m \in Monitors |-> NoInstant]
    /\ outages = 0
    /\ mode = [p \in Procs |-> "up"]
    /\ attempted = [p \in Procs |-> NothingAttempted]
    /\ tick = [p \in Procs |-> NoTick]
    /\ tasks = [pm \in Procs \X Monitors |-> IdleTask]

-----------------------------------------------------------------------------
SlotAt(m, revision, due) == [monitor |-> m, revision |-> revision, due |-> due]

Task(p, m) == tasks[<<p, m>>]

\* The slot a task claims, and the slot its walk looks at.
DueSlot(p, m)  == SlotAt(m, Task(p, m).revision, Task(p, m).due)
WalkSlot(p, m) == SlotAt(m, Task(p, m).revision, Task(p, m).walk)

BusyTasks(p) == {m \in Monitors : Task(p, m).pc # "idle"}

\* ExecutionSlots: a buffered channel the tasks of one process share.
HasFreeSlot(p) == Cardinality(BusyTasks(p)) < Concurrency

Lease == LeaseDuration(Ceiling, Margin, MaxLease)

\* A store call can return an error: a database fault, or the cancelled
\* context of a process that is stopping.
CallMayFail(p) == "store" \in Events \/ mode[p] = "stopping"

\* An error says nothing about the commit: the effect happened or it did not.
MaybeCommitted(Effect) == Effect \/ UNCHANGED storeVars

GoTo(p, m, pc) == tasks' = [tasks EXCEPT ![<<p, m>>].pc = pc]
Finish(p, m)   == tasks' = [tasks EXCEPT ![<<p, m>>] = IdleTask]

-----------------------------------------------------------------------------
\* One pass of Tick begins with one read of the active Monitors.
BeginTick(p) ==
    /\ mode[p] = "up"
    /\ ~ tick[p].running
    /\ tick' = [tick EXCEPT ![p] =
                  [running |-> TRUE, now |-> clock, listed |-> catalogue,
                   pending |-> {m \in Monitors : catalogue[m].active}]]
    /\ UNCHANGED <<storeVars, clock, catalogue, edits, outages, mode, attempted, tasks>>

PlannedSlot(p, m) == SlotFor(Offset[m], Interval[m], tick[p].now)

\* plan's in-memory suppression of a slot this process already attempted.
AlreadyAttempted(p, m) ==
    /\ attempted[p][m] # NoInstant
    /\ PlannedSlot(p, m) <= attempted[p][m]

PassOver(p, m) ==
    /\ m \in tick[p].pending
    /\ AlreadyAttempted(p, m)
    /\ tick' = [tick EXCEPT ![p].pending = @ \ {m}]
    /\ UNCHANGED <<storeVars, clock, catalogue, edits, outages, mode, attempted, tasks>>

\* The walk starts one interval before the due slot and stops at whichever is
\* later: the slot this process last attempted or the Monitor's last change.
\* (WalkStartOlder begins one slot too far back.)
WalkStartOlder(p, m) == PlannedSlot(p, m) - 2 * Interval[m]
WalkStart(p, m)      == PlannedSlot(p, m) - Interval[m]

WalkEnd(p, m) == Later(attempted[p][m], tick[p].listed[m].notBefore)

NewTask(p, m) ==
    [IdleTask EXCEPT
       !.pc = "backfill", !.now = tick[p].now,
       !.revision = tick[p].listed[m].revision,
       !.due = PlannedSlot(p, m),
       !.walk = WalkStart(p, m),
       !.after = WalkEnd(p, m),
       !.left = MaxBackfill]

\* The slot is marked attempted before anything is done about it; the loop
\* waits here for a free execution slot.
StartTask(p, m) ==
    /\ m \in tick[p].pending
    /\ ~ AlreadyAttempted(p, m)
    /\ HasFreeSlot(p)
    /\ tick' = [tick EXCEPT ![p].pending = @ \ {m}]
    /\ attempted' = [attempted EXCEPT ![p][m] = PlannedSlot(p, m)]
    /\ tasks' = [tasks EXCEPT ![<<p, m>>] = NewTask(p, m)]
    /\ UNCHANGED <<storeVars, clock, catalogue, edits, outages, mode>>

\* Acquire returned the context's error: the loop breaks.
AbandonLoop(p) ==
    /\ mode[p] = "stopping"
    /\ tick[p].pending # {}
    /\ tick' = [tick EXCEPT ![p].pending = {}]
    /\ UNCHANGED <<storeVars, clock, catalogue, edits, outages, mode, attempted, tasks>>

\* group.Wait returned.
EndTick(p) ==
    /\ tick[p].running
    /\ tick[p].pending = {}
    /\ BusyTasks(p) = {}
    /\ tick' = [tick EXCEPT ![p] = NoTick]
    /\ UNCHANGED <<storeVars, clock, catalogue, edits, outages, mode, attempted, tasks>>

TickStep(p) ==
    \/ BeginTick(p)
    \/ \E m \in Monitors : PassOver(p, m) \/ StartTask(p, m)
    \/ AbandonLoop(p)
    \/ EndTick(p)

-----------------------------------------------------------------------------
Walking(p, m) ==
    /\ Task(p, m).pc = "backfill"
    /\ WalkContinues(Task(p, m).walk, Task(p, m).after, Task(p, m).left)

\* recordMissed: the walk is over, or the context is done.
EndWalk(p, m) ==
    /\ Task(p, m).pc = "backfill"
    /\ ~ Walking(p, m) \/ mode[p] = "stopping"
    /\ GoTo(p, m, "claim")
    /\ UNCHANGED <<storeVars, clock, catalogue, edits, outages, mode, attempted, tick>>

RecordMissed(p, m) ==
    /\ Walking(p, m)
    /\ mode[p] = "up"
    /\ RecordSkipped(WalkSlot(p, m))
    /\ tasks' = [tasks EXCEPT ![<<p, m>>].walk = @ - Interval[m],
                              ![<<p, m>>].left = @ - 1]
    /\ UNCHANGED <<clock, catalogue, edits, outages, mode, attempted, tick>>

\* ErrSlotHeld: the slot exists, so the walk takes everything older to exist.
StopAtHeldSlot(p, m) ==
    /\ Walking(p, m)
    /\ ~ SkipInserts(WalkSlot(p, m))
    /\ GoTo(p, m, "claim")
    /\ UNCHANGED <<storeVars, clock, catalogue, edits, outages, mode, attempted, tick>>

\* Any other error ends the walk too.
RecordMissedFails(p, m) ==
    /\ Walking(p, m)
    /\ CallMayFail(p)
    /\ MaybeCommitted(RecordSkipped(WalkSlot(p, m)))
    /\ GoTo(p, m, "claim")
    /\ UNCHANGED <<clock, catalogue, edits, outages, mode, attempted, tick>>

-----------------------------------------------------------------------------
\* runSlot: the lease is measured from the instant the tick was given.
ClaimDue(p, m) == ClaimSlot(DueSlot(p, m), Task(p, m).now + Lease, Task(p, m).now)

ClaimGranted(p, m) ==
    LET s == DueSlot(p, m) IN
    /\ Task(p, m).pc = "claim"
    /\ mode[p] = "up"
    /\ ClaimDue(p, m)
    /\ tasks' = [tasks EXCEPT ![<<p, m>>].pc = "execute",
                              ![<<p, m>>].id = ClaimedId(s),
                              ![<<p, m>>].holder = NewHolder(s),
                              ![<<p, m>>].deadline = clock + Ceiling]
    /\ UNCHANGED <<clock, catalogue, edits, outages, mode, attempted, tick>>

ClaimRefused(p, m) ==
    /\ Task(p, m).pc = "claim"
    /\ ~ Claimable(DueSlot(p, m), Task(p, m).now)
    /\ Finish(p, m)
    /\ UNCHANGED <<storeVars, clock, catalogue, edits, outages, mode, attempted, tick>>

ClaimFails(p, m) ==
    /\ Task(p, m).pc = "claim"
    /\ CallMayFail(p)
    /\ MaybeCommitted(ClaimDue(p, m))
    /\ Finish(p, m)
    /\ UNCHANGED <<clock, catalogue, edits, outages, mode, attempted, tick>>

ExecutionEnds(p, m) ==
    /\ Task(p, m).pc = "execute"
    /\ mode[p] = "up"
    /\ \E o \in ExecutedOutcomes :
          tasks' = [tasks EXCEPT ![<<p, m>>].pc = "complete", ![<<p, m>>].result = o]
    /\ UNCHANGED <<storeVars, clock, catalogue, edits, outages, mode, attempted, tick>>

\* A shutdown mid-execution frees the slot, on a context of its own; a lost
\* lease or a failing store leaves the row to whoever has it.
ReleaseAtShutdown(p, m) ==
    LET Release == ReleaseSlot(DueSlot(p, m), Task(p, m).id, Task(p, m).holder)
    IN  /\ Task(p, m).pc = "execute"
        /\ mode[p] = "stopping"
        /\ \/ Release
           \/ /\ "store" \in Events \/ ~ HoldsLease(DueSlot(p, m), Task(p, m).id,
                                                    Task(p, m).holder)
              /\ UNCHANGED storeVars
        /\ Finish(p, m)
        /\ UNCHANGED <<clock, catalogue, edits, outages, mode, attempted, tick>>

CompleteDue(p, m) == Complete(DueSlot(p, m), Task(p, m).id, Task(p, m).holder,
                              Task(p, m).result)

ResultRecorded(p, m) ==
    /\ Task(p, m).pc = "complete"
    /\ mode[p] = "up"
    /\ CompleteDue(p, m)
    /\ Finish(p, m)
    /\ UNCHANGED <<clock, catalogue, edits, outages, mode, attempted, tick>>

\* ErrLeaseLost: the lease was reclaimed while this execution ran.
ResultDiscarded(p, m) ==
    /\ Task(p, m).pc = "complete"
    /\ ~ HoldsLease(DueSlot(p, m), Task(p, m).id, Task(p, m).holder)
    /\ Finish(p, m)
    /\ UNCHANGED <<storeVars, clock, catalogue, edits, outages, mode, attempted, tick>>

\* The slot stays claimed until another worker finds its lease expired.
ResultFails(p, m) ==
    /\ Task(p, m).pc = "complete"
    /\ CallMayFail(p)
    /\ MaybeCommitted(CompleteDue(p, m))
    /\ Finish(p, m)
    /\ UNCHANGED <<clock, catalogue, edits, outages, mode, attempted, tick>>

TaskStep(p, m) ==
    \/ EndWalk(p, m) \/ RecordMissed(p, m)
    \/ StopAtHeldSlot(p, m) \/ RecordMissedFails(p, m)
    \/ ClaimGranted(p, m) \/ ClaimRefused(p, m) \/ ClaimFails(p, m)
    \/ ExecutionEnds(p, m) \/ ReleaseAtShutdown(p, m)
    \/ ResultRecorded(p, m) \/ ResultDiscarded(p, m) \/ ResultFails(p, m)

-----------------------------------------------------------------------------
\* The process's memory is gone: ticks, tasks and the attempted slots.
Forget(p) ==
    /\ attempted' = [attempted EXCEPT ![p] = NothingAttempted]
    /\ tick' = [tick EXCEPT ![p] = NoTick]
    /\ tasks' = [pm \in Procs \X Monitors |->
                   IF pm[1] = p THEN IdleTask ELSE tasks[pm]]

Crash(p) ==
    /\ "crash" \in Events
    /\ outages < MaxOutages
    /\ mode[p] # "down"
    /\ outages' = outages + 1
    /\ mode' = [mode EXCEPT ![p] = "down"]
    /\ Forget(p)
    /\ UNCHANGED <<storeVars, clock, catalogue, edits>>

\* SIGTERM cancels the context every goroutine of the worker runs under.
Shutdown(p) ==
    /\ "shutdown" \in Events
    /\ outages < MaxOutages
    /\ mode[p] = "up"
    /\ outages' = outages + 1
    /\ mode' = [mode EXCEPT ![p] = "stopping"]
    /\ UNCHANGED <<storeVars, clock, catalogue, edits, attempted, tick, tasks>>

\* Serve returns once the tick it was in has ended.
Exit(p) ==
    /\ mode[p] = "stopping"
    /\ ~ tick[p].running
    /\ mode' = [mode EXCEPT ![p] = "down"]
    /\ Forget(p)
    /\ UNCHANGED <<storeVars, clock, catalogue, edits, outages>>

Restart(p) ==
    /\ mode[p] = "down"
    /\ mode' = [mode EXCEPT ![p] = "up"]
    /\ UNCHANGED <<storeVars, clock, catalogue, edits, outages, attempted, tick, tasks>>

ProcessStep(p) == Crash(p) \/ Shutdown(p) \/ Exit(p) \/ Restart(p)

-----------------------------------------------------------------------------
(* Monitor edits (internal/monitor/service.go): a handler reads the row and *)
(* its version, then the clock, and only then updates the row, updated_at   *)
(* included, if the version is still the one it read.  So updated_at is     *)
(* older than the instant the edit can be seen.  Of the edits that read one *)
(* version the compare lets a single one commit; only that one is followed. *)

\* FindMonitor and clock.Now.
BeginEdit(m) ==
    /\ "edit" \in Events
    /\ clock <= LastEdit
    /\ edits[m] = NoInstant
    /\ edits' = [edits EXCEPT ![m] = clock]
    /\ UNCHANGED <<storeVars, clock, catalogue, processVars>>

\* UpdateMonitor and AppendRevision: whatever else it changes, every edit of a
\* Monitor moves updated_at.  (ChangeStateQuietly leaves it.)
Rename(m) == catalogue' = [catalogue EXCEPT ![m].notBefore = edits[m]]

CreateRevision(m) ==
    /\ catalogue[m].revision < MaxRevision
    /\ catalogue' = [catalogue EXCEPT ![m].revision = @ + 1,
                                      ![m].notBefore = edits[m]]

ChangeStateQuietly(m) == catalogue' = [catalogue EXCEPT ![m].active = ~ @]
ChangeState(m) ==
    catalogue' = [catalogue EXCEPT ![m].active = ~ @, ![m].notBefore = edits[m]]

CommitEdit(m) ==
    /\ edits[m] # NoInstant
    /\ Rename(m) \/ CreateRevision(m) \/ ChangeState(m)
    /\ edits' = [edits EXCEPT ![m] = NoInstant]
    /\ UNCHANGED <<storeVars, clock, processVars>>

EditMonitor(m) == BeginEdit(m) \/ CommitEdit(m)

Advance ==
    /\ clock < MaxTime
    /\ clock' = clock + 1
    /\ UNCHANGED <<storeVars, catalogue, edits, processVars>>

Step ==
    \/ \E p \in Procs : TickStep(p) \/ ProcessStep(p)
    \/ \E p \in Procs, m \in Monitors : TaskStep(p, m)
    \/ \E m \in Monitors : EditMonitor(m)

Next == Step \/ Advance

Spec == Init /\ [][Next]_vars

-----------------------------------------------------------------------------
(* Time in a fleet whose database answers at once: the clock stands still  *)
(* while a process has anything to do but execute checks, and an execution *)
(* never outlasts its context's deadline.  What remains is the wait for an *)
(* execution slot, which the code does not bound.                          *)

Prompt(p) ==
    /\ tick[p].pending # {} => ~ HasFreeSlot(p)
    /\ \A m \in Monitors :
          \/ Task(p, m).pc = "idle"
          \/ Task(p, m).pc = "execute" /\ clock < Task(p, m).deadline

AdvancePromptly == (\A p \in Procs : Prompt(p)) /\ Advance

TimelySpec == Init /\ [][Step \/ AdvancePromptly]_vars

\* Go runs every ready goroutine, the ticker keeps firing, executions end at
\* their deadline at the latest and time passes.
Fairness ==
    /\ \A p \in Procs : WF_vars(TickStep(p))
    /\ \A p \in Procs, m \in Monitors : WF_vars(TaskStep(p, m))
    /\ WF_vars(Advance)

FairSpec == Spec /\ Fairness

-----------------------------------------------------------------------------
(* Properties *)

\* A task that works under the lease it took, before that lease expires.
Working(p, m) == Task(p, m).pc \in {"execute", "complete"}

Protected(p, m) ==
    /\ Working(p, m)
    /\ HoldsLease(DueSlot(p, m), Task(p, m).id, Task(p, m).holder)
    /\ clock < runs[DueSlot(p, m)].expires

\* Until its lease expires, only the task that holds it touches the Run: no
\* claim, misfire walk or shutdown of another worker does.
LeaseProtects ==
    [][\A p \in Procs, m \in Monitors :
          Protected(p, m) /\ Task(p, m)' = Task(p, m)
             => runs'[DueSlot(p, m)] = runs[DueSlot(p, m)]]_vars

\* No two tasks work under the same token: a task that claimed a slot holds one
\* minted for it, and no other task that claimed the slot holds the same.
TokensAreExclusive ==
    \A p \in Procs, m \in Monitors : Working(p, m) =>
       /\ Task(p, m).holder \in 1..minted[DueSlot(p, m)]
       /\ \A q \in Procs \ {p} :
             Working(q, m) /\ DueSlot(q, m) = DueSlot(p, m)
                => Task(q, m).holder # Task(p, m).holder

\* No two workers execute the check of one slot at the same time.
NoConcurrentExecution ==
    \A p, q \in Procs, m \in Monitors :
       /\ p # q
       /\ Task(p, m).pc = "execute" /\ Task(q, m).pc = "execute"
       => DueSlot(p, m) # DueSlot(q, m)

\* scheduler.go:99-103: a lease outlives the run it protects, so a task that
\* still executes holds a lease that has not expired.
LeaseOutlivesExecution ==
    \A p \in Procs, m \in Monitors :
       Task(p, m).pc = "execute" =>
          /\ HoldsLease(DueSlot(p, m), Task(p, m).id, Task(p, m).holder)
          /\ clock < runs[DueSlot(p, m)].expires

\* The task claimed so soon after the instant its tick was given that its
\* ceiling ends before the lease, which is measured from that instant.
ClaimedInTime(p, m) == Task(p, m).deadline < Task(p, m).now + Lease

\* What remains of scheduler.go:99-103 when tasks wait for an execution slot: the
\* lease outlives the executions of the tasks that claimed in time.
LeaseCoversClaimsInTime ==
    \A p \in Procs, m \in Monitors :
       Task(p, m).pc = "execute" /\ ClaimedInTime(p, m) =>
          /\ HoldsLease(DueSlot(p, m), Task(p, m).id, Task(p, m).holder)
          /\ clock < runs[DueSlot(p, m)].expires

\* Two workers execute the check of one slot at once only if one of them waited
\* too long before it claimed.
OverlapNeedsWait ==
    \A p, q \in Procs, m \in Monitors :
       /\ p # q
       /\ Task(p, m).pc = "execute" /\ Task(q, m).pc = "execute"
       /\ DueSlot(p, m) = DueSlot(q, m)
       => ~ ClaimedInTime(p, m) \/ ~ ClaimedInTime(q, m)

\* scheduler.go:336-337: everything older than a slot that exists also exists,
\* so a walk that meets a held slot has nothing left to record.
HeldSlotEndsHistory ==
    \A p \in Procs, m \in Monitors :
       Walking(p, m) /\ ~ SkipInserts(WalkSlot(p, m)) =>
          \A back \in 1..(Task(p, m).left - 1) :
             LET older == Task(p, m).walk - back * Interval[m]
             IN  older > Task(p, m).after
                    => ~ Absent(SlotAt(m, Task(p, m).revision, older))

\* scheduler.go:57-58: a walk records MaxBackfill missed slots at most, "Beyond
\* it, the absence of Runs is the record."  The instant is older than the
\* MaxBackfill slots before some later one, and each of those was missed too.
BeyondLimit(m, t) ==
    \E later \in Instants :
       /\ t < later - MaxBackfill * Interval[m]
       /\ SlotFor(Offset[m], Interval[m], later) = later
       /\ \A back \in 1..MaxBackfill :
             runs[SlotAt(m, 1, later - back * Interval[m])].status = "skipped"

\* However late ticks come, overlap and race for the same slots: every slot a
\* Monitor becomes due for is eventually recorded, executed or skipped, unless
\* the newer slots missed with it took all a walk may record.
EverySlotSettles ==
    \A m \in Monitors, t \in Instants :
       clock >= t /\ t > Start /\ SlotFor(Offset[m], Interval[m], t) = t
          ~> Finished(SlotAt(m, 1, t)) \/ BeyondLimit(m, t)
=============================================================================
