# TLA+ verification of ProbeHive

ProbeHive probes HTTP services on a schedule, evaluates each Monitor's health from the Runs,
opens and resolves Incidents and delivers signed Webhooks.  A PostgreSQL database is the only
shared state; any number of server processes run the same worker loops over it.  The modules
here model the program at that level: a transaction on the tables is one atomic action,
processes interleave between transactions, crash, shut down and restart, leases expire while
their holder still works, and answers get lost after the commit.

Every definition is translated from the Go code and its SQL.  `PROJECT.json` names the source
lines of each; this file says how the pieces fit, what the checks show and what is left out.

1. [The system](#1-the-system)
2. [Plan](#2-plan)
3. [The modules and the code](#3-the-modules-and-the-code)
4. [Runs](#4-runs)
5. [Time and fairness](#5-time-and-fairness)
6. [Theorems](#6-theorems)
7. [What the code does not keep](#7-what-the-code-does-not-keep)
8. [Not modelled](#8-not-modelled)

## 1. The system

A server process (`cmd/probehive/main.go`) runs five loops beside the HTTP API: the Run
scheduler, the outbox dispatcher, the health staleness sweep, the Webhook delivery dispatcher
and the retention sweep.  They never call each other.  What one loop leaves for another is a
row: a Run and its `run.recorded.v1` entry, a candidate and its `run.confirmation.requested.v1`
entry, a transition and its `health.transitioned.v1` entry, an Incident transition, an Alert,
a delivery.

```
 scheduler --Run, run.recorded--> outbox --> health evaluation --health.transitioned--> outbox
     ^                                            |                                      |
     | slots, leases                              +--confirmation.requested--> outbox    v
     +------ confirmation and manual Runs <---------------------------------+     Incident projection
                                                                                         |
 staleness sweep --health.transitioned--> outbox         Webhook deliveries <-- Alerts <-+
```

| component | state | operations | what is hard | what makes it correct |
|---|---|---|---|---|
| Run scheduler (`run/scheduler.go`, `execution_slots.go`) | attempted slots per process, the tick it is in, one task per Monitor | tick: list, plan, walk back over missed slots, claim, execute, record, release | processes race for slots; a tick waits for execution slots; crashes, shutdowns, stalls; Monitors edited between listing and claim | every slot decided once; the lease outlives the execution; nobody is charged with a slot the Monitor was not active for; every slot within the limit of a walk is settled |
| Slot arithmetic (`run/schedule.go`, lease in `run/run.go`) | none | `SlotFor`, `MissedSlots`, `LeaseDuration` | boundaries, negative dividends, the cap | series of each Monitor, walk bounded by limit and instant |
| Run store (`postgres/run.go`) | `runs`, `observations`, `outbox_entries` | `ClaimSlot`, `Complete`, `ReleaseSlot`, `RecordSkipped` | reclaims of expired leases, late results, lost answers | Run, Observation and outbox entry agree, once |
| Manual and confirmation Runs (`run/manual.go`, `run/confirmation.go`) | as the Run store | trigger, claim, execute, record | redelivered requests, the candidate is gone meanwhile | one recorded confirmation per candidate |
| Outbox dispatcher (`outbox/outbox.go`, `postgres/outbox.go`) | queue, markers, dead letters, gap instants | claim a batch, handle, succeed, retry, bury, clean up | one lease for a batch that waits; handlers that commit before a crash; versions out of order | ordered consumers see each version once, in order; nothing vanishes; gaps are waited for, but not for ever |
| Health evaluation (`health/health.go`, `postgres/health.go`, `health/service.go`) | snapshot, candidates, transitions, markers | evaluate a Run, mark stale, list stale | late and superseded evidence, two handlers of one event, the sweep against new evidence | Down needs a confirmation; one chain of transitions; candidates decided once; stale means old |
| Incident projection (`incident/`, `postgres/incident.go`) | Incident, cursor, timeline | project a health transition, acknowledge | versions out of order, lost and again; acknowledgement and archiving in between | an unresolved Incident exactly while the projected health is down; a timeline without gaps |
| Alerts and routing (`alert/`, `postgres/alert.go`, `webhook_routing.go`) | Alerts, routing targets, deliveries | project an Incident transition, route it | redelivery with other Integrations, secrets and windows than the first time | one immutable routing per announcement; suppression follows the instant of the event |
| Webhook delivery (`webhook/delivery*.go`, `postgres/webhook_delivery.go`) | deliveries, attempts | claim, begin, call, complete, retry, settle | answers after the lease, crashes in a call, unknown outcomes | one caller within a lease; the audit is final; every delivery settles |
| Integrations and rotation (`webhook/integration.go`, `rotation.go`, `postgres/webhook_rotation.go`) | status, secret versions | create, enable, disable; prepare, activate and retire a secret | rotation during deliveries | the states of the secrets can be restored; a call is signed with a secret that is not retired |
| Wrapping keys (`webhook/keyring.go`, `integration.go`) | the keyring of each process, sealed secrets | start, re-seal, seal, retire; the operator prepends, confirms and removes keys | processes with different keyrings side by side | a key that is needed is never removed |
| Maintenance windows (`maintenance/`, `postgres/maintenance.go`) | windows | create, cancel | instants taken before the lock; two cancellations from one reading; events routed late | no overlap; cancellations are final; decisions of the past stand |
| Monitors (`monitor/`, `postgres/monitor.go`) | Monitor, Revisions, state | create, rename, change the interval, revise, activate, pause, archive | every edit writes back the row it read | edits look as if one person made them at a time |
| Status pages (`statuspage/`, `postgres/statuspage.go`) | page, components, publication | replace, publish, revoke, visit | two statements per reading, Monitors archived meanwhile | an answer is one version of a published page; a Monitor keeps its component |
| Users and set-up (`user/`, `postgres/user.go`) | accounts, sessions | set up, create, log in, rehash, reset | two set-ups at once; a rehash beside a reset | one set-up; a password changes by a reset |
| Organizations (`organization/`, `postgres/organization.go`) | Organizations, memberships | provision, add members | an account and an Organization are created at once | a gap has the one explanation the code gives |
| Retention (`run/retention.go`, `postgres/partitions.go`) | partitions | create ahead, drop behind | workers with old instants beside each other and beside executions | evidence stays for its window; there is a partition to insert into |
| HTTP API, outbound policy, probes, web client | none that matters here | parsing, authorization, dialing | | |

The hazards of this code, each at its line, are listed in `PROJECT.json`; the properties below
were chosen for them.

## 2. Plan

The order follows what the rest depends on: Runs are the only evidence, the outbox carries
everything that follows from them, health decides, Incidents and Webhooks announce.

| step | modules | abstract specification | theorems | state |
|---|---|---|---|---|
| 1 | `Schedule`, `RunStore`, `Scheduler` | `RunLedger`: each slot decided once, with its announcement | `RunStoreProofs`, `SchedulerProofs` | done |
| 2 | `Retry`, `OutboxStore`, `Outbox` | `Projection`: versions take effect in order, once | `OutboxProofs` | done |
| 3 | `Health`, `HealthEvaluation` | | `HealthProofs`: chain of transitions, sound candidates, Down is confirmed | done |
| 4 | `Incidents` | `IncidentLog`: open, acknowledged, resolved, one at a time | `IncidentProofs` | done |
| 5 | `Maintenance`, `Webhooks`, `WebhookDelivery`, composed with `Incidents` in `Notifications` | `AlertRouting`: an Alert is routed once, its routes settle for good | `NotificationProofs` | done |
| 6 | `MonitorEditing`, `Team`, `Passwords`; `StatusPages` over `MonitorEditing` | `MonitorLifecycle`: one edit at a time | `AdministrationProofs` | done |
| 7 | `Keyring`, `Retention` | | `UpkeepProofs` | done |
| 8 | confirmation and manual Runs over `RunStore`, sharing the execution slots (health and retention model their effects already) | one answer per candidate | that answer | planned |

Modules with theorems declare no `RECURSIVE` operator: backoff is a recursive function
(`Retry`), everything else is sets, records and quantifiers.  Components that meet through the
queue are not composed with its detail: `Incidents` and `Notifications` take every delivery the
queue could make and more (any event at any time, again or never), so that what they
keep does not depend on the dispatcher.

## 3. The modules and the code

### The scheduler and the Run store

`Schedule` is the arithmetic: `FloorDiv` over Go's truncating division, `SlotFor`, the loop
condition of `MissedSlots` (`WalkContinues`) and `LeaseDuration`.

`RunStore` has one operator per transaction of `postgres/run.go`.  A slot is a Monitor, a
Revision and a due instant, the key of the partial unique index; the row is its outcome
(`"inFlight"` for NULL), its identifier, holder and lease expiry.  Identifiers and holder tokens
are UUIDs in the code; here the n-th token minted for a slot stands for both, so that a reclaim,
which keeps the Run's identifier and replaces its holder, is told from a claim.
Manual Runs, which that index does not cover, are in `Retention`.

`RunLedger` is the promise to readers: a decision per slot, announced with it.

`Scheduler` is the processes.  `BeginTick` reads the Monitors and the clock in one step, as the
code hands one `now` to the whole tick.  `StartTask` is the loop body up to the `go` statement: the
slot is remembered as attempted *before* anything is done about it, and the loop waits for an
execution slot.  A task then walks (`RecordMissed`, `StopAtHeldSlot`, `RecordMissedFails`,
`EndWalk`), claims (`ClaimGranted`, `ClaimRefused`, `ClaimFails`), executes (`ExecutionEnds`,
`ReleaseAtShutdown`) and records (`ResultRecorded`, `ResultDiscarded`, `ResultFails`).  A failing
call may have committed (`MaybeCommitted`), also because a shutdown cancelled its context.
`Crash`, `Shutdown`, `Exit` and `Restart` lose the process's memory, never the tables.
An edit takes two steps: `BeginEdit` reads the row and then the clock, and `CommitEdit` renames,
revises, pauses or activates and moves `updated_at`, the walk's `NotBefore`, to the instant that was
read; ticks run in between.  Of the edits that read one version a single one commits, so one edit
per Monitor is followed at a time (`edits`).  An interval that changes is not in this model: it
moves the series itself.
The execution slots are also used by manual and confirmation Runs; their part is to make a tick
wait, which any task of the model does too.

`SchedulerHistory` adds two history variables: `eligible`, the slots that fell due while their Monitor
was active under their Revision, and `overtaken`, those that fell due while the edit that made it so was
on its way to its commit.  `EditSpec` and `TimelyEditSpec` are the scheduler with them;
`MCSchedulerEdits` is the instance.

### The outbox

`Retry` is the backoff: doubling up to a cap, and a jitter of up to a fifth, chosen from the set
`RetryDelays`.  `OutboxStore` has the transactions of `postgres/outbox.go`: `Claim`, `Succeed`,
`Fail` (retry or bury, with the gap's first instant), `Cleanup` of markers and dead letters.  The
number of a claim stands for its holder token, since every claim raises the attempts.

`Outbox` is the dispatchers and one ordered consumer, the cursor of the Incident projection
(`ProcessHealthTransition`: below the cursor nothing happens, the next version takes effect, a
later one is a gap).  An entry a process claimed is `waiting` for a slot, `handling` or
`reporting`; the copy the claim returned, with its gap instant and the instant of the tick, is
what the dispatcher decides from.  A handler can fail, take effect and then fail, or never
accept a payload (`Invalid`).  A shutdown or a lost connection can hit the claim, the handler and
the report, before or after their commit.  A marker that was read before the Monitor's lock can
be out of date when the cursor is read; the cursor gives the same answer, so the two reads are
one step here.

`Projection` is the promise to an ordered consumer.

### Health

`Health` is the evaluator as operators on a snapshot.  A candidate is named by the Run that
triggered it.  `Classify` is left out: a Run carries the evidence it makes of the outcome and the
failure code, and location faults count as indeterminate, as they do in the decision.

`HealthEvaluation` is everyone who runs it.  Scheduled and manual Runs are claimed and recorded
at any later time, in any order.  A handler reads the marker of its event (`ReadMarker`) and later,
under the locks of the Monitor's and the health row, evaluates the Run, writes snapshot,
candidate, confirmation request, transition and marker (`EvaluateRun`), ignores it (`IgnoreRun`:
the Monitor is not active) or fails (`EvaluationFails`).  Entries are redelivered until they are
settled; a second handler may have an event in hand that a first one is still about to
evaluate.  `Conflicts` is a candidate whose trigger already has one: the insert does nothing, the
snapshot names a candidate that does not exist, and the foreign key fails the transaction.
Confirmations check their candidate when they start (`Eligible`) and are recorded any time
later; that at most one is recorded per candidate is the Run store's doing and taken from
`RunStore`.  The sweep lists targets (`BeginSweep`) and looks at each again under the locks
(`StillStale`) with the instant it listed them at.

### From a transition to a receiver

`Incidents` is `postgres/incident.go`: a health transition (`WriteTransition`) is projected by
`ProcessHealthTransition` against the cursor of its Monitor.  `Record` writes the row, its
timeline entry and its announcement, the one transaction they are in.  A handler's transaction
is one step because it holds the Monitor's row.  An archived Monitor's transitions move the
cursor and open nothing.  `IncidentLog` is what a reader may rely on.

`Maintenance`: a creation takes its instant (`RequestWindow`) before the transaction that checks
for overlaps and inserts (`CreateWindow`).  A cancellation reads the window, decides and writes
only if `xmin` is unchanged (`FindWindow`, `DecideCancellation`, `CancelWindow`); one that is
refused reads again, and is told that the window is cancelled.  `xmin` is the count of the row's
writes.

`Webhooks` is the rows: Integrations, secret versions, deliveries and their attempts, with one
operator per transaction.  `WebhookDelivery` is the dispatchers: `Claim` first ends the attempts
whose lease ran out and settles the exhausted, then takes a batch; each delivery then has its own
goroutine (`Begin`, `Answer`, `Report...`).  The number of an attempt stands for the holder
token of its lease.  `ClaimLost`, `ReportLost` and `ReportFails` are answers lost before or after
their commit; a shutdown cancels calls, and the attempt it cancelled is reported and counts.

`Notifications` composes the three: `ProjectIncidentTransition` writes the Alert, its targets and
its deliveries in one transaction, asks whether the Monitor was under maintenance at the
instant of the event (`occurredAt`) and takes the active secret of every enabled Integration.
`AlertRouting` is the promise of docs/architecture.md.

All freedoms at once are more than TLC can enumerate.  `MCNotifications` therefore has scenes,
each a restriction of `Next` that keeps the rest calm: Incidents alone; windows with the
clock; routing between windows and rotations; stalls of dispatchers beyond their leases; rotation
during deliveries; and dispatchers that keep up, for liveness.  `NotificationProofs` has no scenes:
its theorems are about the whole `Spec`.

### Administration and upkeep

`MonitorEditing`: an edit reads the row (`Decide`), and writes its copy back if `xmin` is still the
one it read (`UpdateMonitor`, `AppendRevision`); a refused edit is answered with a conflict.
`MonitorLifecycle` has the same operations without any reading in between.

`StatusPages` extends it, since a component needs a Monitor that is not archived: `FindPage` and
`ListComponents` are the two statements of a replacement's reading, `ReplaceDraft` its transaction,
`FindPublicPage` and `ListPublicComponents` the two statements of a visitor's transaction, which
shares the page's lock.  Titles and labels are the version they were saved in.

`Team` is set-up under the advisory lock (`BeginSetup`, `CheckSetup`, `InsertAdministrator`), and
the handlers that create an account and give it its memberships, or an Organization and its
members, in several transactions; `BreakJoining` and `BreakFounding` end a request between them.
`Passwords` is one account: a login reads the hash, verifies and possibly rehashes; a reset in
between.

`Keyring` is the start of a process (list, re-seal under the first key, serve), secrets that are
sealed and retired meanwhile, and an operator who follows docs/development.md: prepend a key,
redeploy, confirm, remove the old ones.  `Retention` is the maintenance transactions under their
advisory lock beside manual Runs that are claimed, recorded or released while a partition is
detached; `DetachObservations` and `DropExpiredPartitions` are the two locks a drop takes one after
the other.

`MCAdministration` runs these parts beside each other, one at a time: only Monitors and status
pages share state.

Some definitions have a second form, named in the comment above them (`ReclaimableUnexpired`,
`LateCounts`, `HoldsAttempt`, `OverlapsInside`...).  No action uses it: it is the mistake the
property next to it has to detect, and `PROJECT.json` says which.

## 4. Runs

| run | instance | what it shows |
|---|---|---|
| `SchedulerFaults` | 2 processes that crash, shut down and lose answers, one Monitor that is edited, slots every 2 | `ObservedByLastClaimant`; the store implements the ledger (`LedgerSpec`).  The lease is shorter than a stall, so every race with a reclaim happens |
| `SchedulerTimely` | 2 processes, a crash, renames, 2 Revisions and pauses whose commits may come late, a lease longer than the ceiling, a database that answers at once | `NoConcurrentExecution` and `LeaseOutlivesExecution` while no task waits for a slot; `SkipsWereEligible`: only slots the Monitor was active for, or an edit under way overtook, are recorded as missed |
| `SchedulerLiveness` | 2 processes, no faults, late and overlapping ticks, walks of up to 2 slots | `EverySlotSettles`: executed or skipped, unless older than what a walk may record |
| `SchedulerWaves` | 2 Monitors, 1 execution slot | *violated*: a lease does not outlive the run it protects |
| `SchedulerBackfill` | a crash in the walk | *violated*: older slots than a held one need not exist |
| `OutboxFaults` | 2 dispatchers, crash, shutdown, lost answers, failing handlers, 2 versions, leases and retention of the smallest length | `ProjectsInOrder` although markers are cleaned up early, `NothingVanishes`, `GapPatience` |
| `OutboxLiveness` | 2 dispatchers that keep up, 3 versions, the second poisoned, a crash | `EveryEntrySettles`: handled or given up; `GapDecided`: a gap is decided when its time is over |
| `HealthFaults` | 2 handlers that may hold one event, failures, 2 scheduled Runs and their confirmations, the sweep | `TransitionsChain`, `CandidatesSound`, `CandidatesDecidedOnce`, `DownIsConfirmed`, `CausesInOrder`, `StaleIsOld` |
| `HealthLiveness` | 1 handler, lost entries, a Monitor that is revised, paused, activated and archived, fair sweep | `EvidenceExpires`; `CausedOnce`: a Run causes one transition although its health went stale in between; `DownIsConfirmed` across Revisions and cohorts |
| `HealthRedelivery` | 2 handlers of one event | *violated*: a Run can cause two transitions |
| `Notifications` | the six scenes; 3 transitions of a Monitor, 1 Integration with 3 secrets, 2 windows, 2 cancellers, 2 dispatchers with a crash or shutdown | `IncidentsFollowHealth`, `LogSpec`; `NoOverlap`, `CancelledOnce`, `DecisionsStand`; `Restorable`, `SignedWithLiveSecret`; `OneCaller`, `AuditIsFinal`; `RoutedOnce`; `PromptlySettled` |
| `Administration` | 2 editors, 2 replacers, a visitor, 3 accounts, 2 Organizations, 2 logins and 2 resets, 2 processes and 3 keys, 2 maintenance workers and 2 manual Runs over 6 days | `LifecycleSpec`; `AnswersAreWhole`, `ComponentsStay`; `SetupOnce`, `GapsExplained`; `OnlyResetsChange`; `NothingLockedOut`; `EvidenceKept`, `Insertable` |

**Bounds.** Processes: two are enough for every property that relates two holders, since a lease
has one holder and one loser at a time; the proofs below have no bound.  Monitors are independent
but for the execution slots (`Concurrency`, two Monitors in `SchedulerWaves`), aggregates but for
the dispatcher's slots, and Integrations and deliveries but for the batch, which a dispatcher works
off concurrently.  `MaxTime` is chosen so that a lease taken at the first instant expires and is
reclaimed, a gap times out and, for health, evidence from the first instant goes stale (three
intervals).  In `SchedulerLiveness` (four slots, `MaxBackfill` 2) a first tick may be so late that its
walk reaches the limit and leaves an older slot without a Run.  In `SchedulerTimely` the slots are at 4
and 7: a tick at 7 walks over the one at 4 and records it, whether an edit that read the clock at 3 committed before or
after that slot; one that read it at 4 keeps the slot from being charged.  `MaxRevision` 2 is one supersession.  `MaxOutages`
bounds crashes and shutdowns together.  `LastWrite` and `LastEdit` are the last instants at which
versions are written and Monitors edited, so that there is time left for the consequences.  The
jitter of a delay below five units is zero, so the instances take the backoff itself.

In `Notifications`, `MaxTransition` 3 is an Incident, its end and the next one.  The Integration can
be disabled for one routing and enabled for the next, and `MaxEnabled` 1, the limit of enabled
ones, lets it be enabled at all; `MaxSecret` 3 is a rotation after a rotation; `Lease` 1 with
`MaxAttempts` 2 makes the second attempt the last, after a first that was answered, lost or
cancelled.  Windows of up to `MaxDuration` 2 within a `Horizon` of 2 can precede, follow, contain and
touch each other.  Scene "prompt" has the clock up to `MaxTime`, long enough for every lease and
retry.  In `Administration`, `MaxWrites` 4 (of a Monitor's row) leaves room for two conflicting edits
after a Monitor has been made active, `MaxVersion` 2 is one replacement over
another, `MaxResets` 2 is a reset on each side of a login, `MaxKey` 3 and `MaxSeals` 4 are two
rotations, and `LastDay` 5 with months of two days, one month ahead and a window of a day is
every position of a Run in a month, up to its drop.  Symmetry is used between processes or handlers,
only in runs without liveness.

`CHECK_DEADLOCK FALSE` is set for the outbox, health, `Notifications` and `Administration`: once the
clock has reached its bound, all work is done and all requests are answered, nothing is left to
do.

## 5. Time and fairness

The clock is a counter that any interleaving may advance, in `Spec`, between any two steps:
that is a process stalled for as long as one likes.  It is the right setting for safety.

Two properties are about speed: that a lease outlives an execution, and that a gap is decided
in time.  They are stated for fleets that keep up, `TimelySpec`, whose clock stands still
while a process has anything to do but execute a check that has not reached its deadline
(`Prompt`), or has an entry it could claim (`KeepsUp`).  What remains in the scheduler is the
wait for an execution slot, which the code does not bound; that is the content of
`SchedulerWaves`.

Fairness is weak, per process and task: Go runs every ready goroutine, tickers keep
firing, an execution ends at its context's deadline at the latest, time passes, and (for the
outbox and the deliveries, whose liveness holds under crashes) a process that went down is started
again.  No strong fairness is assumed, and none for crashes, failures or edits.  The scheduler's
liveness is stated without outages: a slot whose process crashed is reclaimed only while it is the
current slot of its Monitor, afterwards its Run stays in flight.  Health's is stated without failing
handlers and sweeps, since an error that never goes away ends every sweep at the same target.
Edits are bounded by their number or instant, so a Monitor is not edited for ever.

`SceneSpec` gives scene "prompt" of `Notifications` fairness for each dispatcher's claims that change a
delivery, each delivery's goroutine, the end of a stopping process and its restart, and for the
clock, which waits for dispatchers that keep up.  `PromptlySettled` then says that every delivery
ends, with a crash, a shutdown and lost answers on the way: an attempt of unknown outcome is
retried when its lease is over, and the last one settles the delivery as failed.

## 6. Theorems

Each holds for every value of the constants that satisfies the assumption of its module.

| theorem | says |
|---|---|
| `SchedulerTypes`, `SchedulerInvariant` | `TypeOK` and the inductive invariant |
| `SchedulerRecordsOnce`, `SchedulerObservesOnce` | a finished slot is announced once with its own identity and outcome, an unfinished one never; its Observation is the last claimant's |
| `SchedulerTokensExclusive` | no two tasks work on a slot under one token |
| `SchedulerLeaseProtects` | until a lease expires only the task that holds it changes the Run |
| `SchedulerImplementsLedger` | the processes and the store implement `RunLedger` |
| `SchedulerLeaseCovers`, `SchedulerOverlapNeedsWait` | in a prompt fleet, with tasks that wait for execution slots or not, a task that claimed in time holds an unexpired lease while it executes, and a check of a slot runs twice at once only if one of the two claimed too late |
| `SchedulerSkipsEligible` | only slots a Monitor was active for under that Revision, or that an edit under way overtook, are recorded as missed |
| `FloorDivRoundsDown`, `SlotForIsCurrent` | Go's corrected division rounds down; `SlotFor` is the latest slot of its series that is not after the instant, for all integers |
| `SchedulerSlotsInSeries`, `SchedulerKeepsInterval` | every row is for a slot of its Monitor's series that is due; no two are for instants closer than its interval, which stays what it is in this model |
| `OutboxTypes`, `OutboxInvariant` | `TypeOK` and the inductive invariant |
| `OutboxProjectsInOrder` | the dispatchers implement `Projection` |
| `OutboxLosesNothing` | an entry leaves the queue only by its effect or as a dead letter |
| `OutboxLeaseProtects`, `OutboxGapPatience` | only the holder changes a leased entry; an entry dies of a gap only after the time-out |
| `OutboxGapDecided` | dispatchers that keep up, with a store that answers, decide a gap when its time is over, one lease later at most for each outage |
| `HealthTypes`, `HealthInvariant` | `TypeOK` and the inductive invariant |
| `HealthTransitionsChain`, `HealthCandidatesSound` | the transitions are one chain without a gap; degraded is having one pending candidate, the one that is named |
| `HealthDownIsConfirmed`, `HealthStaleIsOld`, `HealthCandidatesDecidedOnce` | what a step may never do: go down without two failing Runs, go stale on fresh evidence, decide a candidate again |
| `HealthCausesInOrder` | the Runs that cause transitions are in the order of their cohorts and Revisions |
| `HealthCausedOnce` | a Run causes one transition at most, as long as no event is in two handlers' hands at once |
| `IncidentTypes`, `IncidentsMatchHealth`, `IncidentTimeline` | an unresolved Incident exactly if the last projected transition left the Monitor down; a timeline entry per version, in a legal order |
| `IncidentsImplementLog` | the projection implements `IncidentLog` |
| `MaintenanceNoOverlap`, `MaintenanceCancelledOnce`, `MaintenanceCancelsIdempotently`, `MaintenanceDecisionsStand` | windows do not overlap, a cancellation is for good and never a conflict, and requests of a later time do not change whether a Monitor was under maintenance |
| `WebhooksRestorable`, `WebhooksAuditSound` | the states of secrets are ones a start accepts; attempts are numbered without a hole, only the last may be open, and a success ends the delivery |
| `DeliveryTypes`, `DeliveryOneCaller`, `DeliverySignedWithLiveSecret`, `DeliveryAuditIsFinal` | within a lease only its holder calls, with a secret that is not retired; outcomes and settled deliveries never change |
| `AlertsRoutedOnce` | the composition implements `AlertRouting` |
| `MonitorRevisionsMatch`, `MonitorsImplementLifecycle` | revisions are 1 up to the counter; concurrent edits implement `MonitorLifecycle` |
| `StatusInvariant`, `StatusAnswersAreWhole`, `StatusComponentsStay` | a visitor gets one version, whole; a Monitor that stays on the page keeps its component |
| `TeamTypes`, `TeamSetUpOnce`, `TeamGapsExplained` | one set-up; a missing membership is of two creations that overlapped or broke off |
| `PasswordTypes`, `PasswordOnlyResetsChange` | the password is the last one chosen, unless a login undid a reset (section 7) |
| `KeyringInvariant`, `KeyringLocksNothingOut`, `KeyringRetiredStaysEmpty` | a key some secret needs is deployed and every process that is up to date opens it; what is retired does not come back |
| `RetentionInvariant`, `RetentionKeepsEvidence`, `RetentionStaysInsertable` | evidence stays for its window, an execution keeps its row, and an outage of up to the lookahead leaves a partition |

**Assumptions.** Bounds are naturals; intervals, leases, batches, attempts, slots and counters that
the code requires to be positive are positive.  `RunStoreAssumption`: outcomes are not the
words for other states of a row.  `SchedulerAssumption`: an offset below its interval (as `SlotOffset`
computes it), a start no earlier than one interval after the epoch.  `NotificationsAssumption`: an
Alert is named by an Incident and what happened to it, the unique key of `alerts`.

Two theorems have a hypothesis beyond that, which the code leaves to the deployment; TLC runs are
instances of each.  `StoreAnswers` (`OutboxGapDecided`): no faults of the store, which would leave an
entry under a lease without an outage that could be counted; and there is a dispatcher.  `Exclusive`
(`HealthCausedOnce`): no event in the hands of two handlers at once; without it the statement is false, as
`HealthRedelivery` shows.

**The scheduler's argument.** `RecordedOnce` is not inductive in the processes' steps alone: a
result is recorded by a task that remembers an identity and a token, so one must know that no
other task has that token and that tokens are never minted twice.
`IInv == StoreInv /\ ProcessTypeOK /\ Times /\ TokensAreExclusive` adds the store's own invariant
(`RunStoreProofs`: rows, Observations and announcements of a slot agree, and identities are
at most the tokens minted), what processes remember of time (`now` is past, the walk is below the
due slot) and exclusive tokens.  The store's part is proved once for each of its transactions (`StoreStep`), and each
action of a process is a step of the store or leaves it alone.  The ledger follows: a step that
changes a row's outcome is a decision, and it appends the announcement.

**Time in the scheduler.** `TimelySpec` lets the clock stand while anybody has something to do but wait.
A claim's lease is measured from the instant the tick was given, the execution's deadline from the
claim, so a wait shorter than `LeaseDuration` less the ceiling is harmless: `ClaimedInTime` says that the
deadline comes before the lease's end.  `Timely` adds to `IInv` that the clock has not passed the
deadline of a task that executes and that, if it claimed in time, it is `Covered`: it holds the
slot's lease, which is not reclaimed before it ends.  Two executions that both claimed in time would
hold one lease with two tokens; `TokensAreExclusive` has it that they are one task.

**What is charged as missed** needs no promptness.  From the instant its last edit read, an active
Monitor's slots under its Revision are in the history, `eligible` or `overtaken`
(`CatalogueChargeable`): the clock adds what is due, and an edit that commits adds what it let pass.  A
tick copies that for its own instant (`ListedChargeable`), and a walk stays within it
(`WalksChargeable`), even if the Monitor is edited while it walks.  That the slot a walk looks at is one of
the series, and so one the history counts, is `TasksInSeries`.

That Runs keep their interval follows from `SlotsInSeries`, with the same of the tasks in flight
(`TasksInSeries`): the walk steps back by whole intervals from a slot that `SlotFor` put on the series.

**The outbox's argument.** Order needs no lease: the cursor decides.  What the leases
have to give is that nothing vanishes, that is, that the dispatcher that removes an entry knows
its version took effect.  `IInv` adds to the types that queued entries were written, cursors and
markers never run ahead (`EffectsSound`), what a dispatcher's copy still says about the row
(`WorkSound`: the token is of a claim that was made, the gap instant is the row's while it holds
the row, a success in hand has taken effect), and that two dispatchers never hold the same claim
(`Exclusive`).

**Gaps in time.** A gap's next attempt is never later than its end (`NextAttempt` caps the backoff there) and at
its end it is given up, so a fleet that keeps up decides it on time unless the entry is left under a lease
nobody works on.  Only an outage does that, and it is counted when it happens: `EntryTimely` says of the row of a
gap that it is free and due before its end, or in the hands of the dispatcher that holds its lease, or
under a lease that ends within `Slack == outages * Lease` after it.  A process that is stopping may still
lose what it holds, or what a last claim brings it; its outage is counted already, and as the clock stands until
it is gone, such a lease ends within the slack too (the last conjunct).

**Health's argument.** None of the properties is inductive alone.  `CandidatesSound` needs that a pending
candidate's trigger was recorded with the evidence that opened it (`CandidatesEvident`), and that a
handler only ever has events of recorded Runs in hand (`EventsRecorded`); together they give
`DownIsConfirmed`: the Run that takes a Monitor down is the confirmation of the candidate that is
pending, and the scheduled Run that opened it was failing.  `CausesInOrder` needs `CausesBehind`: what
has caused a transition is no newer than the newest cohort seen, nor than the pending candidate, whose confirmation
may come after many other Runs.  `TransitionsChain` is kept because every decision counts the
version exactly when it changes the state (`Versioned`).  `StaleIsOld` compares with the
instant of the list, which is past (`SweepsPast`).  For `CausedOnce` the marker has to be read after the
last evaluation: what has caused a transition is marked, and what is marked is in nobody's hands
(`MarkedApart`), which two handlers of one event break.

**Incidents.** That a transition resolves *the* Incident needs that there is only one, and that it opens
a new one that no later transition has opened yet: `OneActive` and `OpenedByProjected` beside
`IncidentsFollowHealth`.  Monitors are independent, so each projection is proved for the Monitor it
is of and the rest framed.

**Notifications.** `MaintenanceInv` says that a window that is still to be created is not there
and was not cancelled, and that a row's `xmin` tells whether it was cancelled; a canceller that still sees
`xmin` 1 therefore meets the row it read.  `DeliveryInv` has a part about the rows
(`RowInv`: secrets, routed deliveries, the attempts) and one about the dispatchers (`WorkInv`): while
an attempt's lease lasts, the row still is that attempt's, and two dispatchers never have one attempt.
With the first, a late answer changes nothing (its lease or number no longer fits), and `RetireSecret`
finds the delivery of a current call in its way; with the second, what one of them concludes is nobody else's.
`AlertsRoutedOnce` is a step simulation under `DeliveryInv`: what is suppressed is settled, and what is settled stays.

**Status pages.** The components in force are those saved as the page's version, and while a visitor reads the page
keeps its version and publication, because the visitor's transaction shares its lock (`AnswersSound`).  A replacement
that may still be written (its version is the page's) kept the ids that the page has now
(`ReplacementsSound`); one that is behind is refused.

**Administration and upkeep.** An edit's copy is the row and what the editor wants of it as long as
`xmin` is the one it read (`EditSound`); the write then is the one-step edit of `MonitorLifecycle`.
Set-up is exclusive because both the check and the insertion are under one lock (`SetupExclusive`).
Keys: a process may only seal with its first key, which stays deployed until everybody
who had another one is gone and nothing is sealed with it (`ConfirmedSound`).  Partitions: an instant a worker has read is
past, so what was expired then still is, and an execution ends within a day of its claim (`ManualSound`).

**Only model-checked.** Liveness (`EverySlotSettles`, `EveryEntrySettles`, `EvidenceExpires`,
`PromptlySettled`), since the prover has no fairness and no ENABLED.  `NoConcurrentExecution` and
`LeaseOutlivesExecution` hold where no task waits for a slot, as in `SchedulerTimely`; nothing in the
code sees to that, so what is proved is their part that does not need it.  Every other safety
property of the passing runs has a theorem.  What the recursive backoff computes for every attempt needs
induction over data, which the installed provers cannot instantiate; the proofs use only that a
delay is a natural number.

## 7. What the code does not keep

Three statements of the repository do not hold of it; each has a run whose counterexample shows why.

- **A lease outlives its run "by construction"** (`scheduler.go:99`).  `Tick` gives every task the
  instant it began with, however long the task waited for an execution slot, and the lease is
  measured from it.  In `SchedulerWaves` the second Monitor's check starts under a lease that
  has already run out.
- **"Everything older than a slot that exists also exists"** (`scheduler.go:336`).  The walk
  records newest first and may end early; a restart then meets a slot it did record and stops above
  the hole (`SchedulerBackfill`).
- **"Consumers are at-least-once and idempotent on id"** (`0003_runs_observations.sql:128`).  The
  marker is read before the Monitor's lock and not again.  A handler that stalls between the
  two, until another one has handled the event and its evidence has gone stale, evaluates the Run
  again and makes the Monitor healthy once more (`HealthRedelivery`).  With one handler,
  `CausedOnce` holds.  The other properties hold with both.

The following are weaker: no document clearly says otherwise, or one says that it is so.

*Runs.*  "A gap is only a gap if the Monitor was already schedulable across it" (`run/schedule.go:34`) holds
but for a slow edit: `updated_at` is read before the UPDATE (`monitor/service.go:264`), so a slot that falls due
between the two, while the Monitor was paused or had another Revision, may be recorded as missed under
the new one; `SkipsWereEligible` says that this is the only way.  A walk that reaches its limit leaves
the slots below without a Run, as `scheduler.go:57` says.  A result whose recording fails on the
cancelled context of a shutdown keeps its slot claimed until the lease ends (`scheduler.go:412`); a slot whose worker crashed is reclaimed only while it is
its Monitor's current one (`postgres/run.go:83`), and a manual Run that was neither recorded nor
released stays in flight until its partition is dropped.  The lease is capped at 15 minutes whatever
the ceiling (`run/run.go:372`).

*The outbox.*  Claims count as attempts but the count is compared only when a failure is reported
(`postgres/outbox.go:37`), so an entry whose dispatcher crashes can be claimed more often than twelve
times.  Twelve attempts may last longer than the 15 minutes that successors wait (`outbox.go:21`).

*Health.*  A Monitor that was down and went stale becomes healthy by one passing Run without a recovery
confirmation, and that resolves its Incident (`health.go:218`).  A failing Run supersedes a candidate
whose confirmation has not arrived, as often as it takes (`health.go:206`).  One target that fails ends
every sweep (`service.go:176`).

*Incidents and Webhooks.*  The open Incident of a Monitor that is archived stays open.  A
cancellation that is decided before an event and committed after its routing leaves that Alert
suppressed.  A shutdown consumes an attempt of every delivery it cancels (`docs/backend-contract.md:527`
says so).  A rotation cannot be aborted: whoever loses the answer that
carries the new secret has to activate it and rotate again.  While a new wrapping key is rolled out, a
process that is behind cannot open what another one has re-sealed.

*Administration.*  A password reset is undone by a login that read the old hash before and replaces it
after (`user/service.go:405`); `OnlyResetsChange` says that this is the only way.  An account and an
Organization that are created at once miss each other (`organization/service.go:31`,
`httpapi/users.go:92`), and nothing repairs it; `GapsExplained` says that this and a broken request are the only
ways.  Reading a status page's draft takes two statements and may mix two versions; it is never saved,
because its version is compared.  Without maintenance for longer than the lookahead no Run can be
inserted, as there is no default partition.  Dropping a partition and completing a Run take their
locks in opposite orders; PostgreSQL aborts one of the two.

## 8. Not modelled

- **Data**: the HTTP exchange and its assertions, outcomes beyond what the decision makes of them,
  counts and policy versions, payload validation and encoding, signatures, names and destinations,
  paging.
- **Sessions**: reading, touching and deleting one are single statements on one row.
- **An interval that changes under the scheduler**: `Interval` is a constant of `Scheduler`, since a
  change starts another series; that the edit itself is safe is in `MonitorEditing`.
- **Outside the plan**: outbound policy (classification without state), the HTTP API around the
  services, overview and inventory queries (reads), schema migrations (one sequential pass at
  start-up), the web client.
- **Confirmation and manual Runs as processes**: the execution slots they share with the
  scheduler.  Health models when a confirmation may start and be recorded, retention the life of a
  manual Run.  Manual Runs are no kind of the health instances: evaluation does not count
  them (`Counts`), and they would only multiply the states.
- **Limits left out**: the sweep's 100 targets per pass, the 10000 Monitors of a listing.
- **Deadlock in the database**: where two transactions take locks in opposite orders
  (`MarkHealthStale` and `ProcessRunRecorded`; dropping partitions and completing Runs), PostgreSQL
  aborts one of the two and the caller tries again, which `EvaluationFails`, `SweepFails`,
  `GiveUp` and `BreakUpkeep` stand for.
- **Planned**: what section 2 lists as planned.
