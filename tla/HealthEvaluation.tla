-------------------------- MODULE HealthEvaluation --------------------------
(***************************************************************************)
(* The transactions of internal/postgres/health.go on a Monitor's health,  *)
(* its candidates and its transitions, and who runs them: outbox handlers  *)
(* that evaluate recorded Runs, at least once and in any order, the        *)
(* confirmation Runs that candidates ask for, and the staleness sweep of   *)
(* internal/health/service.go.  Monitors are revised, paused and resumed   *)
(* meanwhile.                                                              *)
(*                                                                         *)
(* A transaction that locked the Monitor's and the health row is one step; *)
(* what was read before the locks is a step of its own.                    *)
(***************************************************************************)
EXTENDS Health, Sequences, FiniteSets

CONSTANTS
    Monitors,
    MaxRevision,   \* bound on revision numbers
    Dues,          \* the instants scheduled Runs fall due
    Interval,      \* effective interval of a Monitor
    Ceiling,       \* the operator's execution ceiling
    Workers,       \* handlers of run.recorded.v1
    Sweepers,      \* processes that run the staleness sweep
    Kinds,         \* the kinds of Run that are made
    MaxTime,       \* bound on the clock
    LastEdit,      \* the last instant at which a Monitor is edited
    Events         \* which of edit, handler and deadletter may happen

ASSUME HealthAssumption ==
    /\ MaxRevision \in Nat \ {0} /\ MaxTime \in Nat /\ LastEdit \in Nat
    /\ Interval \in Nat \ {0} /\ Ceiling \in Nat \ {0}
    /\ Dues \subseteq Nat
    /\ Kinds \subseteq {"scheduled", "confirmation", "manual"}
    /\ Events \subseteq {"edit", "handler", "deadletter"}

VARIABLES
    clock,
    catalogue,     \* the monitors rows: latest Revision, active or not
    runs,          \* the Runs, from their claim on
    queue,         \* run.recorded.v1 entries not yet settled
    marked,        \* processed_outbox_events
    health,        \* monitor_health
    candidates,    \* health_candidates
    requests,      \* what became of the confirmation a candidate asked for
    transitions,   \* health_transitions, with their health.transitioned.v1 entry
    held,          \* the event each handler found unmarked and has in hand
    sweeps         \* the instant and the targets each sweep has listed

evidenceVars == <<catalogue, runs>>
healthVars == <<health, candidates, transitions, marked>>
vars == <<clock, evidenceVars, queue, healthVars, requests, held, sweeps>>

-----------------------------------------------------------------------------
Revisions == 1..MaxRevision
Triggers  == [revision : Revisions, due : Dues]
Slots     == Monitors \X Triggers

\* A Run: scheduled, or manual, for its own slot; a confirmation, for the slot
\* of the Run that triggered its candidate.
Facts == [monitor : Monitors, kind : {"scheduled", "confirmation", "manual"},
          trigger : Triggers]

Fact(m, kind, t) == [monitor |-> m, kind |-> kind, trigger |-> t]

RunRows == [status   : {"none", "inFlight", "recorded"},
            evidence : Evidence,
            finished : Nat]

NoRun == [status |-> "none", evidence |-> "indeterminate", finished |-> 0]

Snapshots == [state : States, stable : Stable, version : Nat,
              last : Nat \cup {NoInstant}, proven : Nat \cup {NoInstant},
              candidate : Triggers \cup {NoTrigger}]

\* ux_health_candidates_trigger lets a Run trigger one candidate per direction,
\* and its evidence fixes the direction: the Run names the candidate.
CandidateRows ==
    [status : {"none", "pending", "confirmed", "contradicted", "superseded", "stale"},
     direction : Directions \cup {"none"}]

NoCandidate == [status |-> "none", direction |-> "none"]

Transitions == [from : States, to : States, cause : SUBSET Facts]

TypeOK ==
    /\ clock \in Nat
    /\ catalogue \in [Monitors -> [latest : Revisions, active : BOOLEAN]]
    /\ runs \in [Facts -> RunRows]
    /\ queue \subseteq Facts /\ marked \subseteq Facts
    /\ health \in [Monitors -> Snapshots]
    /\ candidates \in [Slots -> CandidateRows]
    /\ requests \in [Slots -> {"none", "queued", "running", "over"}]
    /\ transitions \in [Monitors -> Seq(Transitions)]
    /\ held \in [Workers -> SUBSET Facts]
    /\ sweeps \in [Sweepers -> [now : Nat,
                                targets : SUBSET [monitor : Monitors, version : Nat]]]

NoSweep == [now |-> 0, targets |-> {}]

Init ==
    /\ clock = 0
    /\ catalogue = [m \in Monitors |-> [latest |-> 1, active |-> TRUE]]
    /\ runs = [f \in Facts |-> NoRun]
    /\ queue = {} /\ marked = {}
    /\ health = [m \in Monitors |-> Initial]
    /\ candidates = [s \in Slots |-> NoCandidate]
    /\ requests = [s \in Slots |-> "none"]
    /\ transitions = [m \in Monitors |-> <<>>]
    /\ held = [w \in Workers |-> {}]
    /\ sweeps = [x \in Sweepers |-> NoSweep]

-----------------------------------------------------------------------------
(* Runs *)

\* The scheduler claims the slot that is current, under the latest Revision; a
\* manual Run is made at any time.  What the Monitor becomes after the claim is
\* the business of the evaluation; a claim made on an older listing is as good
\* as one made before the edit.
Current(due) == due <= clock /\ \A later \in Dues : later <= clock => later <= due

ClaimRun(m, kind, due) ==
    LET f == Fact(m, kind, [revision |-> catalogue[m].latest, due |-> due])
    IN  /\ kind \in Kinds \cap {"scheduled", "manual"}
        /\ catalogue[m].active
        /\ Current(due)
        /\ runs[f].status = "none"
        /\ runs' = [runs EXCEPT ![f].status = "inFlight"]
        /\ UNCHANGED <<clock, catalogue, queue, healthVars, requests, held, sweeps>>

\* Complete: the result and its run.recorded.v1 entry.
Record(f, evidence) ==
    /\ runs' = [runs EXCEPT ![f] = [status |-> "recorded", evidence |-> evidence,
                                    finished |-> clock]]
    /\ queue' = queue \cup {f}

RecordRun(f) ==
    /\ runs[f].status = "inFlight"
    /\ \E evidence \in Evidence : Record(f, evidence)
    /\ UNCHANGED <<clock, catalogue, healthVars, requests, held, sweeps>>

-----------------------------------------------------------------------------
(* Confirmations *)

\* LoadConfirmationTarget: a pending candidate of an active Monitor that still
\* has its Revision.
Eligible(s) ==
    /\ candidates[s].status = "pending"
    /\ catalogue[s[1]].active
    /\ catalogue[s[1]].latest = s[2].revision

StartConfirmation(s) ==
    /\ requests[s] = "queued"
    /\ requests' = [requests EXCEPT ![s] = IF Eligible(s) THEN "running" ELSE "over"]
    /\ UNCHANGED <<clock, evidenceVars, queue, healthVars, held, sweeps>>

\* The Run store lets one confirmation of a candidate be recorded.
RecordConfirmation(s) ==
    /\ requests[s] = "running"
    /\ requests' = [requests EXCEPT ![s] = "over"]
    /\ \E evidence \in Evidence : Record(Fact(s[1], "confirmation", s[2]), evidence)
    /\ UNCHANGED <<clock, catalogue, healthVars, held, sweeps>>

\* A shutdown, a crash or an error: the request is delivered again.
InterruptConfirmation(s) ==
    /\ "handler" \in Events
    /\ requests[s] = "running"
    /\ requests' = [requests EXCEPT ![s] = "queued"]
    /\ UNCHANGED <<clock, evidenceVars, queue, healthVars, held, sweeps>>

\* The request ran out of attempts.
LoseConfirmation(s) ==
    /\ "deadletter" \in Events
    /\ requests[s] = "queued"
    /\ requests' = [requests EXCEPT ![s] = "over"]
    /\ UNCHANGED <<clock, evidenceVars, queue, healthVars, held, sweeps>>

-----------------------------------------------------------------------------
(* Decisions *)

CandidateRow(m) ==
    IF HasCandidate(health[m]) THEN candidates[<<m, health[m].candidate>>] ELSE NoCandidate

\* The rows a decision leaves: the candidate it completed, the one it created.
CandidatesAfter(m, trigger, decision) ==
    [s \in Slots |->
       IF decision.created # "none" /\ s = <<m, trigger>>
       THEN [status |-> "pending", direction |-> decision.created]
       ELSE IF /\ decision.completed # "none"
               /\ s = <<m, health[m].candidate>>
               /\ candidates[s].status = "pending"
       THEN [candidates[s] EXCEPT !.status = decision.completed]
       ELSE candidates[s]]

\* A changed state is a transition, announced in the same transaction.
\* (AlwaysAnnounced announces every evaluation.)
AlwaysAnnounced(m, decision, cause) ==
    Append(transitions[m], [from |-> health[m].state, to |-> decision.snapshot.state,
                            cause |-> cause])
Announced(m, decision, cause) ==
    IF decision.snapshot.state = health[m].state THEN transitions[m]
    ELSE Append(transitions[m], [from |-> health[m].state,
                                 to |-> decision.snapshot.state, cause |-> cause])

Commit(m, decision, trigger, cause) ==
    /\ health' = [health EXCEPT ![m] = decision.snapshot]
    /\ candidates' = CandidatesAfter(m, trigger, decision)
    /\ transitions' = [transitions EXCEPT ![m] = Announced(m, decision, cause)]

-----------------------------------------------------------------------------
(* ProcessRunRecorded *)

\* The marker is read before any row is locked.  Entries are redelivered until
\* they are settled, also to a second handler while the first has them in hand.
ReadMarker(w, f) ==
    /\ held[w] = {}
    /\ f \in queue
    /\ f \notin marked
    /\ held' = [held EXCEPT ![w] = {f}]
    /\ UNCHANGED <<clock, evidenceVars, queue, healthVars, requests, sweeps>>

Decision(f) ==
    Evaluate(health[f.monitor],
             [kind |-> f.kind, trigger |-> f.trigger, evidence |-> runs[f].evidence,
              finished |-> runs[f].finished],
             CandidateRow(f.monitor), catalogue[f.monitor].latest)

\* The candidate exists: the insert does nothing, the health row would name a
\* candidate that is not there and the transaction fails.
\* (NoConflict lets the second candidate in.)
NoConflict(f) == FALSE
Conflicts(f) ==
    /\ Decision(f).created # "none"
    /\ candidates[<<f.monitor, f.trigger>>].status # "none"

Release(w) == held' = [held EXCEPT ![w] = {}]

\* processed_outbox_events, in the transaction of the effect.
\* (MarkForgotten leaves the event unmarked.)
MarkForgotten(f) == marked
Marked(f) == marked \cup {f}

\* The event of a Monitor that is not active is marked and otherwise ignored.
EvaluateRun(w, f) ==
    /\ f \in held[w]
    /\ catalogue[f.monitor].active
    /\ ~ Conflicts(f)
    /\ Commit(f.monitor, Decision(f), f.trigger, {f})
    /\ requests' = [requests EXCEPT ![<<f.monitor, f.trigger>>] =
                      IF Decision(f).created # "none" THEN "queued" ELSE @]
    /\ marked' = Marked(f)
    /\ Release(w)
    /\ UNCHANGED <<clock, evidenceVars, queue, sweeps>>

IgnoreRun(w, f) ==
    /\ f \in held[w]
    /\ ~ catalogue[f.monitor].active
    /\ marked' = Marked(f)
    /\ Release(w)
    /\ UNCHANGED <<clock, evidenceVars, queue, health, candidates, transitions,
                   requests, sweeps>>

EvaluationFails(w, f) ==
    /\ f \in held[w]
    /\ "handler" \in Events \/ (catalogue[f.monitor].active /\ Conflicts(f))
    /\ Release(w)
    /\ UNCHANGED <<clock, evidenceVars, queue, healthVars, requests, sweeps>>

\* The dispatcher settles an entry whose handler returned no error.
Settle(f) ==
    /\ f \in queue \cap marked
    /\ queue' = queue \ {f}
    /\ UNCHANGED <<clock, evidenceVars, healthVars, requests, held, sweeps>>

\* The entry ran out of attempts.
Lose(f) ==
    /\ "deadletter" \in Events
    /\ f \in queue
    /\ queue' = queue \ {f}
    /\ UNCHANGED <<clock, evidenceVars, healthVars, requests, held, sweeps>>

-----------------------------------------------------------------------------
(* SweepStale *)

Expires(m) == health[m].proven + StaleAfter(Interval, Ceiling)

\* ListStaleHealth.  (OnlyHealthy forgets the other states.)
OnlyHealthy(m) ==
    /\ catalogue[m].active
    /\ health[m].state = "healthy"
    /\ Expires(m) <= clock
Listed(m) ==
    /\ catalogue[m].active
    /\ health[m].state # "unknown"
    /\ health[m].proven # NoInstant
    /\ Expires(m) <= clock

BeginSweep(x) ==
    /\ sweeps[x].targets = {}
    /\ \E m \in Monitors : Listed(m)
    /\ sweeps' = [sweeps EXCEPT ![x] =
                    [now |-> clock,
                     targets |-> {[monitor |-> m, version |-> health[m].version] :
                                    m \in {m \in Monitors : Listed(m)}}]]
    /\ UNCHANGED <<clock, evidenceVars, queue, healthVars, requests, held>>

\* Everything is looked at again under the locks: newer evidence that changed
\* no state has the version the sweep listed.
\* (TrustsVersion looks at the version alone.)
TrustsVersion(x, target) == health[target.monitor].version = target.version
StillStale(x, target) ==
    LET m == target.monitor IN
    /\ health[m].version = target.version
    /\ health[m].state # "unknown"
    /\ catalogue[m].active
    /\ health[m].proven # NoInstant
    /\ Expires(m) <= sweeps[x].now

Handled(x, target) == sweeps' = [sweeps EXCEPT ![x].targets = @ \ {target}]

MarkHealthStale(x, target) ==
    /\ StillStale(x, target)
    /\ Commit(target.monitor, MarkStale(health[target.monitor]), NoTrigger, {})
    /\ Handled(x, target)
    /\ UNCHANGED <<clock, evidenceVars, queue, marked, requests, held>>

PassOver(x, target) ==
    /\ ~ StillStale(x, target)
    /\ Handled(x, target)
    /\ UNCHANGED <<clock, evidenceVars, queue, healthVars, requests, held>>

\* One error ends the sweep for the targets that are left.
SweepFails(x) ==
    /\ "handler" \in Events
    /\ sweeps[x].targets # {}
    /\ sweeps' = [sweeps EXCEPT ![x].targets = {}]
    /\ UNCHANGED <<clock, evidenceVars, queue, healthVars, requests, held>>

SweepStep(x) ==
    \/ BeginSweep(x)
    \/ \E target \in sweeps[x].targets : MarkHealthStale(x, target) \/ PassOver(x, target)
    \/ SweepFails(x)

-----------------------------------------------------------------------------
Revise(m) ==
    /\ catalogue[m].latest < MaxRevision
    /\ catalogue' = [catalogue EXCEPT ![m].latest = @ + 1]

Toggle(m) == catalogue' = [catalogue EXCEPT ![m].active = ~ @]

EditMonitor(m) ==
    /\ "edit" \in Events
    /\ clock <= LastEdit
    /\ Revise(m) \/ Toggle(m)
    /\ UNCHANGED <<clock, runs, queue, healthVars, requests, held, sweeps>>

Advance ==
    /\ clock < MaxTime
    /\ clock' = clock + 1
    /\ UNCHANGED <<evidenceVars, queue, healthVars, requests, held, sweeps>>

RunStep(f) == RecordRun(f) \/ Settle(f) \/ Lose(f)

HandlerStep(w, f) ==
    ReadMarker(w, f) \/ EvaluateRun(w, f) \/ IgnoreRun(w, f) \/ EvaluationFails(w, f)

ConfirmationStep(s) ==
    \/ StartConfirmation(s) \/ RecordConfirmation(s)
    \/ InterruptConfirmation(s) \/ LoseConfirmation(s)

Next ==
    \/ \E m \in Monitors, kind \in Kinds, due \in Dues : ClaimRun(m, kind, due)
    \/ \E m \in Monitors : EditMonitor(m)
    \/ \E f \in Facts : RunStep(f)
    \/ \E w \in Workers, f \in Facts : HandlerStep(w, f)
    \/ \E s \in Slots : ConfirmationStep(s)
    \/ \E x \in Sweepers : SweepStep(x)
    \/ Advance

Spec == Init /\ [][Next]_vars

\* Go runs every ready goroutine, the tickers keep firing and time passes.
Fairness ==
    /\ \A w \in Workers, f \in Facts : WF_vars(HandlerStep(w, f))
    /\ \A f \in Facts : WF_vars(RunStep(f))
    /\ \A s \in Slots : WF_vars(ConfirmationStep(s))
    /\ \A x \in Sweepers : WF_vars(SweepStep(x))
    /\ WF_vars(Advance)

FairSpec == Spec /\ Fairness

-----------------------------------------------------------------------------
(* Properties *)

\* The transitions of a Monitor are one chain: numbered without a gap, each
\* starting where the last one ended, the last one ending in the current state.
\* The Incident projection, which waits for every version, relies on it.
TransitionsChain ==
    \A m \in Monitors :
       LET log == transitions[m] IN
       /\ Len(log) = health[m].version
       /\ \A i \in DOMAIN log :
             /\ log[i].from # log[i].to
             /\ log[i].from = IF i = 1 THEN "unknown" ELSE log[i - 1].to
       /\ health[m].state = IF log = <<>> THEN "unknown" ELSE log[Len(log)].to

\* A Monitor is degraded exactly while it has a pending candidate, the one its
\* health names; the candidate asks for a recovery exactly if the Monitor was
\* down; outside of it the stable state is the state.
CandidatesSound ==
    \A m \in Monitors :
       /\ health[m].state = "degraded" <=> HasCandidate(health[m])
       /\ health[m].state = "degraded" \/ health[m].stable = health[m].state
       /\ \A t \in Triggers :
             candidates[<<m, t>>].status = "pending" <=> health[m].candidate = t
       /\ HasCandidate(health[m]) =>
             (CandidateRow(m).direction = "recovery" <=> health[m].stable = "down")

\* health.go:38-45: a candidate is decided once, also when its Run is evaluated
\* again by a handler that read the marker too early.
CandidatesDecidedOnce ==
    [][\A s \in Slots : candidates[s].status \notin {"none", "pending"} =>
          candidates'[s] = candidates[s]]_vars

\* A Monitor goes down only by two failing Runs of its latest Revision, a
\* scheduled one and the confirmation of the candidate it triggered, with that
\* candidate still pending: never by a late, superseded or foreign answer.
DownIsConfirmed ==
    [][\A m \in Monitors : health[m].stable # "down" /\ health'[m].stable = "down" =>
          \E t \in Triggers :
             /\ t.revision = catalogue[m].latest
             /\ candidates[<<m, t>>].status = "pending"
             /\ runs[Fact(m, "scheduled", t)].evidence = "failing"
             /\ runs[Fact(m, "confirmation", t)].evidence = "failing"]_vars

\* docs/backend-contract.md:956-958: evidence of a superseded Revision or of an
\* older cohort cannot rewrite health.  The Runs that cause the transitions of
\* a Monitor are in the order in which they were due, and of their Revisions.
CausesInOrder ==
    \A m \in Monitors : \A i, j \in DOMAIN transitions[m] :
       i < j => \A f \in transitions[m][i].cause, g \in transitions[m][j].cause :
                   /\ f.trigger.due <= g.trigger.due
                   /\ f.trigger.revision <= g.trigger.revision

\* Health goes stale only when its evidence is old at that moment, whatever was
\* evaluated since the sweep listed the Monitor.
StaleIsOld ==
    [][\A m \in Monitors : health[m].stable # "unknown" /\ health'[m].stable = "unknown" =>
          clock >= Expires(m)]_vars

Overdue(m) ==
    /\ catalogue[m].active
    /\ health[m].state # "unknown"
    /\ Expires(m) <= clock

\* docs/backend-contract.md:953-954: what is not confirmed by new evidence does
\* not stay: an active Monitor's health goes unknown once its evidence is old.
EvidenceExpires == \A m \in Monitors : Overdue(m) ~> ~ Overdue(m)

\* 0003_runs_observations.sql:128-129: consumers are idempotent on the event id,
\* so a Run causes at most one transition.
CausedOnce ==
    \A m \in Monitors : \A i, j \in DOMAIN transitions[m] :
       i # j => transitions[m][i].cause \cap transitions[m][j].cause = {}
=============================================================================
