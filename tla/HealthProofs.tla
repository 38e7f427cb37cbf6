----------------------------- MODULE HealthProofs -----------------------------
(***************************************************************************)
(* Theorems of HealthEvaluation, for every number of Monitors, handlers,   *)
(* sweeps, Revisions and due instants, with redelivered, lost and failing  *)
(* events and edits between any two steps.                                 *)
(***************************************************************************)
EXTENDS HealthEvaluation, SequenceTheorems, TLAPS

\* What is queued, marked or in a handler's hands is the event of a recorded Run.
EventsRecorded ==
    /\ \A f \in queue \cup marked : runs[f].status = "recorded"
    /\ \A w \in Workers : \A f \in held[w] : runs[f].status = "recorded"

\* A candidate was triggered by a scheduled Run, whose evidence fixes its direction.
CandidatesEvident ==
    \A m \in Monitors, t \in Triggers : candidates[<<m, t>>].status # "none" =>
        /\ runs[Fact(m, "scheduled", t)].status = "recorded"
        /\ runs[Fact(m, "scheduled", t)].evidence = Expected(candidates[<<m, t>>].direction)
        /\ candidates[<<m, t>>].direction \in Directions

\* The newest cohort seen is as new as the pending candidate, and that one as new as
\* whatever has caused a transition.
CausesOf(log) == UNION {log[i].cause : i \in DOMAIN log}

Causes(m) == CausesOf(transitions[m])

CausesBehind ==
    \A m \in Monitors :
        /\ HasCandidate(health[m]) => health[m].candidate.due <= health[m].last
        /\ \A f \in Causes(m) :
              /\ f.trigger.revision <= catalogue[m].latest
              /\ f.trigger.due <= health[m].last
              /\ HasCandidate(health[m]) => f.trigger.due <= health[m].candidate.due

\* A sweep does not look into the future.
SweepsPast == \A x \in Sweepers : sweeps[x].now <= clock

IInv ==
    /\ TypeOK
    /\ TransitionsChain
    /\ CandidatesSound
    /\ EventsRecorded
    /\ CandidatesEvident
    /\ CausesBehind
    /\ CausesInOrder
    /\ SweepsPast

-----------------------------------------------------------------------------
(* The evaluator: every decision has one of the shapes below. *)

RunInputs == [kind : {"scheduled", "confirmation", "manual"}, trigger : Triggers,
              evidence : Evidence, finished : Nat]

\* What holds of a snapshot by itself.
SnapshotSound(s) ==
    /\ s.state = "degraded" <=> HasCandidate(s)
    /\ s.state = "degraded" \/ s.stable = s.state
    /\ HasCandidate(s) => s.candidate.due <= s.last

\* Nothing but the instants of the evidence changes.
Kept(s, d) ==
    /\ d.completed = "none" /\ d.created = "none"
    /\ d.snapshot.state = s.state /\ d.snapshot.stable = s.stable
    /\ d.snapshot.candidate = s.candidate

\* Scheduled evidence settles the state, and supersedes a candidate.
AgreedWith(s, run, d) ==
    /\ run.kind = "scheduled" /\ run.trigger.due = d.snapshot.last
    /\ d.created = "none" /\ d.completed = Superseded(s)
    /\ d.snapshot.state = d.snapshot.stable
    /\ d.snapshot.stable = "down" => s.stable = "down"
    /\ d.snapshot.state \in {"healthy", "down"}
    /\ d.snapshot.candidate = NoTrigger

\* Scheduled evidence asks for a confirmation.
Asked(s, run, d) ==
    /\ run.kind = "scheduled" /\ run.trigger.due = d.snapshot.last
    /\ d.created \in Directions /\ d.completed = Superseded(s)
    /\ run.evidence = Expected(d.created)
    /\ d.created = "recovery" <=> s.stable = "down"
    /\ d.snapshot.state = "degraded" /\ d.snapshot.stable = s.stable
    /\ d.snapshot.candidate = run.trigger

\* A confirmation answers the candidate.
Answered(s, run, row, d) ==
    /\ run.kind = "confirmation" /\ run.trigger = s.candidate
    /\ row.status = "pending"
    /\ d.created = "none" /\ d.completed \in {"confirmed", "contradicted"}
    /\ d.snapshot.state = d.snapshot.stable
    /\ \/ d.snapshot.stable = s.stable
       \/ d.snapshot.stable = "down" /\ run.evidence = "failing" /\ row.direction # "recovery"
       \/ d.snapshot.stable = "healthy"
    /\ d.snapshot.candidate = NoTrigger

\* The sweep takes the evidence away.
Staled(s, d) ==
    /\ d.created = "none"
    /\ d.completed = IF HasCandidate(s) THEN "stale" ELSE "none"
    /\ d.snapshot.state = "unknown" /\ d.snapshot.stable = "unknown"
    /\ d.snapshot.candidate = NoTrigger

\* Every decision: a snapshot whose version counts the changes of its state.
Decisions ==
    [snapshot : Snapshots,
     completed : {"none", "confirmed", "contradicted", "superseded", "stale"},
     created : Directions \cup {"none"}]

Versioned(s, d) == d \in Decisions /\ d.snapshot.version = NextVersion(s, d.snapshot.state)

LEMMA NoTriggerIsNone == NoTrigger \notin Triggers
    BY DEF NoTrigger, Triggers, Revisions

LEMMA SetStateFields ==
    ASSUME NEW s \in Snapshots, NEW state \in States, NEW stable \in Stable
    PROVE  LET t == SetState(s, state, stable) IN
           /\ t \in Snapshots
           /\ t.state = state /\ t.stable = stable /\ t.version = NextVersion(s, state)
           /\ t.last = s.last /\ t.proven = s.proven /\ t.candidate = s.candidate
<1> DEFINE version == NextVersion(s, state)
<1>1. version \in Nat
    BY DEF NextVersion, Snapshots
<1> HIDE DEF version
<1> DEFINE t == [s EXCEPT !.state = state, !.stable = stable, !.version = version]
<1>2. /\ t.state = state /\ t.stable = stable /\ t.version = version
      /\ t.last = s.last /\ t.proven = s.proven /\ t.candidate = s.candidate
    BY DEF Snapshots
<1>3. [s EXCEPT !.state = state] \in Snapshots
    BY DEF Snapshots
<1>4. t \in Snapshots
    BY <1>1, <1>3 DEF Snapshots
<1> QED
    BY <1>2, <1>4 DEF SetState, version

\* A settled state, with another candidate.
LEMMA SettleFields ==
    ASSUME NEW s \in Snapshots, NEW candidate \in Triggers \cup {NoTrigger},
           NEW state \in States, NEW stable \in Stable
    PROVE  LET t == SetState([s EXCEPT !.candidate = candidate], state, stable) IN
           /\ t \in Snapshots
           /\ t.state = state /\ t.stable = stable /\ t.version = NextVersion(s, state)
           /\ t.last = s.last /\ t.candidate = candidate
<1> DEFINE seen == [s EXCEPT !.candidate = candidate]
<1>1. /\ seen \in Snapshots /\ seen.state = s.state /\ seen.version = s.version
      /\ seen.last = s.last /\ seen.candidate = candidate
    BY DEF Snapshots
<1>2. NextVersion(seen, state) = NextVersion(s, state)
    BY <1>1 DEF NextVersion
<1> HIDE DEF seen
<1>3. SUFFICES LET t == SetState(seen, state, stable) IN
           /\ t \in Snapshots
           /\ t.state = state /\ t.stable = stable /\ t.version = NextVersion(s, state)
           /\ t.last = s.last /\ t.candidate = candidate
    BY DEF seen
<1> QED
    BY <1>1, <1>2, SetStateFields

LEMMA KeepDecides ==
    ASSUME NEW s \in Snapshots, NEW t \in Snapshots, t.state = s.state, t.version = s.version,
           t.stable = s.stable, t.candidate = s.candidate
    PROVE  Versioned(s, Keep(t)) /\ Kept(s, Keep(t))
    BY DEF Keep, Decide, Versioned, Decisions, Kept, NextVersion

LEMMA ScheduledDecides ==
    ASSUME NEW s \in Snapshots, SnapshotSound(s), NEW run \in RunInputs,
           NEW c \in Snapshots, run.kind = "scheduled",
           c.last = run.trigger.due, c.state = s.state, c.stable = s.stable,
           c.version = s.version, c.candidate = s.candidate
    PROVE  LET d == EvaluateScheduled(c, run) IN
           /\ Versioned(s, d)
           /\ d.snapshot.last = run.trigger.due
           /\ Kept(s, d) \/ AgreedWith(s, run, d) \/ Asked(s, run, d)
<1> DEFINE d == EvaluateScheduled(c, run)
           verdict == Settled(run.evidence)
<1>1. c.stable \in Stable /\ run.trigger \in Triggers /\ run.evidence \in Evidence
    BY DEF Snapshots, RunInputs
<1>2. /\ verdict \in {"healthy", "down"} /\ verdict \in States /\ verdict \in Stable
      /\ "degraded" \in States
    BY DEF Settled, States, Stable
<1>3. Superseded(c) = Superseded(s) /\ Superseded(s) \in {"none", "superseded"}
    BY DEF Superseded, HasCandidate
<1>4. StableOf(c) = s.stable
    BY DEF StableOf, SnapshotSound
<1>5. CASE run.evidence \notin Determinate
    <2>1. d = Keep(c)
        BY <1>5 DEF EvaluateScheduled
    <2>2. d.snapshot.last = run.trigger.due
        BY <2>1 DEF Keep, Decide
    <2> QED
        BY <2>1, <2>2, KeepDecides
<1>6. CASE run.evidence \in Determinate /\ Agrees(s.stable, run.evidence)
    <2> DEFINE t == SetState([c EXCEPT !.candidate = NoTrigger], verdict, verdict)
    <2>1. d = Decide(t, Superseded(s), "none")
        BY <1>3, <1>4, <1>6 DEF EvaluateScheduled
    <2>2. /\ t \in Snapshots /\ t.state = verdict /\ t.stable = verdict
          /\ t.version = NextVersion(c, verdict) /\ t.last = run.trigger.due
          /\ t.candidate = NoTrigger
        <3> HIDE DEF verdict
        <3> QED
            BY <1>2, SettleFields
    <2>3. verdict = "down" => s.stable = "down"
        BY <1>6 DEF Settled, Agrees
    <2> HIDE DEF t
    <2>4. d.snapshot = t /\ d.completed = Superseded(s) /\ d.created = "none" /\ d \in Decisions
        BY <1>3, <2>1, <2>2 DEF Decide, Decisions
    <2>5. d.snapshot.version = NextVersion(s, d.snapshot.state)
        BY <1>1, <2>2, <2>4 DEF NextVersion
    <2> HIDE DEF d, verdict
    <2>6. AgreedWith(s, run, d)
        BY <1>2, <2>2, <2>3, <2>4 DEF AgreedWith
    <2> QED
        BY <2>2, <2>4, <2>5, <2>6 DEF Versioned, d
<1>7. CASE run.evidence \in Determinate /\ ~ Agrees(s.stable, run.evidence)
    <2> DEFINE t == SetState([c EXCEPT !.candidate = run.trigger], "degraded", c.stable)
               direction == IF s.stable = "down" THEN "recovery" ELSE "failure"
    <2>1. d = Decide(t, Superseded(s), direction)
        BY <1>3, <1>4, <1>7 DEF EvaluateScheduled
    <2>2. /\ t \in Snapshots /\ t.state = "degraded" /\ t.stable = s.stable
          /\ t.version = NextVersion(c, "degraded") /\ t.last = run.trigger.due
          /\ t.candidate = run.trigger
        BY <1>1, <1>2, SettleFields
    <2>3. run.evidence = Expected(direction) /\ direction \in Directions
        BY <1>7 DEF Determinate, Agrees, Expected, Directions
    <2>4. direction = "recovery" <=> s.stable = "down"
        OBVIOUS
    <2> HIDE DEF t, direction
    <2>5. d.snapshot = t /\ d.completed = Superseded(s) /\ d.created = direction /\ d \in Decisions
        BY <1>3, <2>1, <2>2, <2>3 DEF Decide, Decisions
    <2>6. d.snapshot.version = NextVersion(s, d.snapshot.state)
        BY <1>1, <2>2, <2>5 DEF NextVersion
    <2> HIDE DEF d
    <2>7. Asked(s, run, d)
        BY <2>2, <2>3, <2>4, <2>5 DEF Asked
    <2> QED
        BY <2>2, <2>5, <2>6, <2>7 DEF Versioned, d
<1> QED
    BY <1>5, <1>6, <1>7

LEMMA ConfirmationDecides ==
    ASSUME NEW s \in Snapshots, NEW run \in RunInputs, NEW row \in CandidateRows,
           NEW c \in Snapshots, run.kind = "confirmation", Confirms(s, run, row),
           row.direction \in Directions,
           c.last = s.last, c.state = s.state, c.stable = s.stable,
           c.version = s.version, c.candidate = s.candidate
    PROVE  LET d == EvaluateConfirmation(c, run, row.direction) IN
           /\ Versioned(s, d)
           /\ d.snapshot.last = s.last
           /\ Kept(s, d) \/ Answered(s, run, row, d)
<1> DEFINE d == EvaluateConfirmation(c, run, row.direction)
           verdict == Settled(run.evidence)
<1>1. c.stable \in Stable /\ Stable \subseteq States
    BY DEF Snapshots, Stable, States
<1>2. verdict \in {"healthy", "down"} /\ verdict \in States /\ verdict \in Stable
    BY DEF Settled, States, Stable
<1>3. CASE run.evidence \notin Determinate
    <2>1. d = Keep(c)
        BY <1>3 DEF EvaluateConfirmation
    <2>2. d.snapshot.last = s.last
        BY <2>1 DEF Keep, Decide
    <2> QED
        BY <2>1, <2>2, KeepDecides
<1>4. CASE run.evidence \in Determinate /\ run.evidence = Expected(row.direction)
    <2> DEFINE t == SetState([c EXCEPT !.candidate = NoTrigger], verdict, verdict)
    <2>1. d = Decide(t, "confirmed", "none")
        BY <1>4 DEF EvaluateConfirmation
    <2>2. /\ t \in Snapshots /\ t.state = verdict /\ t.stable = verdict
          /\ t.version = NextVersion(c, verdict) /\ t.last = s.last
          /\ t.candidate = NoTrigger
        <3> HIDE DEF verdict
        <3> QED
            BY <1>2, SettleFields
    <2>3. \/ verdict = "down" /\ run.evidence = "failing" /\ row.direction # "recovery"
          \/ verdict = "healthy"
        BY <1>4 DEF Settled, Expected, Directions
    <2> HIDE DEF t, verdict
    <2>4. d.snapshot = t /\ d.completed = "confirmed" /\ d.created = "none" /\ d \in Decisions
        BY <2>1, <2>2 DEF Decide, Decisions
    <2>5. d.snapshot.version = NextVersion(s, d.snapshot.state)
        BY <1>1, <2>2, <2>4 DEF NextVersion
    <2> HIDE DEF d
    <2>6. Answered(s, run, row, d)
        BY <2>2, <2>3, <2>4 DEF Answered, Confirms
    <2> QED
        BY <2>2, <2>4, <2>5, <2>6 DEF Versioned, d
<1>5. CASE run.evidence \in Determinate /\ run.evidence # Expected(row.direction)
    <2> DEFINE t == SetState([c EXCEPT !.candidate = NoTrigger], c.stable, c.stable)
    <2>1. d = Decide(t, "contradicted", "none")
        BY <1>5 DEF EvaluateConfirmation
    <2>2. /\ t \in Snapshots /\ t.state = s.stable /\ t.stable = s.stable
          /\ t.version = NextVersion(c, s.stable) /\ t.last = s.last
          /\ t.candidate = NoTrigger
        BY <1>1, SettleFields
    <2> HIDE DEF t
    <2>3. d.snapshot = t /\ d.completed = "contradicted" /\ d.created = "none" /\ d \in Decisions
        BY <2>1, <2>2 DEF Decide, Decisions
    <2>4. d.snapshot.version = NextVersion(s, d.snapshot.state)
        BY <1>1, <2>2, <2>3 DEF NextVersion
    <2> HIDE DEF d
    <2>5. Answered(s, run, row, d)
        BY <2>2, <2>3 DEF Answered, Confirms
    <2> QED
        BY <2>2, <2>3, <2>4, <2>5 DEF Versioned, d
<1> QED
    BY <1>3, <1>4, <1>5

\* What a recorded Run makes of a Monitor's health.
LEMMA EvaluateDecides ==
    ASSUME NEW s \in Snapshots, SnapshotSound(s), NEW run \in RunInputs,
           NEW row \in CandidateRows, row.status = "pending" => row.direction \in Directions,
           NEW latest
    PROVE  LET d == Evaluate(s, run, row, latest) IN
           /\ Versioned(s, d)
           /\ d.snapshot.last >= s.last
           /\ \/ Kept(s, d)
              \/ /\ run.trigger.revision = latest
                 /\ AgreedWith(s, run, d) \/ Asked(s, run, d) \/ Answered(s, run, row, d)
<1> DEFINE d == Evaluate(s, run, row, latest)
           proven == IF run.evidence \in Determinate THEN run.finished ELSE s.proven
           cohort == [s EXCEPT !.last = run.trigger.due, !.proven = proven]
           answer == [s EXCEPT !.proven = proven]
<1>1. /\ run.trigger \in Triggers /\ run.trigger.due \in Nat /\ proven \in Nat \cup {NoInstant}
      /\ s.last \in Nat \cup {NoInstant} /\ s.last \in Int
    <2>1. run.trigger \in Triggers /\ run.finished \in Nat
        BY DEF RunInputs
    <2>2. run.trigger.due \in Nat
        BY <2>1, HealthAssumption DEF Triggers
    <2>3. s.last \in Nat \cup {NoInstant} /\ s.proven \in Nat \cup {NoInstant}
        BY DEF Snapshots
    <2>4. s.last \in Int
        BY <2>3 DEF NoInstant
    <2> QED
        BY <2>1, <2>2, <2>3, <2>4
<1> HIDE DEF proven
<1>2. /\ cohort \in Snapshots /\ cohort.last = run.trigger.due /\ cohort.state = s.state
      /\ cohort.stable = s.stable /\ cohort.version = s.version /\ cohort.candidate = s.candidate
      /\ answer \in Snapshots /\ answer.last = s.last /\ answer.state = s.state
      /\ answer.stable = s.stable /\ answer.version = s.version /\ answer.candidate = s.candidate
    <2>1. [s EXCEPT !.last = run.trigger.due] \in Snapshots /\ answer \in Snapshots
        BY <1>1 DEF Snapshots
    <2>2. cohort \in Snapshots
        BY <1>1, <2>1 DEF Snapshots
    <2> QED
        BY <2>1, <2>2 DEF Snapshots
<1>3. Keep(s).snapshot = s
    BY DEF Keep, Decide
<1>4. CASE ~ Counts(s, run, latest)
    <2>1. d = Keep(s)
        BY <1>4 DEF Evaluate
    <2> QED
        BY <1>1, <1>3, <2>1, KeepDecides
<1>5. CASE Counts(s, run, latest) /\ run.kind = "scheduled"
    <2>1. d = EvaluateScheduled(cohort, run)
        BY <1>5 DEF Evaluate, proven
    <2>2. run.trigger.due >= s.last /\ run.trigger.revision = latest
        BY <1>1, <1>5 DEF Counts, Late
    <2> HIDE DEF cohort
    <2> QED
        BY <1>2, <1>5, <2>1, <2>2, ScheduledDecides
<1>6. CASE Counts(s, run, latest) /\ run.kind # "scheduled" /\ Confirms(s, run, row)
    <2>1. d = EvaluateConfirmation(answer, run, row.direction)
        BY <1>6 DEF Evaluate, proven
    <2>2. run.kind = "confirmation" /\ run.trigger.revision = latest /\ row.direction \in Directions
        BY <1>6 DEF Counts, RunInputs, Confirms
    <2> HIDE DEF answer
    <2> QED
        BY <1>1, <1>2, <1>6, <2>1, <2>2, ConfirmationDecides
<1>7. CASE Counts(s, run, latest) /\ run.kind # "scheduled" /\ ~ Confirms(s, run, row)
    <2>1. d = Keep(s)
        BY <1>7 DEF Evaluate
    <2> QED
        BY <1>1, <1>3, <2>1, KeepDecides
<1> QED
    BY <1>4, <1>5, <1>6, <1>7

LEMMA MarkStaleDecides ==
    ASSUME NEW s \in Snapshots
    PROVE  LET d == MarkStale(s) IN
           Versioned(s, d) /\ d.snapshot.last = s.last /\ Staled(s, d)
<1> DEFINE d == MarkStale(s)
           t == SetState([s EXCEPT !.candidate = NoTrigger], "unknown", "unknown")
<1>1. "unknown" \in States /\ "unknown" \in Stable
    BY DEF States, Stable
<1>2. /\ t \in Snapshots /\ t.state = "unknown" /\ t.stable = "unknown"
      /\ t.version = NextVersion(s, "unknown") /\ t.last = s.last
      /\ t.candidate = NoTrigger
    BY <1>1, SettleFields
<1> HIDE DEF t
<1>3. /\ d.snapshot = t /\ d.created = "none" /\ d \in Decisions
      /\ d.completed = IF HasCandidate(s) THEN "stale" ELSE "none"
    BY <1>2 DEF MarkStale, Decide, Decisions, t
<1> QED
    BY <1>2, <1>3 DEF Versioned, Staled

-----------------------------------------------------------------------------
(* The logs of transitions. *)

ChainOf(log, version, state) ==
    /\ Len(log) = version
    /\ \A i \in DOMAIN log :
          /\ log[i].from # log[i].to
          /\ log[i].from = IF i = 1 THEN "unknown" ELSE log[i - 1].to
    /\ state = IF log = <<>> THEN "unknown" ELSE log[Len(log)].to

OrderOf(log) ==
    \A i, j \in DOMAIN log :
       i < j => \A f \in log[i].cause, g \in log[j].cause :
                   /\ f.trigger.due <= g.trigger.due
                   /\ f.trigger.revision <= g.trigger.revision

\* The entries of a log with one more.
LEMMA AppendEntries ==
    ASSUME NEW log \in Seq(Transitions), NEW e \in Transitions
    PROVE  LET more == Append(log, e) IN
           /\ more \in Seq(Transitions) /\ more # <<>>
           /\ Len(log) \in Nat /\ Len(more) = Len(log) + 1
           /\ DOMAIN log = 1..Len(log) /\ DOMAIN more = 1..(Len(log) + 1)
           /\ more[Len(log) + 1] = e
           /\ \A i \in 1..Len(log) : more[i] = log[i]
           /\ Len(log) = 0 <=> log = <<>>
    BY AppendProperties, EmptySeq, LenProperties

LEMMA ChainAppend ==
    ASSUME NEW log \in Seq(Transitions), NEW e \in Transitions, NEW version \in Nat,
           ChainOf(log, version, e.from), e.from # e.to
    PROVE  ChainOf(Append(log, e), version + 1, e.to)
<1> DEFINE more == Append(log, e)
<1>1. /\ more # <<>> /\ Len(log) = version /\ Len(more) = version + 1
      /\ DOMAIN log = 1..version /\ DOMAIN more = 1..(version + 1)
      /\ more[version + 1] = e
      /\ \A i \in 1..version : more[i] = log[i]
      /\ version = 0 <=> log = <<>>
    BY AppendEntries DEF ChainOf
<1> HIDE DEF more
<1>2. ASSUME NEW i \in DOMAIN more
      PROVE  /\ more[i].from # more[i].to
             /\ more[i].from = IF i = 1 THEN "unknown" ELSE more[i - 1].to
    <2>1. CASE i = version + 1
        <3>1. more[i] = e
            BY <1>1, <2>1
        <3>2. CASE version = 0
            BY <1>1, <2>1, <3>1, <3>2 DEF ChainOf
        <3>3. CASE version # 0
            <4>1. version \in 1..version /\ i - 1 = version /\ i # 1
                BY <2>1, <3>3
            <4>2. more[i - 1] = log[version]
                BY <1>1, <4>1
            <4>3. e.from = log[version].to
                BY <1>1, <3>3 DEF ChainOf
            <4> QED
                BY <3>1, <4>1, <4>2, <4>3
        <3> QED
            BY <3>2, <3>3
    <2>2. CASE i # version + 1
        <3>1. i \in 1..version /\ (i # 1 => i - 1 \in 1..version)
            BY <1>1, <2>2
        <3>2. more[i] = log[i] /\ (i # 1 => more[i - 1] = log[i - 1])
            BY <1>1, <3>1
        <3> QED
            BY <1>1, <3>1, <3>2 DEF ChainOf
    <2> QED
        BY <2>1, <2>2
<1> QED
    BY <1>1, <1>2 DEF ChainOf, more

LEMMA CausesAppend ==
    ASSUME NEW log \in Seq(Transitions), NEW e \in Transitions
    PROVE  CausesOf(Append(log, e)) = CausesOf(log) \cup e.cause
<1> DEFINE more == Append(log, e)
<1>1. /\ DOMAIN log = 1..Len(log) /\ DOMAIN more = 1..(Len(log) + 1) /\ Len(log) \in Nat
      /\ more[Len(log) + 1] = e /\ \A i \in 1..Len(log) : more[i] = log[i]
    BY AppendEntries
<1> HIDE DEF more
<1>2. \A i \in DOMAIN more : i \in DOMAIN log \/ i = Len(log) + 1
    BY <1>1
<1>3. DOMAIN log \subseteq DOMAIN more /\ Len(log) + 1 \in DOMAIN more
    BY <1>1
<1> QED
    BY <1>1, <1>2, <1>3 DEF CausesOf, more

LEMMA OrderAppend ==
    ASSUME NEW log \in Seq(Transitions), NEW e \in Transitions, OrderOf(log),
           \A f \in CausesOf(log), g \in e.cause :
              f.trigger.due <= g.trigger.due /\ f.trigger.revision <= g.trigger.revision
    PROVE  OrderOf(Append(log, e))
<1> DEFINE more == Append(log, e)
<1>1. /\ DOMAIN log = 1..Len(log) /\ DOMAIN more = 1..(Len(log) + 1) /\ Len(log) \in Nat
      /\ more[Len(log) + 1] = e /\ \A i \in 1..Len(log) : more[i] = log[i]
    BY AppendEntries
<1> HIDE DEF more
<1>2. SUFFICES ASSUME NEW i \in DOMAIN more, NEW j \in DOMAIN more, i < j,
                      NEW f \in more[i].cause, NEW g \in more[j].cause
               PROVE  f.trigger.due <= g.trigger.due /\ f.trigger.revision <= g.trigger.revision
    BY DEF OrderOf, more
<1>3. i \in DOMAIN log /\ more[i] = log[i]
    BY <1>1, <1>2
<1>4. CASE j = Len(log) + 1
    <2>1. f \in CausesOf(log) /\ g \in e.cause
        BY <1>1, <1>3, <1>4 DEF CausesOf
    <2> QED
        BY <2>1
<1>5. CASE j # Len(log) + 1
    <2>1. j \in DOMAIN log /\ more[j] = log[j]
        BY <1>1, <1>5
    <2> QED
        BY <1>2, <1>3, <2>1 DEF OrderOf
<1> QED
    BY <1>4, <1>5

-----------------------------------------------------------------------------
(* What the transaction of a decision leaves. *)

\* The candidate is gone, if there was one.
Cleared(s, d) ==
    /\ d.created = "none" /\ d.snapshot.candidate = NoTrigger
    /\ d.snapshot.state = d.snapshot.stable
    /\ HasCandidate(s) => d.completed # "none"

\* A new candidate is there, for which none was.
Requested(m, d, trigger) ==
    /\ d.created \in Directions /\ trigger \in Triggers
    /\ d.completed = Superseded(health[m])
    /\ candidates[<<m, trigger>>].status = "none"
    /\ d.created = "recovery" <=> d.snapshot.stable = "down"
    /\ d.snapshot.state = "degraded" /\ d.snapshot.candidate = trigger
    /\ runs[Fact(m, "scheduled", trigger)].status = "recorded"
    /\ runs[Fact(m, "scheduled", trigger)].evidence = Expected(d.created)

\* What causes a transition is as new as whatever caused one before.
Newer(m, d, cause) ==
    /\ HasCandidate(d.snapshot) => d.snapshot.candidate.due <= d.snapshot.last
    /\ \A f \in Causes(m) :
          /\ f.trigger.due <= d.snapshot.last
          /\ HasCandidate(d.snapshot) => f.trigger.due <= d.snapshot.candidate.due
    /\ d.snapshot.state # health[m].state => \A g \in cause :
          /\ g.trigger.revision = catalogue[m].latest
          /\ g.trigger.due <= d.snapshot.last
          /\ HasCandidate(d.snapshot) => g.trigger.due <= d.snapshot.candidate.due
          /\ \A f \in Causes(m) : f.trigger.due <= g.trigger.due

LEMMA CommitFrame ==
    ASSUME TypeOK, NEW m \in Monitors, NEW d, Versioned(health[m], d),
           NEW trigger, NEW cause \in SUBSET Facts, Commit(m, d, trigger, cause)
    PROVE  /\ health' \in [Monitors -> Snapshots]
           /\ candidates' \in [Slots -> CandidateRows]
           /\ transitions' \in [Monitors -> Seq(Transitions)]
           /\ health'[m] = d.snapshot
           /\ transitions'[m] = Announced(m, d, cause)
           /\ \A k \in Monitors : k # m =>
                 /\ health'[k] = health[k] /\ transitions'[k] = transitions[k]
                 /\ \A t \in Triggers : candidates'[<<k, t>>] = candidates[<<k, t>>]
           /\ [from |-> health[m].state, to |-> d.snapshot.state, cause |-> cause] \in Transitions
<1>1. /\ health[m] \in Snapshots /\ d.snapshot \in Snapshots
      /\ d.completed \in {"none", "confirmed", "contradicted", "superseded", "stale"}
      /\ d.created \in Directions \cup {"none"}
    BY DEF TypeOK, Versioned, Decisions
<1>2. [from |-> health[m].state, to |-> d.snapshot.state, cause |-> cause] \in Transitions
    BY <1>1 DEF Snapshots, Transitions
<1>3. transitions[m] \in Seq(Transitions)
    BY DEF TypeOK
<1>4. Announced(m, d, cause) \in Seq(Transitions)
    BY <1>2, <1>3, AppendProperties DEF Announced
<1>5. \A s \in Slots : candidates'[s] \in CandidateRows
    BY <1>1 DEF Commit, CandidatesAfter, TypeOK, CandidateRows
<1>6. \A k \in Monitors, t \in Triggers : <<k, t>> \in Slots
    BY DEF Slots
<1>7. ASSUME NEW k \in Monitors, k # m, NEW t \in Triggers
      PROVE  candidates'[<<k, t>>] = candidates[<<k, t>>]
    BY <1>6, <1>7 DEF Commit, CandidatesAfter
<1> QED
    BY <1>1, <1>2, <1>4, <1>5, <1>7 DEF Commit, CandidatesAfter, TypeOK

LEMMA CommitChain ==
    ASSUME TypeOK, TransitionsChain, NEW m \in Monitors, NEW d, Versioned(health[m], d),
           NEW trigger, NEW cause \in SUBSET Facts, Commit(m, d, trigger, cause)
    PROVE  TransitionsChain'
<1> DEFINE e == [from |-> health[m].state, to |-> d.snapshot.state, cause |-> cause]
<1>1. /\ \A k \in Monitors : k # m =>
            health'[k] = health[k] /\ transitions'[k] = transitions[k]
      /\ health'[m] = d.snapshot /\ transitions'[m] = Announced(m, d, cause)
      /\ e \in Transitions
    BY CommitFrame
<1>2. \A k \in Monitors : ChainOf(transitions[k], health[k].version, health[k].state)
    BY DEF TransitionsChain, ChainOf
<1>3. d.snapshot.version = NextVersion(health[m], d.snapshot.state)
    BY DEF Versioned
<1>4. CASE d.snapshot.state = health[m].state
    BY <1>1, <1>2, <1>3, <1>4 DEF TransitionsChain, ChainOf, Announced, NextVersion
<1>5. CASE d.snapshot.state # health[m].state
    <2>1. transitions[m] \in Seq(Transitions) /\ health[m].version \in Nat
        BY DEF TypeOK, Snapshots
    <2>2. e.from = health[m].state /\ e.to = d.snapshot.state
        OBVIOUS
    <2>3. /\ transitions'[m] = Append(transitions[m], e)
          /\ health'[m].version = health[m].version + 1
        BY <1>1, <1>3, <1>5 DEF Announced, NextVersion
    <2> HIDE DEF e
    <2>4. ChainOf(transitions'[m], health'[m].version, health'[m].state)
        BY <1>1, <1>2, <1>5, <2>1, <2>2, <2>3, ChainAppend
    <2>5. \A k \in Monitors : ChainOf(transitions'[k], health'[k].version, health'[k].state)
        BY <1>1, <1>2, <2>4
    <2> QED
        BY <2>5 DEF TransitionsChain, ChainOf
<1> QED
    BY <1>4, <1>5

LEMMA CommitCauses ==
    ASSUME TypeOK, CausesBehind, CausesInOrder, NEW m \in Monitors, NEW d,
           Versioned(health[m], d), NEW trigger, NEW cause \in SUBSET Facts,
           Commit(m, d, trigger, cause), Newer(m, d, cause), UNCHANGED catalogue
    PROVE  CausesBehind' /\ CausesInOrder'
<1> DEFINE e == [from |-> health[m].state, to |-> d.snapshot.state, cause |-> cause]
<1>1. /\ \A k \in Monitors : k # m =>
            health'[k] = health[k] /\ transitions'[k] = transitions[k]
      /\ health'[m] = d.snapshot /\ transitions'[m] = Announced(m, d, cause)
      /\ e \in Transitions
    BY CommitFrame
<1>2. \A k \in Monitors : OrderOf(transitions[k])
    BY DEF CausesInOrder, OrderOf
<1>3. transitions[m] \in Seq(Transitions) /\ e.cause = cause
    BY DEF TypeOK
<1> HIDE DEF e
<1>4. \A f \in Causes(m) : f.trigger.revision <= catalogue[m].latest
    BY DEF CausesBehind
<1>5. /\ CausesOf(transitions'[m]) \subseteq Causes(m) \cup cause
      /\ OrderOf(transitions'[m])
      /\ d.snapshot.state = health[m].state => CausesOf(transitions'[m]) = Causes(m)
    <2>1. CASE d.snapshot.state = health[m].state
        BY <1>1, <1>2, <2>1 DEF Announced, Causes
    <2>2. CASE d.snapshot.state # health[m].state
        <3>1. transitions'[m] = Append(transitions[m], e)
            BY <1>1, <2>2 DEF Announced, e
        <3>2. CausesOf(transitions'[m]) = Causes(m) \cup cause
            BY <1>1, <1>3, <3>1, CausesAppend DEF Causes
        <3>3. \A f \in CausesOf(transitions[m]), g \in e.cause :
                 f.trigger.due <= g.trigger.due /\ f.trigger.revision <= g.trigger.revision
            BY <1>3, <1>4, <2>2 DEF Newer, Causes
        <3>4. OrderOf(transitions'[m])
            BY <1>1, <1>2, <1>3, <3>1, <3>3, OrderAppend
        <3> QED
            BY <2>2, <3>2, <3>4
    <2> QED
        BY <2>1, <2>2
<1>6. \A k \in Monitors : k # m => CausesOf(transitions'[k]) = Causes(k)
    BY <1>1 DEF Causes
<1>7. /\ HasCandidate(d.snapshot) => d.snapshot.candidate.due <= d.snapshot.last
      /\ \A f \in CausesOf(transitions'[m]) :
            /\ f.trigger.revision <= catalogue[m].latest
            /\ f.trigger.due <= d.snapshot.last
            /\ HasCandidate(d.snapshot) => f.trigger.due <= d.snapshot.candidate.due
    <2>1. catalogue[m].latest \in Nat
        BY DEF TypeOK, Revisions
    <2> QED
        BY <1>4, <1>5, <2>1 DEF Newer
<1>8. CausesBehind'
    <2> SUFFICES ASSUME NEW k \in Monitors
                 PROVE  /\ HasCandidate(health'[k]) => health'[k].candidate.due <= health'[k].last
                        /\ \A f \in CausesOf(transitions'[k]) :
                              /\ f.trigger.revision <= catalogue[k].latest
                              /\ f.trigger.due <= health'[k].last
                              /\ HasCandidate(health'[k]) =>
                                    f.trigger.due <= health'[k].candidate.due
        BY DEF CausesBehind, Causes, HasCandidate
    <2>1. CASE k = m
        BY <1>1, <1>7, <2>1
    <2>2. CASE k # m
        BY <1>1, <1>6, <2>2 DEF CausesBehind, HasCandidate
    <2> QED
        BY <2>1, <2>2
<1>9. CausesInOrder'
    <2>1. \A k \in Monitors : OrderOf(transitions'[k])
        BY <1>1, <1>2, <1>5
    <2> QED
        BY <2>1 DEF CausesInOrder, OrderOf
<1> QED
    BY <1>8, <1>9

LEMMA CommitCandidates ==
    ASSUME TypeOK, CandidatesSound, CandidatesEvident, NEW m \in Monitors, NEW d,
           Versioned(health[m], d), NEW trigger, NEW cause \in SUBSET Facts,
           Commit(m, d, trigger, cause), UNCHANGED runs,
           \/ Kept(health[m], d)
           \/ Cleared(health[m], d)
           \/ Requested(m, d, trigger)
    PROVE  CandidatesSound' /\ CandidatesEvident'
<1>1. /\ \A k \in Monitors : k # m =>
            /\ health'[k] = health[k]
            /\ \A t \in Triggers : candidates'[<<k, t>>] = candidates[<<k, t>>]
      /\ health'[m] = d.snapshot
    BY CommitFrame
<1>2. /\ d.snapshot \in Snapshots /\ health[m] \in Snapshots
      /\ d.completed \in {"none", "confirmed", "contradicted", "superseded", "stale"}
      /\ \A t \in Triggers : <<m, t>> \in Slots /\ candidates[<<m, t>>] \in CandidateRows
    BY DEF TypeOK, Versioned, Decisions, Slots
<1>3. ASSUME NEW t \in Triggers
      PROVE  /\ d.created # "none" /\ t = trigger =>
                   candidates'[<<m, t>>] = [status |-> "pending", direction |-> d.created]
             /\ ~ (d.created # "none" /\ t = trigger) =>
                   /\ candidates'[<<m, t>>].direction = candidates[<<m, t>>].direction
                   /\ candidates'[<<m, t>>].status =
                        IF /\ d.completed # "none" /\ t = health[m].candidate
                           /\ candidates[<<m, t>>].status = "pending"
                        THEN d.completed ELSE candidates[<<m, t>>].status
    BY <1>2 DEF Commit, CandidatesAfter, CandidateRows
<1>4. \A t \in Triggers : candidates[<<m, t>>].status = "pending" <=> health[m].candidate = t
    BY DEF CandidatesSound
<1>5. NoTrigger \notin Triggers
    BY NoTriggerIsNone
<1>6. HasCandidate(health[m]) => health[m].candidate \in Triggers
    BY <1>2 DEF HasCandidate, Snapshots
<1>7. /\ health'[m].state = "degraded" <=> HasCandidate(health'[m])
      /\ health'[m].state = "degraded" \/ health'[m].stable = health'[m].state
      /\ \A t \in Triggers : candidates'[<<m, t>>].status = "pending" <=> health'[m].candidate = t
      /\ HasCandidate(health'[m]) =>
            (candidates'[<<m, health'[m].candidate>>].direction = "recovery"
                <=> health'[m].stable = "down")
    <2>1. CASE Kept(health[m], d)
        <3>1. \A t \in Triggers : /\ candidates'[<<m, t>>].status = candidates[<<m, t>>].status
                                  /\ candidates'[<<m, t>>].direction = candidates[<<m, t>>].direction
            BY <1>3, <2>1 DEF Kept
        <3>2. health'[m].candidate = health[m].candidate /\ health'[m].state = health[m].state
              /\ health'[m].stable = health[m].stable
            BY <1>1, <2>1 DEF Kept
        <3> QED
            BY <1>6, <3>1, <3>2 DEF CandidatesSound, CandidateRow, HasCandidate
    <2>2. CASE Cleared(health[m], d)
        <3>1. health'[m].candidate = NoTrigger /\ health'[m].state = health'[m].stable
              /\ ~ HasCandidate(health'[m])
            BY <1>1, <2>2 DEF Cleared, HasCandidate
        <3>2. health'[m].state # "degraded"
            BY <1>1, <1>2, <3>1 DEF Snapshots, Stable
        <3>3. ASSUME NEW t \in Triggers PROVE candidates'[<<m, t>>].status # "pending"
            <4>1. candidates[<<m, t>>].status = "pending" =>
                    t = health[m].candidate /\ d.completed # "none" /\ d.completed # "pending"
                BY <1>2, <1>4, <1>5, <2>2 DEF Cleared, HasCandidate
            <4> QED
                BY <1>3, <2>2, <4>1 DEF Cleared
        <3> QED
            BY <1>5, <3>1, <3>2, <3>3
    <2>3. CASE Requested(m, d, trigger)
        <3>1. health'[m].candidate = trigger /\ health'[m].state = "degraded"
              /\ HasCandidate(health'[m]) /\ trigger \in Triggers
              /\ d.created # "none"
            BY <1>1, <1>5, <2>3 DEF Requested, HasCandidate, Directions
        <3>2. candidates'[<<m, trigger>>] = [status |-> "pending", direction |-> d.created]
            BY <1>3, <3>1
        <3>3. ASSUME NEW t \in Triggers, t # trigger
              PROVE  candidates'[<<m, t>>].status # "pending"
            <4>1. candidates[<<m, t>>].status = "pending" =>
                    t = health[m].candidate /\ d.completed = "superseded"
                BY <1>4, <1>5, <2>3 DEF Requested, Superseded, HasCandidate
            <4> QED
                BY <1>3, <3>3, <4>1
        <3> QED
            BY <1>1, <2>3, <3>1, <3>2, <3>3 DEF Requested
    <2> QED
        BY <2>1, <2>2, <2>3
<1>8. CandidatesSound'
    <2> SUFFICES ASSUME NEW k \in Monitors
                 PROVE  /\ health'[k].state = "degraded" <=> HasCandidate(health'[k])
                        /\ health'[k].state = "degraded" \/ health'[k].stable = health'[k].state
                        /\ \A t \in Triggers :
                              candidates'[<<k, t>>].status = "pending" <=> health'[k].candidate = t
                        /\ HasCandidate(health'[k]) =>
                              (candidates'[<<k, health'[k].candidate>>].direction = "recovery"
                                  <=> health'[k].stable = "down")
        BY DEF CandidatesSound, CandidateRow, HasCandidate
    <2>1. CASE k = m
        BY <1>7, <2>1
    <2>2. CASE k # m
        <3>1. HasCandidate(health[k]) => health[k].candidate \in Triggers
            BY DEF HasCandidate, TypeOK, Snapshots
        <3> QED
            BY <1>1, <2>2, <3>1 DEF CandidatesSound, CandidateRow, HasCandidate
    <2> QED
        BY <2>1, <2>2
<1>9. CandidatesEvident'
    <2> SUFFICES ASSUME NEW k \in Monitors, NEW t \in Triggers,
                        candidates'[<<k, t>>].status # "none"
                 PROVE  /\ runs[Fact(k, "scheduled", t)].status = "recorded"
                        /\ runs[Fact(k, "scheduled", t)].evidence =
                             Expected(candidates'[<<k, t>>].direction)
                        /\ candidates'[<<k, t>>].direction \in Directions
        BY DEF CandidatesEvident, Fact, Expected
    <2>1. CASE k # m
        BY <1>1, <2>1 DEF CandidatesEvident
    <2>2. CASE k = m /\ d.created # "none" /\ t = trigger
        <3>1. Requested(m, d, trigger)
            BY <2>2 DEF Kept, Cleared
        <3> QED
            BY <1>3, <2>2, <3>1 DEF Requested
    <2>3. CASE k = m /\ ~ (d.created # "none" /\ t = trigger)
        <3>1. /\ candidates'[<<m, t>>].direction = candidates[<<m, t>>].direction
              /\ candidates[<<m, t>>].status # "none"
            BY <1>3, <2>3
        <3> QED
            BY <2>3, <3>1 DEF CandidatesEvident
    <2> QED
        BY <2>1, <2>2, <2>3
<1> QED
    BY <1>8, <1>9

-----------------------------------------------------------------------------
(* The two decisions that are committed: an evaluation and a sweep's. *)

Input(f) == [kind |-> f.kind, trigger |-> f.trigger, evidence |-> runs[f].evidence,
             finished |-> runs[f].finished]

\* An event that is evaluated: what its decision is, and for which candidate.
LEMMA RunDecides ==
    ASSUME TypeOK, CandidatesSound, CandidatesEvident, CausesBehind,
           NEW f \in Facts
    PROVE  LET m == f.monitor
               d == Decision(f) IN
           /\ m \in Monitors /\ health[m] \in Snapshots /\ Input(f) \in RunInputs
           /\ Versioned(health[m], d)
           /\ d.snapshot.last >= health[m].last
           /\ \/ Kept(health[m], d)
              \/ /\ f.trigger.revision = catalogue[m].latest
                 /\ \/ AgreedWith(health[m], Input(f), d)
                    \/ Asked(health[m], Input(f), d)
                    \/ Answered(health[m], Input(f), CandidateRow(m), d)
<1> DEFINE m == f.monitor
<1>1. m \in Monitors /\ f.trigger \in Triggers
    BY DEF Facts
<1>2. health[m] \in Snapshots /\ Input(f) \in RunInputs
    BY <1>1 DEF TypeOK, Input, RunInputs, RunRows, Facts
<1>3. SnapshotSound(health[m])
    BY <1>1 DEF SnapshotSound, CandidatesSound, CausesBehind
<1>4. CandidateRow(m) \in CandidateRows
    BY <1>1, <1>2 DEF CandidateRow, CandidateRows, NoCandidate, HasCandidate, Snapshots, TypeOK, Slots
<1>5. CandidateRow(m).status = "pending" => CandidateRow(m).direction \in Directions
    <2>1. HasCandidate(health[m]) => health[m].candidate \in Triggers
        BY <1>2 DEF HasCandidate, Snapshots
    <2> QED
        BY <1>1, <2>1 DEF CandidateRow, NoCandidate, CandidatesEvident
<1>6. Input(f).trigger = f.trigger
    BY DEF Input
<1>7. Decision(f) = Evaluate(health[m], Input(f), CandidateRow(m), catalogue[m].latest)
    BY DEF Decision, Input
<1> HIDE DEF m
<1>8. LET d == Evaluate(health[m], Input(f), CandidateRow(m), catalogue[m].latest) IN
      /\ Versioned(health[m], d)
      /\ d.snapshot.last >= health[m].last
      /\ \/ Kept(health[m], d)
         \/ /\ Input(f).trigger.revision = catalogue[m].latest
            /\ \/ AgreedWith(health[m], Input(f), d)
               \/ Asked(health[m], Input(f), d)
               \/ Answered(health[m], Input(f), CandidateRow(m), d)
    BY <1>2, <1>3, <1>4, <1>5, EvaluateDecides
<1> QED
    BY <1>1, <1>2, <1>6, <1>7, <1>8 DEF m

LEMMA TriggersAreDue ==
    ASSUME NEW t \in Triggers PROVE t.due \in Int /\ t.revision \in Int
<1>1. t.due \in Nat
    BY HealthAssumption DEF Triggers
<1>2. t.revision \in Int
    BY DEF Triggers, Revisions
<1> QED
    BY <1>1, <1>2

\* Whatever caused a transition was due at an instant.
LEMMA CausesAreFacts ==
    ASSUME TypeOK, NEW m \in Monitors, NEW f \in Causes(m)
    PROVE  f \in Facts /\ f.trigger.due \in Int /\ f.trigger.revision \in Int
<1>1. PICK i \in DOMAIN transitions[m] : f \in transitions[m][i].cause
    BY DEF Causes, CausesOf
<1>2. transitions[m][i] \in Transitions
    BY <1>1, ElementOfSeq, LenProperties DEF TypeOK
<1>3. f \in Facts
    BY <1>1, <1>2 DEF Transitions
<1>4. f.trigger \in Triggers
    BY <1>3 DEF Facts
<1> QED
    BY <1>3, <1>4, TriggersAreDue

LEMMA LastIsInstant ==
    ASSUME NEW s \in Snapshots
    PROVE  /\ s.last \in Int
           /\ HasCandidate(s) => s.candidate \in Triggers /\ s.candidate.due \in Int
<1>1. s.last \in Int
    BY DEF Snapshots, NoInstant
<1>2. HasCandidate(s) => s.candidate \in Triggers
    BY DEF Snapshots, HasCandidate
<1> QED
    BY <1>1, <1>2, TriggersAreDue

\* The evidence is that of the Run of the candidate the answer is for.
LEMMA AnswerIsOfCandidate ==
    ASSUME TypeOK, NEW f \in Facts, NEW d,
           Answered(health[f.monitor], Input(f), CandidateRow(f.monitor), d)
    PROVE  /\ f = Fact(f.monitor, "confirmation", f.trigger)
           /\ HasCandidate(health[f.monitor]) /\ f.trigger = health[f.monitor].candidate
           /\ candidates[<<f.monitor, f.trigger>>].status = "pending"
           /\ CandidateRow(f.monitor) = candidates[<<f.monitor, f.trigger>>]
<1>1. f.kind = "confirmation" /\ f.trigger = health[f.monitor].candidate
      /\ CandidateRow(f.monitor).status = "pending"
    BY DEF Answered, Input
<1>2. HasCandidate(health[f.monitor])
    BY <1>1 DEF CandidateRow, NoCandidate
<1>3. CandidateRow(f.monitor) = candidates[<<f.monitor, f.trigger>>]
    BY <1>1, <1>2 DEF CandidateRow
<1>4. f = Fact(f.monitor, "confirmation", f.trigger)
    BY <1>1 DEF Facts, Fact
<1> QED
    BY <1>1, <1>2, <1>3, <1>4

LEMMA RunCommits ==
    ASSUME IInv, NEW f \in Facts, runs[f].status = "recorded", ~ Conflicts(f)
    PROVE  LET m == f.monitor
               d == Decision(f) IN
           /\ Kept(health[m], d) \/ Cleared(health[m], d) \/ Requested(m, d, f.trigger)
           /\ Newer(m, d, {f})
<1> DEFINE m == f.monitor
           d == Decision(f)
<1>1. /\ m \in Monitors /\ health[m] \in Snapshots /\ Input(f) \in RunInputs
      /\ Versioned(health[m], d)
      /\ d.snapshot.last >= health[m].last
      /\ \/ Kept(health[m], d)
         \/ /\ f.trigger.revision = catalogue[m].latest
            /\ \/ AgreedWith(health[m], Input(f), d)
               \/ Asked(health[m], Input(f), d)
               \/ Answered(health[m], Input(f), CandidateRow(m), d)
    BY RunDecides DEF IInv
<1>2. d.created # "none" => candidates[<<m, f.trigger>>].status = "none"
    BY DEF Conflicts
<1> HIDE DEF d
<1>3. d.snapshot \in Snapshots
    BY <1>1 DEF Versioned, Decisions
<1>4. /\ health[m].last \in Int /\ d.snapshot.last \in Int
      /\ HasCandidate(health[m]) => health[m].candidate.due \in Int
      /\ HasCandidate(d.snapshot) => d.snapshot.candidate.due \in Int
    BY <1>1, <1>3, LastIsInstant
<1>5. /\ HasCandidate(health[m]) => health[m].candidate.due <= health[m].last
      /\ \A g \in Causes(m) :
            /\ g.trigger.due \in Int
            /\ g.trigger.due <= health[m].last
            /\ HasCandidate(health[m]) => g.trigger.due <= health[m].candidate.due
    BY <1>1, CausesAreFacts DEF IInv, CausesBehind
<1>6. \A g \in Causes(m) : g.trigger.due <= d.snapshot.last
    BY <1>1, <1>4, <1>5
<1>7. CASE Kept(health[m], d)
    <2>1. /\ d.snapshot.candidate = health[m].candidate /\ d.snapshot.state = health[m].state
          /\ HasCandidate(d.snapshot) <=> HasCandidate(health[m])
        BY <1>7 DEF Kept, HasCandidate
    <2>2. Newer(m, d, {f})
        BY <1>1, <1>4, <1>5, <1>6, <2>1 DEF Newer
    <2> QED
        BY <1>7, <2>2 DEF d
<1>8. CASE /\ AgreedWith(health[m], Input(f), d)
           /\ f.trigger.revision = catalogue[m].latest
    <2>1. /\ ~ HasCandidate(d.snapshot) /\ f.trigger.due = d.snapshot.last
        BY <1>8 DEF AgreedWith, HasCandidate, Input
    <2>2. Cleared(health[m], d)
        BY <1>8 DEF AgreedWith, Cleared, Superseded
    <2>3. Newer(m, d, {f})
        BY <1>4, <1>6, <1>8, <2>1 DEF Newer
    <2> QED
        BY <2>2, <2>3 DEF d
<1>9. CASE /\ Asked(health[m], Input(f), d)
           /\ f.trigger.revision = catalogue[m].latest
    <2>1. /\ d.snapshot.candidate = f.trigger /\ f.trigger.due = d.snapshot.last
          /\ f.kind = "scheduled" /\ d.created \in Directions /\ d.created # "none"
          /\ runs[f].evidence = Expected(d.created)
        BY <1>9 DEF Asked, Input, Directions
    <2>2. f = Fact(m, "scheduled", f.trigger) /\ f.trigger \in Triggers
        BY <2>1 DEF Facts, Fact
    <2>3. Requested(m, d, f.trigger)
        BY <1>2, <1>9, <2>1, <2>2 DEF Asked, Requested
    <2>4. Newer(m, d, {f})
        BY <1>4, <1>6, <1>9, <2>1 DEF Newer
    <2> QED
        BY <2>3, <2>4 DEF d
<1>10. CASE /\ Answered(health[m], Input(f), CandidateRow(m), d)
            /\ f.trigger.revision = catalogue[m].latest
    <2>1. HasCandidate(health[m]) /\ f.trigger = health[m].candidate
        BY <1>10, AnswerIsOfCandidate DEF IInv
    <2>2. ~ HasCandidate(d.snapshot)
        BY <1>10 DEF Answered, HasCandidate
    <2>3. Cleared(health[m], d)
        BY <1>10 DEF Answered, Cleared
    <2>4. f.trigger.due <= d.snapshot.last
        BY <1>1, <1>4, <1>5, <2>1
    <2>5. Newer(m, d, {f})
        BY <1>5, <1>6, <1>10, <2>1, <2>2, <2>4 DEF Newer
    <2> QED
        BY <2>3, <2>5 DEF d
<1> QED
    BY <1>1, <1>7, <1>8, <1>9, <1>10 DEF d

LEMMA SweepCommits ==
    ASSUME IInv, NEW m \in Monitors
    PROVE  LET d == MarkStale(health[m]) IN
           Versioned(health[m], d) /\ Cleared(health[m], d) /\ Newer(m, d, {})
<1> DEFINE d == MarkStale(health[m])
<1>1. health[m] \in Snapshots
    BY DEF IInv, TypeOK
<1>2. Versioned(health[m], d) /\ d.snapshot.last = health[m].last /\ Staled(health[m], d)
    BY <1>1, MarkStaleDecides
<1> HIDE DEF d
<1>3. Cleared(health[m], d)
    BY <1>2 DEF Staled, Cleared
<1>4. ~ HasCandidate(d.snapshot)
    BY <1>2 DEF Staled, HasCandidate
<1>5. Newer(m, d, {})
    BY <1>2, <1>4 DEF Newer, IInv, CausesBehind
<1> QED
    BY <1>2, <1>3, <1>5 DEF d

-----------------------------------------------------------------------------
(* Steps that leave health, the candidates and the transitions alone. *)

\* A recorded Run stays recorded, a scheduled one with its evidence; a Revision is
\* only ever superseded.
RunsKept ==
    \A f \in Facts : runs[f].status = "recorded" =>
       /\ runs'[f].status = "recorded"
       /\ f.kind = "scheduled" => runs'[f].evidence = runs[f].evidence

RevisionsGrow == \A m \in Monitors : catalogue[m].latest <= catalogue'[m].latest

LEMMA HealthFramed ==
    ASSUME IInv, TypeOK', UNCHANGED <<health, candidates, transitions>>,
           RunsKept, RevisionsGrow
    PROVE  /\ TransitionsChain' /\ CandidatesSound' /\ CandidatesEvident'
           /\ CausesBehind' /\ CausesInOrder'
<1>1. TransitionsChain'
    BY DEF IInv, TransitionsChain
<1>2. CandidatesSound'
    BY DEF IInv, CandidatesSound, CandidateRow, HasCandidate
<1>3. CandidatesEvident'
    <2>1. \A m \in Monitors, t \in Triggers :
             Fact(m, "scheduled", t) \in Facts /\ Fact(m, "scheduled", t).kind = "scheduled"
        BY DEF Fact, Facts
    <2> QED
        BY <2>1 DEF IInv, CandidatesEvident, RunsKept
<1>4. CausesInOrder'
    BY DEF IInv, CausesInOrder
<1>5. CausesBehind'
    <2>1. \A m \in Monitors :
             catalogue[m].latest \in Int /\ catalogue'[m].latest \in Int
        BY DEF IInv, TypeOK, Revisions
    <2>2. \A m \in Monitors : \A f \in Causes(m) : f.trigger.revision \in Int
        BY CausesAreFacts DEF IInv
    <2>3. ASSUME NEW m \in Monitors, NEW f \in Causes(m)
          PROVE  f.trigger.revision <= catalogue'[m].latest
        <3>1. f.trigger.revision <= catalogue[m].latest
            BY DEF IInv, CausesBehind
        <3> QED
            BY <2>1, <2>2, <3>1 DEF RevisionsGrow
    <2>4. \A m \in Monitors : Causes(m)' = Causes(m)
        BY DEF Causes
    <2> QED
        BY <2>3, <2>4 DEF IInv, CausesBehind, HasCandidate
<1> QED
    BY <1>1, <1>2, <1>3, <1>4, <1>5

\* New events are those of recorded Runs, and what is marked or in hand was queued.
LEMMA EventsFramed ==
    ASSUME TypeOK, EventsRecorded, RunsKept,
           \A f \in queue' : f \in queue \/ runs'[f].status = "recorded",
           \A f \in marked' : f \in marked \/ \E w \in Workers : f \in held[w],
           \A w \in Workers : \A f \in held'[w] : f \in queue \cup held[w]
    PROVE  EventsRecorded'
<1>1. /\ \A f \in queue \cup marked : f \in Facts
      /\ \A w \in Workers : \A f \in held[w] : f \in Facts
    BY DEF TypeOK
<1> QED
    BY <1>1 DEF EventsRecorded, RunsKept

LEMMA Framed ==
    ASSUME IInv, TypeOK', UNCHANGED <<health, candidates, transitions>>,
           RunsKept, RevisionsGrow,
           \A f \in queue' : f \in queue \/ runs'[f].status = "recorded",
           \A f \in marked' : f \in marked \/ \E w \in Workers : f \in held[w],
           \A w \in Workers : \A f \in held'[w] : f \in queue \cup held[w],
           SweepsPast'
    PROVE  IInv'
<1>1. EventsRecorded'
    BY EventsFramed DEF IInv
<1> QED
    BY <1>1, HealthFramed DEF IInv

\* What the steps that touch neither the Runs nor the Monitors have in common.
LEMMA EvidenceUnchanged ==
    ASSUME TypeOK, UNCHANGED <<catalogue, runs>>
    PROVE  RunsKept /\ RevisionsGrow
<1>1. \A m \in Monitors : catalogue[m].latest \in Int
    BY DEF TypeOK, Revisions
<1> QED
    BY <1>1 DEF RunsKept, RevisionsGrow

LEMMA CatalogueUnchanged ==
    ASSUME TypeOK, UNCHANGED catalogue
    PROVE  RevisionsGrow
<1>1. \A m \in Monitors : catalogue[m].latest \in Int
    BY DEF TypeOK, Revisions
<1> QED
    BY <1>1 DEF RevisionsGrow

LEMMA ClaimKeeps ==
    ASSUME IInv, NEW m \in Monitors, NEW kind \in Kinds, NEW due \in Dues,
           ClaimRun(m, kind, due)
    PROVE  IInv'
<1> DEFINE f == Fact(m, kind, [revision |-> catalogue[m].latest, due |-> due])
<1>1. /\ runs[f].status = "none"
      /\ runs' = [runs EXCEPT ![f].status = "inFlight"]
    BY DEF ClaimRun
<1> HIDE DEF f
<1>2. TypeOK'
    <2>1. runs' \in [Facts -> RunRows]
        <3>1. runs \in [Facts -> RunRows]
            BY DEF IInv, TypeOK
        <3> QED
            BY <1>1, <3>1 DEF RunRows
    <2> QED
        BY <2>1 DEF ClaimRun, IInv, TypeOK, healthVars
<1>3. RunsKept
    BY <1>1 DEF RunsKept, IInv, TypeOK, RunRows
<1>4. UNCHANGED <<clock, catalogue, queue, healthVars, held, sweeps>>
    BY DEF ClaimRun
<1>5. SweepsPast'
    BY <1>4 DEF IInv, SweepsPast
<1>6. RevisionsGrow
    BY <1>4, CatalogueUnchanged DEF IInv
<1> QED
    BY <1>2, <1>3, <1>4, <1>5, <1>6, Framed DEF healthVars

\* A Run that is recorded was not, or it is a confirmation.
LEMMA RecordKeeps ==
    ASSUME IInv, NEW f \in Facts, NEW evidence \in Evidence, Record(f, evidence),
           runs[f].status = "inFlight" \/ f.kind = "confirmation",
           requests' \in [Slots -> {"none", "queued", "running", "over"}],
           UNCHANGED <<clock, catalogue, healthVars, held, sweeps>>
    PROVE  IInv'
<1>1. /\ runs' = [runs EXCEPT ![f] = [status |-> "recorded", evidence |-> evidence,
                                      finished |-> clock]]
      /\ queue' = queue \cup {f}
    BY DEF Record
<1>2. TypeOK'
    <2>1. runs' \in [Facts -> RunRows]
        BY <1>1 DEF IInv, TypeOK, RunRows
    <2> QED
        BY <1>1, <2>1 DEF IInv, TypeOK, healthVars
<1>3. RunsKept
    BY <1>1 DEF RunsKept, IInv, TypeOK, RunRows
<1>4. \A g \in queue' : g \in queue \/ runs'[g].status = "recorded"
    BY <1>1 DEF IInv, TypeOK
<1>5. SweepsPast'
    BY DEF IInv, SweepsPast
<1>6. RevisionsGrow
    BY CatalogueUnchanged DEF IInv
<1> QED
    BY <1>2, <1>3, <1>4, <1>5, <1>6, Framed DEF healthVars

LEMMA EditKeeps ==
    ASSUME IInv, NEW m \in Monitors, EditMonitor(m)
    PROVE  IInv'
<1>1. UNCHANGED <<clock, runs, queue, healthVars, requests, held, sweeps>>
    BY DEF EditMonitor
<1>2. catalogue \in [Monitors -> [latest : Revisions, active : BOOLEAN]]
    BY DEF IInv, TypeOK
<1>3. /\ catalogue' \in [Monitors -> [latest : Revisions, active : BOOLEAN]]
      /\ RevisionsGrow
    <2>1. CASE Revise(m)
        <3>1. catalogue[m].latest + 1 \in Revisions
            <4>1. catalogue[m].latest \in Revisions /\ catalogue[m].latest < MaxRevision
                BY <1>2, <2>1 DEF Revise
            <4>2. MaxRevision \in Nat
                BY HealthAssumption
            <4> QED
                BY <4>1, <4>2 DEF Revisions
        <3>2. \A k \in Monitors : catalogue[k].latest \in Int
            BY <1>2 DEF Revisions
        <3>3. catalogue' = [catalogue EXCEPT ![m].latest = catalogue[m].latest + 1]
            BY <2>1 DEF Revise
        <3>4. \A k \in Monitors : catalogue'[k].latest =
                IF k = m THEN catalogue[m].latest + 1 ELSE catalogue[k].latest
            BY <1>2, <3>3
        <3>5. RevisionsGrow
            BY <3>2, <3>4 DEF RevisionsGrow
        <3> QED
            BY <1>2, <3>1, <3>3, <3>5
    <2>2. CASE Toggle(m)
        <3> DEFINE active == ~ catalogue[m].active
        <3>0. active \in BOOLEAN
            OBVIOUS
        <3> HIDE DEF active
        <3>1. catalogue' = [catalogue EXCEPT ![m].active = active]
            BY <2>2 DEF Toggle, active
        <3>2. \A k \in Monitors : catalogue'[k].latest = catalogue[k].latest
            BY <1>2, <3>1
        <3>3. RevisionsGrow
            <4>1. \A k \in Monitors : catalogue[k].latest \in Int
                BY <1>2 DEF Revisions
            <4> QED
                BY <3>2, <4>1 DEF RevisionsGrow
        <3> QED
            BY <1>2, <3>0, <3>1, <3>3
    <2> QED
        BY <2>1, <2>2 DEF EditMonitor
<1>4. TypeOK'
    BY <1>1, <1>3 DEF IInv, TypeOK, healthVars
<1>5. RunsKept
    BY <1>1 DEF RunsKept
<1>6. SweepsPast'
    BY <1>1 DEF IInv, SweepsPast
<1> QED
    BY <1>1, <1>3, <1>4, <1>5, <1>6, Framed DEF healthVars

\* Steps on nothing but what is queued, marked, in hand, requested or listed.
LEMMA Bookkeeping ==
    ASSUME IInv, UNCHANGED <<evidenceVars, health, candidates, transitions>>,
           clock' \in Nat, clock <= clock',
           queue' \subseteq queue,
           \A f \in marked' : f \in marked \/ \E w \in Workers : f \in held[w],
           \A w \in Workers : \A f \in held'[w] : f \in queue \cup held[w],
           held' \in [Workers -> SUBSET Facts],
           requests' \in [Slots -> {"none", "queued", "running", "over"}],
           sweeps' \in [Sweepers -> [now : Nat,
                                    targets : SUBSET [monitor : Monitors, version : Nat]]],
           \A x \in Sweepers : sweeps'[x].now = sweeps[x].now \/ sweeps'[x].now = clock
    PROVE  IInv'
<1>1. TypeOK'
    <2>1. marked' \subseteq Facts
        BY DEF IInv, TypeOK
    <2> QED
        BY <2>1 DEF IInv, TypeOK, evidenceVars
<1>2. SweepsPast'
    <2>1. clock \in Nat /\ \A x \in Sweepers : sweeps[x].now \in Nat /\ sweeps[x].now <= clock
        BY DEF IInv, TypeOK, SweepsPast
    <2> QED
        BY <2>1 DEF SweepsPast
<1>3. RunsKept /\ RevisionsGrow
    BY EvidenceUnchanged DEF IInv, evidenceVars
<1> QED
    BY <1>1, <1>2, <1>3, Framed

LEMMA ConfirmationKeeps ==
    ASSUME IInv, NEW s \in Slots, ConfirmationStep(s)
    PROVE  IInv'
<1>1. CASE StartConfirmation(s) \/ InterruptConfirmation(s) \/ LoseConfirmation(s)
    <2>1. requests' \in [Slots -> {"none", "queued", "running", "over"}]
        BY <1>1 DEF StartConfirmation, InterruptConfirmation, LoseConfirmation, IInv, TypeOK
    <2>2. UNCHANGED <<clock, evidenceVars, queue, healthVars, held, sweeps>>
        BY <1>1 DEF StartConfirmation, InterruptConfirmation, LoseConfirmation
    <2> QED
        BY <2>1, <2>2, Bookkeeping DEF healthVars, IInv, TypeOK
<1>2. CASE RecordConfirmation(s)
    <2> DEFINE f == Fact(s[1], "confirmation", s[2])
    <2>1. f \in Facts /\ f.kind = "confirmation"
        BY DEF Slots, Facts, Fact
    <2>2. requests' \in [Slots -> {"none", "queued", "running", "over"}]
        BY <1>2 DEF RecordConfirmation, IInv, TypeOK
    <2> HIDE DEF f
    <2>3. PICK evidence \in Evidence : Record(f, evidence)
        BY <1>2 DEF RecordConfirmation, f
    <2>4. UNCHANGED <<clock, catalogue, healthVars, held, sweeps>>
        BY <1>2 DEF RecordConfirmation
    <2> QED
        BY <2>1, <2>2, <2>3, <2>4, RecordKeeps
<1> QED
    BY <1>1, <1>2 DEF ConfirmationStep

LEMMA RunKeeps ==
    ASSUME IInv, NEW f \in Facts, RunStep(f)
    PROVE  IInv'
<1>1. CASE RecordRun(f)
    <2>1. PICK evidence \in Evidence : Record(f, evidence)
        BY <1>1 DEF RecordRun
    <2>2. /\ runs[f].status = "inFlight"
          /\ UNCHANGED <<clock, catalogue, healthVars, requests, held, sweeps>>
        BY <1>1 DEF RecordRun
    <2>3. requests' \in [Slots -> {"none", "queued", "running", "over"}]
        BY <2>2 DEF IInv, TypeOK
    <2> QED
        BY <2>1, <2>2, <2>3, RecordKeeps
<1>2. CASE Settle(f) \/ Lose(f)
    <2>1. /\ queue' = queue \ {f}
          /\ UNCHANGED <<clock, evidenceVars, healthVars, requests, held, sweeps>>
        BY <1>2 DEF Settle, Lose
    <2> QED
        BY <2>1, Bookkeeping DEF healthVars, IInv, TypeOK
<1> QED
    BY <1>1, <1>2 DEF RunStep

LEMMA EvaluateKeeps ==
    ASSUME IInv, NEW w \in Workers, NEW f \in Facts, EvaluateRun(w, f)
    PROVE  IInv'
<1> DEFINE m == f.monitor
           d == Decision(f)
<1>1. runs[f].status = "recorded" /\ ~ Conflicts(f)
    BY DEF EvaluateRun, IInv, EventsRecorded
<1>2. /\ m \in Monitors /\ Versioned(health[m], d)
      /\ Kept(health[m], d) \/ Cleared(health[m], d) \/ Requested(m, d, f.trigger)
      /\ Newer(m, d, {f})
    BY <1>1, RunDecides, RunCommits DEF IInv
<1>3. Commit(m, d, f.trigger, {f}) /\ UNCHANGED <<clock, evidenceVars, queue, sweeps>>
    BY DEF EvaluateRun
<1>4. /\ marked' = marked \cup {f} /\ held' = [held EXCEPT ![w] = {}] /\ f \in held[w]
      /\ <<m, f.trigger>> \in Slots
      /\ requests' = [requests EXCEPT ![<<m, f.trigger>>] =
                         IF d.created # "none" THEN "queued" ELSE requests[<<m, f.trigger>>]]
    BY DEF EvaluateRun, Marked, Release, Slots, Facts
<1> HIDE DEF d, m
<1>5. TypeOK'
    <2>1. /\ health' \in [Monitors -> Snapshots]
          /\ candidates' \in [Slots -> CandidateRows]
          /\ transitions' \in [Monitors -> Seq(Transitions)]
        BY <1>2, <1>3, CommitFrame DEF IInv
    <2>2. requests' \in [Slots -> {"none", "queued", "running", "over"}]
        BY <1>4 DEF IInv, TypeOK
    <2>3. held' \in [Workers -> SUBSET Facts]
        BY <1>4 DEF IInv, TypeOK
    <2> QED
        BY <1>3, <1>4, <2>1, <2>2, <2>3 DEF IInv, TypeOK, evidenceVars
<1>6. TransitionsChain'
    BY <1>2, <1>3, CommitChain DEF IInv
<1>7. CausesBehind' /\ CausesInOrder'
    BY <1>2, <1>3, CommitCauses DEF IInv, evidenceVars
<1>8. CandidatesSound' /\ CandidatesEvident'
    BY <1>2, <1>3, CommitCandidates DEF IInv, evidenceVars
<1>9. EventsRecorded'
    BY <1>1, <1>3, <1>4 DEF IInv, EventsRecorded, TypeOK, evidenceVars
<1>10. SweepsPast'
    BY <1>3 DEF IInv, SweepsPast
<1> QED
    BY <1>5, <1>6, <1>7, <1>8, <1>9, <1>10 DEF IInv

LEMMA HandlerKeeps ==
    ASSUME IInv, NEW w \in Workers, NEW f \in Facts, HandlerStep(w, f)
    PROVE  IInv'
<1>1. CASE ReadMarker(w, f)
    <2>1. /\ f \in queue /\ held' = [held EXCEPT ![w] = {f}]
          /\ UNCHANGED <<clock, evidenceVars, queue, healthVars, requests, sweeps>>
        BY <1>1 DEF ReadMarker
    <2>2. /\ held' \in [Workers -> SUBSET Facts]
          /\ \A v \in Workers : \A g \in held'[v] : g \in queue \cup held[v]
        BY <2>1 DEF IInv, TypeOK
    <2> QED
        BY <2>1, <2>2, Bookkeeping DEF healthVars, IInv, TypeOK
<1>2. CASE EvaluateRun(w, f)
    BY <1>2, EvaluateKeeps
<1>3. CASE IgnoreRun(w, f) \/ EvaluationFails(w, f)
    <2>1. /\ f \in held[w] /\ held' = [held EXCEPT ![w] = {}]
          /\ marked' = marked \/ marked' = marked \cup {f}
          /\ UNCHANGED <<clock, evidenceVars, queue, health, candidates, transitions,
                         requests, sweeps>>
        BY <1>3 DEF IgnoreRun, EvaluationFails, Release, Marked, healthVars
    <2>2. /\ held' \in [Workers -> SUBSET Facts]
          /\ \A v \in Workers : \A g \in held'[v] : g \in queue \cup held[v]
        BY <2>1 DEF IInv, TypeOK
    <2> QED
        BY <2>1, <2>2, Bookkeeping DEF IInv, TypeOK
<1> QED
    BY <1>1, <1>2, <1>3 DEF HandlerStep

\* A sweep loses targets.
LEMMA TargetsShrink ==
    ASSUME TypeOK, NEW x \in Sweepers, NEW targets \in SUBSET sweeps[x].targets,
           sweeps' = [sweeps EXCEPT ![x].targets = targets]
    PROVE  /\ sweeps' \in [Sweepers -> [now : Nat,
                                   targets : SUBSET [monitor : Monitors, version : Nat]]]
           /\ \A y \in Sweepers : sweeps'[y].now = sweeps[y].now
<1> DEFINE Targets == SUBSET [monitor : Monitors, version : Nat]
<1>1. sweeps \in [Sweepers -> [now : Nat, targets : Targets]]
    BY DEF TypeOK
<1>2. targets \in Targets
    BY <1>1
<1> HIDE DEF Targets
<1>3. /\ sweeps' \in [Sweepers -> [now : Nat, targets : Targets]]
      /\ \A y \in Sweepers : sweeps'[y].now = sweeps[y].now
    BY <1>1, <1>2
<1> QED
    BY <1>3 DEF Targets

LEMMA MarkStaleKeeps ==
    ASSUME IInv, NEW x \in Sweepers, NEW target \in sweeps[x].targets, MarkHealthStale(x, target)
    PROVE  IInv'
<1> DEFINE m == target.monitor
           d == MarkStale(health[m])
<1>1. /\ m \in Monitors
      /\ sweeps' \in [Sweepers -> [now : Nat,
                                   targets : SUBSET [monitor : Monitors, version : Nat]]]
      /\ \A y \in Sweepers : sweeps'[y].now = sweeps[y].now
    <2>1. m \in Monitors
        BY DEF IInv, TypeOK
    <2>2. sweeps' = [sweeps EXCEPT ![x].targets = sweeps[x].targets \ {target}]
        BY DEF MarkHealthStale, Handled
    <2>3. PICK targets \in SUBSET sweeps[x].targets :
             sweeps' = [sweeps EXCEPT ![x].targets = targets]
        BY <2>2
    <2> QED
        BY <2>1, <2>3, TargetsShrink DEF IInv
<1>2. /\ Commit(m, d, NoTrigger, {})
      /\ UNCHANGED <<clock, evidenceVars, queue, marked, requests, held>>
    BY DEF MarkHealthStale
<1> HIDE DEF m
<1>3. Versioned(health[m], d) /\ Cleared(health[m], d) /\ Newer(m, d, {})
    BY <1>1, SweepCommits
<1> HIDE DEF d
<1>4. TypeOK'
    <2>1. /\ health' \in [Monitors -> Snapshots]
          /\ candidates' \in [Slots -> CandidateRows]
          /\ transitions' \in [Monitors -> Seq(Transitions)]
        <3>1. TypeOK /\ {} \in SUBSET Facts
            BY DEF IInv
        <3> QED
            BY <1>1, <1>2, <1>3, <3>1, CommitFrame
    <2> QED
        BY <1>1, <1>2, <2>1 DEF IInv, TypeOK, evidenceVars
<1>5. TransitionsChain'
    BY <1>1, <1>2, <1>3, CommitChain DEF IInv
<1>6. CausesBehind' /\ CausesInOrder'
    BY <1>1, <1>2, <1>3, CommitCauses DEF IInv, evidenceVars
<1>7. CandidatesSound' /\ CandidatesEvident'
    BY <1>1, <1>2, <1>3, CommitCandidates DEF IInv, evidenceVars
<1>8. EventsRecorded'
    BY <1>2 DEF IInv, EventsRecorded, evidenceVars
<1>9. SweepsPast'
    BY <1>1, <1>2 DEF IInv, SweepsPast
<1> QED
    BY <1>4, <1>5, <1>6, <1>7, <1>8, <1>9 DEF IInv

LEMMA SweepKeeps ==
    ASSUME IInv, NEW x \in Sweepers, SweepStep(x)
    PROVE  IInv'
<1>1. CASE BeginSweep(x)
    <2> DEFINE targets == {[monitor |-> m, version |-> health[m].version] :
                             m \in {m \in Monitors : Listed(m)}}
    <2>1. /\ sweeps' = [sweeps EXCEPT ![x] = [now |-> clock, targets |-> targets]]
          /\ UNCHANGED <<clock, evidenceVars, queue, healthVars, requests, held>>
        BY <1>1 DEF BeginSweep
    <2>2. targets \subseteq [monitor : Monitors, version : Nat]
        BY DEF IInv, TypeOK, Snapshots
    <2> HIDE DEF targets
    <2>3. /\ sweeps' \in [Sweepers -> [now : Nat,
                                   targets : SUBSET [monitor : Monitors, version : Nat]]]
          /\ \A y \in Sweepers : sweeps'[y].now = sweeps[y].now \/ sweeps'[y].now = clock
        BY <2>1, <2>2 DEF IInv, TypeOK
    <2> QED
        BY <2>1, <2>3, Bookkeeping DEF healthVars, IInv, TypeOK
<1>2. CASE (\E target \in sweeps[x].targets : PassOver(x, target)) \/ SweepFails(x)
    <2>1. /\ sweeps' \in [Sweepers -> [now : Nat,
                                   targets : SUBSET [monitor : Monitors, version : Nat]]]
          /\ \A y \in Sweepers : sweeps'[y].now = sweeps[y].now
          /\ UNCHANGED <<clock, evidenceVars, queue, healthVars, requests, held>>
        <3>1. \E targets \in SUBSET sweeps[x].targets :
                 sweeps' = [sweeps EXCEPT ![x].targets = targets]
            <4>1. CASE SweepFails(x)
                BY <4>1 DEF SweepFails
            <4>2. CASE \E target \in sweeps[x].targets : PassOver(x, target)
                <5>1. PICK target \in sweeps[x].targets : PassOver(x, target)
                    BY <4>2
                <5>2. sweeps' = [sweeps EXCEPT ![x].targets = sweeps[x].targets \ {target}]
                    BY <5>1 DEF PassOver, Handled
                <5> QED
                    BY <5>2
            <4> QED
                BY <1>2, <4>1, <4>2
        <3>2. UNCHANGED <<clock, evidenceVars, queue, healthVars, requests, held>>
            BY <1>2 DEF PassOver, SweepFails
        <3> QED
            BY <3>1, <3>2, TargetsShrink DEF IInv
    <2> QED
        BY <2>1, Bookkeeping DEF healthVars, IInv, TypeOK
<1>3. CASE \E target \in sweeps[x].targets : MarkHealthStale(x, target)
    BY <1>3, MarkStaleKeeps
<1> QED
    BY <1>1, <1>2, <1>3 DEF SweepStep, SweepFails

LEMMA AdvanceKeeps ==
    ASSUME IInv, Advance
    PROVE  IInv'
<1>1. /\ clock' = clock + 1 /\ clock \in Nat
      /\ UNCHANGED <<evidenceVars, queue, healthVars, requests, held, sweeps>>
    BY DEF Advance, IInv, TypeOK
<1>2. clock' \in Nat /\ clock <= clock'
    BY <1>1
<1> QED
    BY <1>1, <1>2, Bookkeeping DEF healthVars, IInv, TypeOK

LEMMA StutterKeeps == IInv /\ UNCHANGED vars => IInv'
<1> SUFFICES ASSUME IInv, UNCHANGED vars PROVE IInv'
    OBVIOUS
<1>1. /\ UNCHANGED <<clock, evidenceVars, queue, healthVars, requests, held, sweeps>>
      /\ clock \in Nat
    BY DEF vars, IInv, TypeOK
<1> QED
    BY <1>1, Bookkeeping DEF healthVars, IInv, TypeOK

LEMMA InitIInv == Init => IInv
<1> SUFFICES ASSUME Init PROVE IInv
    OBVIOUS
<1>1. TypeOK
    <2>1. 1 \in Revisions
        BY HealthAssumption DEF Revisions
    <2>2. Initial \in Snapshots
        BY DEF Initial, Snapshots, States, Stable, NoInstant, NoTrigger
    <2>3. NoRun \in RunRows /\ NoCandidate \in CandidateRows /\ NoSweep.now = 0 /\ NoSweep.targets = {}
        BY DEF NoRun, RunRows, Evidence, Determinate, NoCandidate, CandidateRows, NoSweep
    <2>4. NoSweep \in [now : Nat, targets : SUBSET [monitor : Monitors, version : Nat]]
        BY DEF NoSweep
    <2>5. <<>> \in Seq(Transitions)
        BY EmptySeq
    <2> QED
        BY <2>1, <2>2, <2>3, <2>4, <2>5 DEF Init, TypeOK
<1>2. \A m \in Monitors : health[m] = Initial /\ transitions[m] = <<>> /\ ~ HasCandidate(health[m])
    BY DEF Init, HasCandidate, Initial
<1>3. TransitionsChain
    BY <1>2 DEF TransitionsChain, Initial
<1>4. \A m \in Monitors, t \in Triggers : candidates[<<m, t>>].status = "none"
    BY DEF Init, Slots, NoCandidate
<1>5. CandidatesSound /\ CandidatesEvident
    BY <1>2, <1>4, NoTriggerIsNone DEF CandidatesSound, CandidatesEvident, Initial
<1>6. \A m \in Monitors : Causes(m) = {}
    BY <1>2 DEF Causes, CausesOf
<1>7. CausesBehind /\ CausesInOrder
    BY <1>2, <1>6 DEF CausesBehind, CausesInOrder
<1>8. EventsRecorded /\ SweepsPast
    BY DEF Init, EventsRecorded, SweepsPast, NoSweep
<1> QED
    BY <1>1, <1>3, <1>5, <1>7, <1>8 DEF IInv

LEMMA IInvStep == IInv /\ [Next]_vars => IInv'
<1> SUFFICES ASSUME IInv, [Next]_vars PROVE IInv'
    OBVIOUS
<1>1. CASE \E m \in Monitors, kind \in Kinds, due \in Dues : ClaimRun(m, kind, due)
    BY <1>1, ClaimKeeps
<1>2. CASE \E m \in Monitors : EditMonitor(m)
    BY <1>2, EditKeeps
<1>3. CASE \E f \in Facts : RunStep(f)
    BY <1>3, RunKeeps
<1>4. CASE \E w \in Workers, f \in Facts : HandlerStep(w, f)
    BY <1>4, HandlerKeeps
<1>5. CASE \E s \in Slots : ConfirmationStep(s)
    BY <1>5, ConfirmationKeeps
<1>6. CASE \E x \in Sweepers : SweepStep(x)
    BY <1>6, SweepKeeps
<1>7. CASE Advance
    BY <1>7, AdvanceKeeps
<1>8. CASE UNCHANGED vars
    BY <1>8, StutterKeeps
<1> QED
    BY <1>1, <1>2, <1>3, <1>4, <1>5, <1>6, <1>7, <1>8 DEF Next

-----------------------------------------------------------------------------
(* Theorems *)

\* The inductive invariant holds.
THEOREM HealthInvariant == Spec => []IInv
    BY InitIInv, IInvStep, PTL DEF Spec

\* Every variable keeps its type: among others, a snapshot names a candidate or none.
THEOREM HealthTypes == Spec => []TypeOK
<1>1. IInv => TypeOK
    BY DEF IInv
<1> QED
    BY <1>1, HealthInvariant, PTL

\* The transitions that the Incident projection waits for are one chain without a
\* gap, whatever is redelivered, fails or expires meanwhile.
THEOREM HealthTransitionsChain == Spec => []TransitionsChain
<1>1. IInv => TransitionsChain
    BY DEF IInv
<1> QED
    BY <1>1, HealthInvariant, PTL

\* A Monitor is degraded exactly while one candidate of its is pending, the one that
\* its health names.
THEOREM HealthCandidatesSound == Spec => []CandidatesSound
<1>1. IInv => CandidatesSound
    BY DEF IInv
<1> QED
    BY <1>1, HealthInvariant, PTL

\* Evidence of a superseded Revision or of an older cohort rewrites no health.
THEOREM HealthCausesInOrder == Spec => []CausesInOrder
<1>1. IInv => CausesInOrder
    BY DEF IInv
<1> QED
    BY <1>1, HealthInvariant, PTL

\* Only two steps touch health.
LEMMA HealthMovers ==
    ASSUME [Next]_vars
    PROVE  \/ UNCHANGED <<health, candidates, transitions>>
           \/ \E w \in Workers, f \in Facts : EvaluateRun(w, f)
           \/ \E x \in Sweepers : \E target \in sweeps[x].targets : MarkHealthStale(x, target)
<1>1. CASE \E m \in Monitors, kind \in Kinds, due \in Dues : ClaimRun(m, kind, due)
    BY <1>1 DEF ClaimRun, healthVars
<1>2. CASE \E m \in Monitors : EditMonitor(m)
    BY <1>2 DEF EditMonitor, healthVars
<1>3. CASE \E f \in Facts : RunStep(f)
    BY <1>3 DEF RunStep, RecordRun, Settle, Lose, healthVars
<1>4. CASE \E w \in Workers, f \in Facts : HandlerStep(w, f)
    BY <1>4 DEF HandlerStep, ReadMarker, IgnoreRun, EvaluationFails, healthVars
<1>5. CASE \E s \in Slots : ConfirmationStep(s)
    BY <1>5 DEF ConfirmationStep, StartConfirmation, RecordConfirmation,
                InterruptConfirmation, LoseConfirmation, healthVars
<1>6. CASE \E x \in Sweepers : SweepStep(x)
    BY <1>6 DEF SweepStep, BeginSweep, PassOver, SweepFails, healthVars
<1>7. CASE Advance
    BY <1>7 DEF Advance, healthVars
<1>8. CASE UNCHANGED vars
    BY <1>8 DEF vars, healthVars
<1> QED
    BY <1>1, <1>2, <1>3, <1>4, <1>5, <1>6, <1>7, <1>8 DEF Next

\* A committed decision leaves alone every row that is not pending, unless it is the
\* one it creates.
LEMMA CommitLeavesDecided ==
    ASSUME NEW m \in Monitors, NEW d, NEW trigger, NEW cause, Commit(m, d, trigger, cause),
           NEW s \in Slots, candidates[s].status # "pending",
           d.created = "none" \/ s # <<m, trigger>>
    PROVE  candidates'[s] = candidates[s]
    BY DEF Commit, CandidatesAfter

LEMMA DecidedStays ==
    ASSUME IInv, [Next]_vars, NEW s \in Slots, candidates[s].status \notin {"none", "pending"}
    PROVE  candidates'[s] = candidates[s]
<1>1. CASE UNCHANGED <<health, candidates, transitions>>
    BY <1>1
<1>2. CASE \E w \in Workers, f \in Facts : EvaluateRun(w, f)
    <2>1. PICK w \in Workers, f \in Facts : EvaluateRun(w, f)
        BY <1>2
    <2>2. f.monitor \in Monitors /\ Commit(f.monitor, Decision(f), f.trigger, {f})
        BY <2>1 DEF EvaluateRun, Facts
    <2>3. Decision(f).created = "none" \/ candidates[<<f.monitor, f.trigger>>].status = "none"
        BY <2>1 DEF EvaluateRun, Conflicts
    <2> QED
        BY <2>2, <2>3, CommitLeavesDecided
<1>3. CASE \E x \in Sweepers : \E target \in sweeps[x].targets : MarkHealthStale(x, target)
    <2>x. PICK x \in Sweepers : \E target \in sweeps[x].targets : MarkHealthStale(x, target)
        BY <1>3
    <2>1. PICK target \in sweeps[x].targets : MarkHealthStale(x, target)
        BY <2>x
    <2>2. target.monitor \in Monitors
        BY DEF IInv, TypeOK
    <2>3. Commit(target.monitor, MarkStale(health[target.monitor]), NoTrigger, {})
        BY <2>1 DEF MarkHealthStale
    <2>4. MarkStale(health[target.monitor]).created = "none"
        BY DEF MarkStale, Decide
    <2> QED
        BY <2>2, <2>3, <2>4, CommitLeavesDecided
<1> QED
    BY <1>1, <1>2, <1>3, HealthMovers

\* A candidate is decided once, whoever evaluates its Run again.
THEOREM HealthCandidatesDecidedOnce == Spec => CandidatesDecidedOnce
<1>1. IInv /\ [Next]_vars
      => [\A s \in Slots : candidates[s].status \notin {"none", "pending"} =>
             candidates'[s] = candidates[s]]_vars
    BY DecidedStays
<1> QED
    BY <1>1, HealthInvariant, PTL DEF Spec, CandidatesDecidedOnce

\* What the two decisions make of the stable state.
LEMMA StableMoves ==
    ASSUME IInv, [Next]_vars, NEW m \in Monitors, health'[m].stable # health[m].stable
    PROVE  \/ \E w \in Workers, f \in Facts :
                 /\ EvaluateRun(w, f) /\ f.monitor = m
                 /\ health'[m] = Decision(f).snapshot
           \/ \E x \in Sweepers : \E target \in sweeps[x].targets :
                 /\ MarkHealthStale(x, target) /\ target.monitor = m
                 /\ health'[m] = MarkStale(health[m]).snapshot
<1>0. health \in [Monitors -> Snapshots]
    BY DEF IInv, TypeOK
<1>1. CASE UNCHANGED <<health, candidates, transitions>>
    BY <1>1
<1>2. CASE \E w \in Workers, f \in Facts : EvaluateRun(w, f)
    <2>1. PICK w \in Workers, f \in Facts : EvaluateRun(w, f)
        BY <1>2
    <2>2. health' = [health EXCEPT ![f.monitor] = Decision(f).snapshot]
        BY <2>1 DEF EvaluateRun, Commit
    <2>3. f.monitor = m /\ health'[m] = Decision(f).snapshot
        BY <1>0, <2>2
    <2> QED
        BY <2>1, <2>3
<1>3. CASE \E x \in Sweepers : \E target \in sweeps[x].targets : MarkHealthStale(x, target)
    <2>x. PICK x \in Sweepers : \E target \in sweeps[x].targets : MarkHealthStale(x, target)
        BY <1>3
    <2>1. PICK target \in sweeps[x].targets : MarkHealthStale(x, target)
        BY <2>x
    <2>2. health' = [health EXCEPT ![target.monitor] = MarkStale(health[target.monitor]).snapshot]
        BY <2>1 DEF MarkHealthStale, Commit
    <2>3. target.monitor = m /\ health'[m] = MarkStale(health[m]).snapshot
        BY <1>0, <2>2
    <2> QED
        BY <2>1, <2>3
<1> QED
    BY <1>1, <1>2, <1>3, HealthMovers

LEMMA DownNeedsTwo ==
    ASSUME IInv, [Next]_vars, NEW m \in Monitors,
           health[m].stable # "down", health'[m].stable = "down"
    PROVE  \E t \in Triggers :
              /\ t.revision = catalogue[m].latest
              /\ candidates[<<m, t>>].status = "pending"
              /\ runs[Fact(m, "scheduled", t)].evidence = "failing"
              /\ runs[Fact(m, "confirmation", t)].evidence = "failing"
<1>1. CASE \E w \in Workers, f \in Facts :
              EvaluateRun(w, f) /\ f.monitor = m /\ health'[m] = Decision(f).snapshot
    <2>1. PICK w \in Workers, f \in Facts :
              EvaluateRun(w, f) /\ f.monitor = m /\ health'[m] = Decision(f).snapshot
        BY <1>1
    <2> DEFINE d == Decision(f)
    <2>2. \/ Kept(health[m], d)
          \/ /\ f.trigger.revision = catalogue[m].latest
             /\ \/ AgreedWith(health[m], Input(f), d)
                \/ Asked(health[m], Input(f), d)
                \/ Answered(health[m], Input(f), CandidateRow(m), d)
        BY <2>1, RunDecides DEF IInv
    <2>3. d.snapshot.stable = "down"
        BY <2>1
    <2> HIDE DEF d
    <2>4. /\ f.trigger.revision = catalogue[m].latest
          /\ Answered(health[m], Input(f), CandidateRow(m), d)
        BY <2>2, <2>3 DEF Kept, AgreedWith, Asked
    <2>5. /\ f = Fact(m, "confirmation", f.trigger)
          /\ candidates[<<m, f.trigger>>].status = "pending"
          /\ CandidateRow(m) = candidates[<<m, f.trigger>>]
        BY <2>1, <2>4, AnswerIsOfCandidate DEF IInv
    <2>6. runs[f].evidence = "failing" /\ candidates[<<m, f.trigger>>].direction # "recovery"
        BY <2>3, <2>4, <2>5 DEF Answered, Input
    <2>7. f.trigger \in Triggers
        BY DEF Facts
    <2>8. runs[Fact(m, "scheduled", f.trigger)].evidence = "failing"
        BY <2>5, <2>6, <2>7 DEF IInv, CandidatesEvident, Directions, Expected
    <2> QED
        BY <2>4, <2>5, <2>6, <2>7, <2>8
<1>2. CASE \E x \in Sweepers : \E target \in sweeps[x].targets :
              health'[m] = MarkStale(health[m]).snapshot
    <2>1. health[m] \in Snapshots
        BY DEF IInv, TypeOK
    <2>2. health'[m].stable = "unknown"
        BY <1>2, <2>1, MarkStaleDecides DEF Staled
    <2> QED
        BY <2>2
<1> QED
    BY <1>1, <1>2, StableMoves

\* A Monitor goes down only by a failing scheduled Run of its latest Revision and
\* the failing confirmation of the candidate it triggered, while that is pending.
THEOREM HealthDownIsConfirmed == Spec => DownIsConfirmed
<1>1. IInv /\ [Next]_vars
      => [\A m \in Monitors : health[m].stable # "down" /\ health'[m].stable = "down" =>
             \E t \in Triggers :
                /\ t.revision = catalogue[m].latest
                /\ candidates[<<m, t>>].status = "pending"
                /\ runs[Fact(m, "scheduled", t)].evidence = "failing"
                /\ runs[Fact(m, "confirmation", t)].evidence = "failing"]_vars
    BY DownNeedsTwo
<1> QED
    BY <1>1, HealthInvariant, PTL DEF Spec, DownIsConfirmed

LEMMA StaleNeedsAge ==
    ASSUME IInv, [Next]_vars, NEW m \in Monitors,
           health[m].stable # "unknown", health'[m].stable = "unknown"
    PROVE  clock >= Expires(m)
<1>0. health[m] \in Snapshots
    BY DEF IInv, TypeOK
<1>1. CASE \E w \in Workers, f \in Facts :
              EvaluateRun(w, f) /\ f.monitor = m /\ health'[m] = Decision(f).snapshot
    <2>1. PICK w \in Workers, f \in Facts :
              EvaluateRun(w, f) /\ f.monitor = m /\ health'[m] = Decision(f).snapshot
        BY <1>1
    <2>2. LET d == Decision(f) IN
          \/ Kept(health[m], d)
          \/ AgreedWith(health[m], Input(f), d)
          \/ Asked(health[m], Input(f), d)
          \/ Answered(health[m], Input(f), CandidateRow(m), d)
        BY <2>1, RunDecides DEF IInv
    <2> QED
        BY <2>1, <2>2 DEF Kept, AgreedWith, Asked, Answered
<1>2. CASE \E x \in Sweepers : \E target \in sweeps[x].targets :
              MarkHealthStale(x, target) /\ target.monitor = m
    <2>x. PICK x \in Sweepers : \E target \in sweeps[x].targets :
              MarkHealthStale(x, target) /\ target.monitor = m
        BY <1>2
    <2>1. PICK target \in sweeps[x].targets : MarkHealthStale(x, target) /\ target.monitor = m
        BY <2>x
    <2>2. Expires(m) <= sweeps[x].now /\ health[m].proven # NoInstant
        BY <2>1 DEF MarkHealthStale, StillStale
    <2>3. Expires(m) \in Int
        <3>1. health[m].proven \in Int
            BY <1>0 DEF Snapshots, NoInstant
        <3>2. Interval \in Int /\ Ceiling \in Int
            BY HealthAssumption
        <3> QED
            BY <3>1, <3>2 DEF Expires, StaleAfter
    <2>4. sweeps[x].now <= clock /\ sweeps[x].now \in Int /\ clock \in Int
        BY DEF IInv, SweepsPast, TypeOK
    <2> QED
        BY <2>2, <2>3, <2>4
<1> QED
    BY <1>1, <1>2, StableMoves

\* Health goes stale only when its evidence is old at that moment.
THEOREM HealthStaleIsOld == Spec => StaleIsOld
<1>1. IInv /\ [Next]_vars
      => [\A m \in Monitors : health[m].stable # "unknown" /\ health'[m].stable = "unknown" =>
             clock >= Expires(m)]_vars
    BY StaleNeedsAge
<1> QED
    BY <1>1, HealthInvariant, PTL DEF Spec, StaleIsOld

-----------------------------------------------------------------------------
(* One transition per Run, while no event is in the hands of two handlers. *)

Exclusive == \A v, w \in Workers : v # w => held[v] \cap held[w] = {}

\* What has caused a transition is marked, what is marked is in nobody's hands.
MarkedApart ==
    /\ \A m \in Monitors : Causes(m) \subseteq marked
    /\ \A w \in Workers : held[w] \cap marked = {}

OnceOf(log) == \A i, j \in DOMAIN log : i # j => log[i].cause \cap log[j].cause = {}

LEMMA OnceAppend ==
    ASSUME NEW log \in Seq(Transitions), NEW e \in Transitions, OnceOf(log),
           CausesOf(log) \cap e.cause = {}
    PROVE  OnceOf(Append(log, e))
<1> DEFINE more == Append(log, e)
<1>1. /\ DOMAIN log = 1..Len(log) /\ DOMAIN more = 1..(Len(log) + 1) /\ Len(log) \in Nat
      /\ more[Len(log) + 1] = e /\ \A i \in 1..Len(log) : more[i] = log[i]
    BY AppendEntries
<1> HIDE DEF more
<1>2. \A i \in DOMAIN log : log[i].cause \cap e.cause = {}
    BY DEF CausesOf
<1>3. \A i \in DOMAIN more : i # Len(log) + 1 => i \in DOMAIN log /\ more[i] = log[i]
    BY <1>1
<1> QED
    BY <1>1, <1>2, <1>3 DEF OnceOf, more

LEMMA MarkedStaysApart ==
    ASSUME IInv, MarkedApart, Exclusive, [Next]_vars
    PROVE  marked \subseteq marked' /\ \A w \in Workers : held'[w] \cap marked' = {}
<1>0. held \in [Workers -> SUBSET Facts]
    BY DEF IInv, TypeOK
<1>1. CASE UNCHANGED <<marked, held>>
    BY <1>1 DEF MarkedApart
<1>2. CASE \E w \in Workers, f \in Facts : ReadMarker(w, f)
    BY <1>0, <1>2 DEF ReadMarker, MarkedApart, healthVars
<1>3. CASE \E w \in Workers, f \in Facts :
              EvaluateRun(w, f) \/ IgnoreRun(w, f) \/ EvaluationFails(w, f)
    <2>1. PICK w \in Workers, f \in Facts :
              EvaluateRun(w, f) \/ IgnoreRun(w, f) \/ EvaluationFails(w, f)
        BY <1>3
    <2>2. /\ f \in held[w] /\ held' = [held EXCEPT ![w] = {}]
          /\ marked' = marked \/ marked' = marked \cup {f}
        BY <2>1 DEF EvaluateRun, IgnoreRun, EvaluationFails, Release, Marked, healthVars
    <2>3. \A v \in Workers : held'[v] = IF v = w THEN {} ELSE held[v]
        BY <1>0, <2>2
    <2> QED
        BY <2>2, <2>3 DEF MarkedApart, Exclusive
<1>4. \/ UNCHANGED <<marked, held>>
      \/ \E w \in Workers, f \in Facts : HandlerStep(w, f)
    BY DEF Next, ClaimRun, EditMonitor, RunStep, RecordRun, Settle, Lose, ConfirmationStep,
           StartConfirmation, RecordConfirmation, InterruptConfirmation, LoseConfirmation,
           SweepStep, BeginSweep, MarkHealthStale, PassOver, SweepFails, Advance, vars, healthVars
<1> QED
    BY <1>1, <1>2, <1>3, <1>4 DEF HandlerStep

\* A decision whose cause has caused nothing yet.
LEMMA CommitOnce ==
    ASSUME TypeOK, CausedOnce, NEW m \in Monitors, NEW d, Versioned(health[m], d),
           NEW trigger, NEW cause \in SUBSET Facts, Commit(m, d, trigger, cause),
           Causes(m) \cap cause = {}
    PROVE  /\ CausedOnce'
           /\ \A k \in Monitors : CausesOf(transitions'[k]) \subseteq Causes(k) \cup cause
<1> DEFINE e == [from |-> health[m].state, to |-> d.snapshot.state, cause |-> cause]
<1>1. /\ \A k \in Monitors : k # m => transitions'[k] = transitions[k]
      /\ transitions'[m] = Announced(m, d, cause)
      /\ e \in Transitions
    BY CommitFrame
<1>2. transitions[m] \in Seq(Transitions) /\ e.cause = cause
    BY DEF TypeOK
<1> HIDE DEF e
<1>3. \A k \in Monitors : OnceOf(transitions[k])
    BY DEF CausedOnce, OnceOf
<1>4. transitions'[m] = transitions[m] \/ transitions'[m] = Append(transitions[m], e)
    BY <1>1 DEF Announced, e
<1>5. /\ OnceOf(transitions'[m])
      /\ CausesOf(transitions'[m]) \subseteq Causes(m) \cup cause
    BY <1>1, <1>2, <1>3, <1>4, OnceAppend, CausesAppend DEF Causes
<1>6. \A k \in Monitors : OnceOf(transitions'[k])
    BY <1>1, <1>3, <1>5
<1>7. CausedOnce'
    BY <1>6 DEF CausedOnce, OnceOf
<1> QED
    BY <1>1, <1>5, <1>7 DEF Causes

LEMMA OnceStep ==
    IInv /\ MarkedApart /\ CausedOnce /\ Exclusive /\ [Next]_vars => MarkedApart' /\ CausedOnce'
<1> SUFFICES ASSUME IInv, MarkedApart, CausedOnce, Exclusive, [Next]_vars
             PROVE  MarkedApart' /\ CausedOnce'
    OBVIOUS
<1>1. marked \subseteq marked' /\ \A w \in Workers : held'[w] \cap marked' = {}
    BY MarkedStaysApart
<1>2. CASE UNCHANGED <<health, candidates, transitions>>
    BY <1>1, <1>2 DEF MarkedApart, CausedOnce, Causes
<1>3. CASE \E w \in Workers, f \in Facts : EvaluateRun(w, f)
    <2>1. PICK w \in Workers, f \in Facts : EvaluateRun(w, f)
        BY <1>3
    <2>2. /\ f \in held[w] /\ marked' = marked \cup {f}
          /\ Commit(f.monitor, Decision(f), f.trigger, {f})
        BY <2>1 DEF EvaluateRun, Marked
    <2>3. f.monitor \in Monitors /\ Versioned(health[f.monitor], Decision(f))
        BY RunDecides DEF IInv
    <2>4. Causes(f.monitor) \cap {f} = {}
        BY <2>2, <2>3 DEF MarkedApart
    <2>5. /\ CausedOnce'
          /\ \A k \in Monitors : CausesOf(transitions'[k]) \subseteq Causes(k) \cup {f}
        <3>1. TypeOK /\ {f} \in SUBSET Facts
            BY DEF IInv
        <3> QED
            BY <2>2, <2>3, <2>4, <3>1, CommitOnce
    <2> QED
        BY <1>1, <2>2, <2>5 DEF MarkedApart, Causes
<1>4. CASE \E x \in Sweepers : \E target \in sweeps[x].targets : MarkHealthStale(x, target)
    <2>x. PICK x \in Sweepers : \E target \in sweeps[x].targets : MarkHealthStale(x, target)
        BY <1>4
    <2>1. PICK target \in sweeps[x].targets : MarkHealthStale(x, target)
        BY <2>x
    <2> DEFINE m == target.monitor
    <2>2. m \in Monitors /\ Commit(m, MarkStale(health[m]), NoTrigger, {})
        BY <2>1 DEF MarkHealthStale, IInv, TypeOK
    <2> HIDE DEF m
    <2>3. Versioned(health[m], MarkStale(health[m]))
        BY <2>2, SweepCommits
    <2>4. /\ CausedOnce'
          /\ \A k \in Monitors : CausesOf(transitions'[k]) \subseteq Causes(k) \cup {}
        <3>1. TypeOK /\ {} \in SUBSET Facts /\ Causes(m) \cap {} = {}
            BY DEF IInv
        <3> QED
            BY <2>2, <2>3, <3>1, CommitOnce
    <2> QED
        BY <1>1, <2>4 DEF MarkedApart, Causes
<1> QED
    BY <1>2, <1>3, <1>4, HealthMovers

\* A recorded Run causes at most one transition, as long as its event is in the hands
\* of one handler at a time: the marker guards against redelivery, not against two
\* handlers at once (of which CausedOnce has a counterexample).
THEOREM HealthCausedOnce == Spec /\ []Exclusive => []CausedOnce
<1>1. Init => MarkedApart /\ CausedOnce
    BY DEF Init, MarkedApart, Causes, CausesOf, CausedOnce
<1> QED
    BY <1>1, HealthInvariant, OnceStep, PTL DEF Spec
=============================================================================
