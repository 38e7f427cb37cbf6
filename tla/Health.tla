------------------------------- MODULE Health -------------------------------
(***************************************************************************)
(* The evaluator of internal/health/health.go: what one piece of evidence, *)
(* or its absence, makes of a Monitor's health.  A snapshot names its      *)
(* pending candidate by the Run that triggered it; outcomes and failure    *)
(* codes are left out, only the evidence Classify makes of them counts.    *)
(***************************************************************************)
EXTENDS Integers

\* The zero time.Time.
NoInstant == -1

Determinate == {"passing", "failing"}
Evidence    == Determinate \cup {"indeterminate"}

Stable     == {"unknown", "healthy", "down"}
States     == Stable \cup {"degraded"}
Directions == {"failure", "recovery"}

\* No candidate: the trigger no Run can be.
NoTrigger == [revision |-> 0, due |-> NoInstant]

\* last is LastScheduledFor, proven is LastDeterminateFinishedAt.
Initial == [state |-> "unknown", stable |-> "unknown", version |-> 0,
            last |-> NoInstant, proven |-> NoInstant, candidate |-> NoTrigger]

\* A decision: the new snapshot, what became of its candidate, and the
\* direction of the one it created.
Decide(snapshot, completed, created) ==
    [snapshot |-> snapshot, completed |-> completed, created |-> created]

Keep(snapshot) == Decide(snapshot, "none", "none")

\* The version counts changes of state.
\* (VersionPerEvaluation counts evaluations.)
VersionPerEvaluation(s, state) == s.version + 1
NextVersion(s, state) == IF s.state = state THEN s.version ELSE s.version + 1

SetState(s, state, stable) ==
    [s EXCEPT !.state = state, !.stable = stable, !.version = NextVersion(s, state)]

HasCandidate(s) == s.candidate # NoTrigger

-----------------------------------------------------------------------------
\* Scheduled evidence either agrees with the stable state, and settles it, or
\* asks for a confirmation.  A Monitor of unknown health is settled by one pass.
Agrees(stable, evidence) == (stable = "down") = (evidence = "failing")

Settled(evidence) == IF evidence = "failing" THEN "down" ELSE "healthy"

StableOf(s) == IF s.state = "degraded" THEN s.stable ELSE s.state

\* Whatever determinate scheduled evidence says supersedes the candidate.
\* (CandidateSurvives leaves its row pending.)
CandidateSurvives(s) == "none"
Superseded(s) == IF HasCandidate(s) THEN "superseded" ELSE "none"

EvaluateScheduled(s, run) ==
    LET stable == StableOf(s)
        seen   == [s EXCEPT !.candidate = NoTrigger]
        asking == [s EXCEPT !.candidate = run.trigger]
    IN  IF run.evidence \notin Determinate THEN Keep(s)
        ELSE IF Agrees(stable, run.evidence)
        THEN Decide(SetState(seen, Settled(run.evidence), Settled(run.evidence)),
                    Superseded(s), "none")
        ELSE Decide(SetState(asking, "degraded", s.stable), Superseded(s),
                    IF stable = "down" THEN "recovery" ELSE "failure")

Expected(direction) == IF direction = "failure" THEN "failing" ELSE "passing"

EvaluateConfirmation(s, run, direction) ==
    LET seen == [s EXCEPT !.candidate = NoTrigger]
    IN  IF run.evidence \notin Determinate THEN Keep(s)
        ELSE IF run.evidence = Expected(direction)
        THEN Decide(SetState(seen, Settled(run.evidence), Settled(run.evidence)),
                    "confirmed", "none")
        ELSE Decide(SetState(seen, s.stable, s.stable), "contradicted", "none")

\* A late result is of an older cohort than the newest seen; a confirmation
\* counts only for the pending candidate the snapshot names.
\* (AnyConfirmation takes one for whichever candidate is pending.)
Late(s, run) == run.kind = "scheduled" /\ run.trigger.due < s.last

AnyConfirmation(s, run, row) == row.status = "pending"
Confirms(s, run, row) == s.candidate = run.trigger /\ row.status = "pending"

\* Manual Runs and superseded Revisions count for nothing.
\* (LateCounts takes a late result, OldCounts one of an older Revision.)
LateCounts(s, run, latest) == run.kind # "manual" /\ run.trigger.revision = latest
OldCounts(s, run, latest) == run.kind # "manual" /\ ~ Late(s, run)
Counts(s, run, latest) ==
    run.kind # "manual" /\ run.trigger.revision = latest /\ ~ Late(s, run)

\* row is the candidate that s names.
Evaluate(s, run, row, latest) ==
    LET proven  == IF run.evidence \in Determinate THEN run.finished ELSE s.proven
        cohort  == [s EXCEPT !.last = run.trigger.due, !.proven = proven]
        answer  == [s EXCEPT !.proven = proven]
    IN  IF ~ Counts(s, run, latest) THEN Keep(s)
        ELSE IF run.kind = "scheduled" THEN EvaluateScheduled(cohort, run)
        ELSE IF Confirms(s, run, row) THEN EvaluateConfirmation(answer, run, row.direction)
        ELSE Keep(s)

-----------------------------------------------------------------------------
\* StaleAfter: three intervals or two execution ceilings, the longer.
StaleAfter(interval, ceiling) ==
    IF 2 * ceiling > 3 * interval THEN 2 * ceiling ELSE 3 * interval

MarkStale(s) ==
    Decide(SetState([s EXCEPT !.candidate = NoTrigger], "unknown", "unknown"),
           IF HasCandidate(s) THEN "stale" ELSE "none", "none")
=============================================================================
