-------------------------- MODULE SchedulerHistory --------------------------
(* The scheduler beside a history of the Monitors: which slots fell due     *)
(* while their Monitor was active under their Revision, and which fell due  *)
(* while the edit that made it so had read the clock and not committed.     *)
EXTENDS Scheduler

VARIABLES eligible, overtaken

editVars == <<vars, eligible, overtaken>>

OnSchedule(m, t) == SlotFor(Offset[m], Interval[m], t) = t

DueNow(cat, now) ==
    {SlotAt(m, cat[m].revision, now) :
       m \in {m \in Monitors : cat[m].active /\ OnSchedule(m, now)}}

\* The Monitors an edit leaves active as it commits in this step, and the slots
\* that edit has let pass since it read the clock.
Committed == {m \in Monitors : /\ edits[m] # NoInstant /\ edits'[m] = NoInstant
                               /\ catalogue'[m].active}

Overtaken ==
    UNION {{SlotAt(m, catalogue'[m].revision, t) :
              t \in {t \in edits[m] + 1 .. clock : OnSchedule(m, t)}} : m \in Committed}

EditInit ==
    /\ Init
    /\ eligible = DueNow(catalogue, clock)
    /\ overtaken = {}

Remember ==
    /\ eligible' = eligible \cup DueNow(catalogue', clock')
    /\ overtaken' = overtaken \cup (Overtaken \ eligible)

\* Spec and TimelySpec of the scheduler with that history.
EditSpec == EditInit /\ [][Next /\ Remember]_editVars
TimelyEditSpec == EditInit /\ [][(Step \/ AdvancePromptly) /\ Remember]_editVars

\* schedule.go:29-34, scheduler.go:293-295: a Monitor is not charged with slots
\* it was never eligible for.  Whatever is recorded as skipped fell due while
\* the Monitor was active under that Revision, or between the clock reading and
\* the commit of the edit that activated or revised it: updated_at, the floor of
\* the walk, is the former.
SkipsWereEligible ==
    \A s \in Slots :
       runs[s].status = "skipped" => s \in eligible \cup overtaken
=============================================================================
