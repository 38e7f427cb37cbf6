------------------------------ MODULE Retention ------------------------------
(***************************************************************************)
(* internal/run/retention.go, internal/postgres/partitions.go and          *)
(* serveMaintenance: the monthly partitions of Runs and Observations, and  *)
(* the manual Runs (internal/run/manual.go) that are stored in them.       *)
(* Workers create the months ahead and drop the expired ones, each in a    *)
(* transaction under one advisory lock.                                    *)
(***************************************************************************)
EXTENDS Naturals, FiniteSetsExt

CONSTANTS
    Workers,        \* processes that maintain the partitions
    Requests,       \* requests for a manual Run
    MonthLength,    \* days of a month
    Days,           \* PROBEHIVE_RETENTION_DAYS
    Ahead,          \* partitionLookahead, in months
    LastDay         \* bound on the clock

ASSUME RetentionAssumption ==
    /\ MonthLength \in Nat \ {0}
    /\ Days \in Nat \ {0}
    /\ Ahead \in Nat
    /\ LastDay \in Nat

VARIABLES
    today,
    attached,       \* the months with a partition, of each table
    trigger,        \* what each request does, and the day of its Run
    run,            \* runs: the state of each request's row
    observation,    \* observations: whether each request's row is there
    upkeep,         \* what each worker does, and the instant it read
    covered         \* how many months have been created so far

retentionVars == <<today, attached, trigger, run, observation, upkeep, covered>>

MonthOf(day) == day \div MonthLength
End(month) == (month + 1) * MonthLength
Months == 0..(MonthOf(LastDay) + Ahead)
Tables == {"runs", "observations"}

RetentionTypeOK ==
    /\ today \in 0..LastDay
    /\ attached \in [Tables -> SUBSET Months]
    /\ trigger \in [Requests -> [pc : {"new", "executing", "recording", "releasing",
                                       "recorded", "failed"}, day : 0..LastDay]]
    /\ run \in [Requests -> {"none", "inFlight", "recorded"}]
    /\ observation \in [Requests -> BOOLEAN]
    /\ upkeep \in [Workers -> [pc : {"idle", "ensuring", "dropping", "detaching"},
                               now : 0..LastDay]]
    /\ covered \in 0..(MonthOf(LastDay) + Ahead + 1)

RetentionInit ==
    /\ today = 0
    /\ attached = [t \in Tables |-> {}]
    /\ trigger = [r \in Requests |-> [pc |-> "new", day |-> 0]]
    /\ run = [r \in Requests |-> "none"]
    /\ observation = [r \in Requests |-> FALSE]
    /\ upkeep = [w \in Workers |-> [pc |-> "idle", now |-> 0]]
    /\ covered = 0

-----------------------------------------------------------------------------
(* Locks.  The advisory lock and a detachment exclude; a recording shares.   *)

MaintenanceLocked == \E w \in Workers : upkeep[w].pc = "detaching"
RunsLocked == \E r \in Requests : trigger[r].pc = "recording"

-----------------------------------------------------------------------------
(* Manual Runs *)

Rows(r, state) == run' = [run EXCEPT ![r] = state]
Moves(r, pc) == trigger' = [trigger EXCEPT ![r].pc = pc]
Elsewhere == UNCHANGED <<today, attached, upkeep, covered>>

\* A row goes into the partition of its day; there is no default one.
ClaimManual(r) ==
    /\ trigger[r].pc = "new"
    /\ MonthOf(today) \in attached["runs"]
    /\ trigger' = [trigger EXCEPT ![r] = [pc |-> "executing", day |-> today]]
    /\ Rows(r, "inFlight")
    /\ UNCHANGED observation /\ Elsewhere

\* Unknown, unconfigured, no capacity, no partition, or a store that fails.
RefuseManual(r) ==
    /\ trigger[r].pc = "new"
    /\ Moves(r, "failed")
    /\ UNCHANGED <<run, observation>> /\ Elsewhere

\* Complete's first statement locks the table of Runs and matches the row.
UpdateRun(r) ==
    /\ trigger[r].pc = "executing"
    /\ Moves(r, IF run[r] = "inFlight" THEN "recording" ELSE "releasing")
    /\ UNCHANGED <<run, observation>> /\ Elsewhere

\* The second one waits for whoever has locked the Observations.
RecordManual(r) ==
    /\ trigger[r].pc = "recording"
    /\ ~ MaintenanceLocked
    /\ MonthOf(trigger[r].day) \in attached["observations"]
    /\ Moves(r, "recorded")
    /\ Rows(r, "recorded")
    /\ observation' = [observation EXCEPT ![r] = TRUE]
    /\ Elsewhere

\* The requester goes away, or the recording is rolled back: the store failed, or
\* it broke a deadlock with a detachment.
GiveUp(r) ==
    /\ trigger[r].pc \in {"executing", "recording"}
    /\ Moves(r, "releasing")
    /\ UNCHANGED <<run, observation>> /\ Elsewhere

\* The deferred release deletes a row that is in flight.
ReleaseManual(r) ==
    /\ trigger[r].pc = "releasing"
    /\ Moves(r, "failed")
    /\ Rows(r, IF run[r] = "inFlight" THEN "none" ELSE run[r])
    /\ UNCHANGED observation /\ Elsewhere

\* The process ends, or the release fails: the row stays.
LoseManual(r) ==
    /\ trigger[r].pc \in {"executing", "recording", "releasing"}
    /\ Moves(r, "failed")
    /\ UNCHANGED <<run, observation>> /\ Elsewhere

Manual(r) ==
    \/ ClaimManual(r) \/ RefuseManual(r) \/ UpdateRun(r) \/ RecordManual(r)
    \/ GiveUp(r) \/ ReleaseManual(r) \/ LoseManual(r)

-----------------------------------------------------------------------------
(* Maintenance *)

Upkeep(w, pc) == upkeep' = [upkeep EXCEPT ![w].pc = pc]
Rests(w) == upkeep' = [upkeep EXCEPT ![w] = [pc |-> "idle", now |-> 0]]
RowsStay == UNCHANGED <<today, trigger, run, observation>>

\* The instant is read before either transaction, and may be old when they run.
BeginUpkeep(w) ==
    /\ upkeep[w].pc = "idle"
    /\ upkeep' = [upkeep EXCEPT ![w] = [pc |-> "ensuring", now |-> today]]
    /\ UNCHANGED <<attached, covered>> /\ RowsStay

\* (PlanUpTo leaves the last month out.)
PlanUpTo(now) == {m \in Months : MonthOf(now) <= m /\ m < MonthOf(now) + Ahead}
PartitionPlan(now) == {m \in Months : MonthOf(now) <= m /\ m <= MonthOf(now) + Ahead}

EnsurePartitions(w) ==
    /\ upkeep[w].pc = "ensuring"
    /\ ~ MaintenanceLocked /\ ~ RunsLocked
    /\ attached' = [t \in Tables |-> attached[t] \cup PartitionPlan(upkeep[w].now)]
    /\ covered' = Max({covered, MonthOf(upkeep[w].now) + Ahead + 1})
    /\ Upkeep(w, "dropping")
    /\ RowsStay

\* (ExpiredFromStart drops a month as soon as its first day is old enough.)
ExpiredFromStart(month, now) == month * MonthLength + Days <= now
Expired(month, now) == End(month) + Days <= now

ExpiredMonths(w, t) == {m \in attached[t] : Expired(m, upkeep[w].now)}

\* The Observations are detached first, and stay locked until the end.
DetachObservations(w) ==
    /\ upkeep[w].pc = "dropping"
    /\ ~ MaintenanceLocked
    /\ IF \E t \in Tables : ExpiredMonths(w, t) # {} THEN Upkeep(w, "detaching") ELSE Rests(w)
    /\ UNCHANGED <<attached, covered>> /\ RowsStay

DropExpiredPartitions(w) ==
    LET gone(r, t) == MonthOf(trigger[r].day) \in ExpiredMonths(w, t) IN
    /\ upkeep[w].pc = "detaching"
    /\ ~ RunsLocked
    /\ attached' = [t \in Tables |-> attached[t] \ ExpiredMonths(w, t)]
    /\ run' = [r \in Requests |-> IF gone(r, "runs") THEN "none" ELSE run[r]]
    /\ observation' = [r \in Requests |-> observation[r] /\ ~ gone(r, "observations")]
    /\ Rests(w)
    /\ UNCHANGED <<today, trigger, covered>>

\* A failed transaction ends the upkeep until the next one; so does a restart.
BreakUpkeep(w) ==
    /\ upkeep[w].pc # "idle"
    /\ Rests(w)
    /\ UNCHANGED <<attached, covered>> /\ RowsStay

Maintain(w) ==
    \/ BeginUpkeep(w) \/ EnsurePartitions(w) \/ DetachObservations(w)
    \/ DropExpiredPartitions(w) \/ BreakUpkeep(w)

-----------------------------------------------------------------------------
\* The execution ceiling ends an execution within a day.
NextDay ==
    /\ today < LastDay
    /\ \A r \in Requests :
          trigger[r].pc \in {"executing", "recording", "releasing"} => trigger[r].day = today
    /\ today' = today + 1
    /\ UNCHANGED <<attached, trigger, run, observation, upkeep, covered>>

RetentionNext ==
    \/ \E r \in Requests : Manual(r)
    \/ \E w \in Workers : Maintain(w)
    \/ NextDay

RetentionSpec == RetentionInit /\ [][RetentionNext]_retentionVars

-----------------------------------------------------------------------------
\* The window is a floor, although workers drop partitions at an instant they read
\* long ago and beside each other: what a request was told is recorded stays for
\* Days days, an execution finds the row it has to record, and a Run goes with its
\* Observation, neither before nor after it.
EvidenceKept ==
    \A r \in Requests :
        /\ trigger[r].pc = "recorded" /\ today <= trigger[r].day + Days => run[r] = "recorded"
        /\ trigger[r].pc \in {"executing", "recording"} => run[r] = "inFlight"
        /\ run[r] = "recorded" <=> observation[r]

\* An outage of the maintenance is survived up to the lookahead: until then there
\* is a partition to insert into.
Insertable ==
    \A t \in Tables : MonthOf(today) < covered => MonthOf(today) \in attached[t]
=============================================================================
