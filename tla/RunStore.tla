------------------------------ MODULE RunStore ------------------------------
(***************************************************************************)
(* The transactions of internal/postgres/run.go on the runs, observations  *)
(* and outbox_entries tables, for the Runs the unique slot index covers    *)
(* (ux_runs_slot: every kind but manual).  A slot is one Monitor, one      *)
(* Revision and one due instant; the single Probe Location is left out.    *)
(*                                                                         *)
(* UUIDs are fresh numbers: the n-th token minted for a slot stands for    *)
(* the lease holder token and for the Run identifier proposed with it, so  *)
(* an identity is the pair of a slot and a number.                         *)
(***************************************************************************)
EXTENDS Integers, Sequences

CONSTANTS
    Monitors,          \* Monitor identifiers
    MaxRevision,       \* bound on revision numbers
    MaxTime,           \* bound on the clock
    ExecutedOutcomes   \* what a check that executed can report

ASSUME RunStoreAssumption ==
    /\ MaxRevision \in Nat
    /\ MaxTime \in Nat
    /\ ExecutedOutcomes \cap {"absent", "inFlight", "skipped", "open"} = {}

Revisions == 1..MaxRevision
Instants  == 0..MaxTime
Slots     == [monitor : Monitors, revision : Revisions, due : Instants]
Outcomes  == ExecutedOutcomes \cup {"skipped"}

VARIABLES
    runs,           \* the row of each slot
    observations,   \* the Observations written for each slot, in order
    recorded,       \* the run.recorded.v1 entries written for each slot, in order
    minted          \* how many tokens were minted for each slot

storeVars == <<runs, observations, recorded, minted>>

-----------------------------------------------------------------------------
Nobody == 0

\* The status of a row is its outcome column, "inFlight" for NULL; "absent" is
\* a slot with no row.  Only an in-flight row has a holder and an expiry.
Rows == [status  : Outcomes \cup {"absent", "inFlight"},
         id      : Nat,
         holder  : Nat,
         expires : Nat]

AbsentRow == [status |-> "absent", id |-> 0, holder |-> Nobody, expires |-> 0]

FinishedRow(id, outcome) ==
    [status |-> outcome, id |-> id, holder |-> Nobody, expires |-> 0]

Absent(s)   == runs[s].status = "absent"
InFlight(s) == runs[s].status = "inFlight"
Finished(s) == runs[s].status \in Outcomes

StoreTypeOK ==
    /\ runs \in [Slots -> Rows]
    /\ observations \in [Slots -> Seq([id : Nat, by : Nat])]
    /\ recorded \in [Slots -> Seq([id : Nat, outcome : Outcomes])]
    /\ minted \in [Slots -> Nat]

StoreInit ==
    /\ runs = [s \in Slots |-> AbsentRow]
    /\ observations = [s \in Slots |-> <<>>]
    /\ recorded = [s \in Slots |-> <<>>]
    /\ minted = [s \in Slots |-> 0]

-----------------------------------------------------------------------------
\* ON CONFLICT DO UPDATE's guard: an unfinished Run whose lease has expired.
\* (ReclaimableUnexpired drops the expiry.)
ReclaimableUnexpired(s, now) == InFlight(s)
Reclaimable(s, now) == InFlight(s) /\ runs[s].expires <= now

Claimable(s, now) == Absent(s) \/ Reclaimable(s, now)

\* The identifier a claim works under: a reclaim keeps the existing Run's.
ClaimedId(s) == IF Absent(s) THEN minted[s] + 1 ELSE runs[s].id

\* Every claim proposes a token of its own.
NewHolder(s) == minted[s] + 1

\* ClaimSlot: the insert is the claim, a reclaim only moves the lease.
ClaimSlot(s, expires, now) ==
    /\ Claimable(s, now)
    /\ minted' = [minted EXCEPT ![s] = @ + 1]
    /\ runs' = [runs EXCEPT ![s] =
                  [status  |-> "inFlight", id |-> ClaimedId(s),
                   holder  |-> NewHolder(s), expires |-> expires]]
    /\ UNCHANGED <<observations, recorded>>

\* The lease is the authority: the Run, the holder token and a NULL outcome.
\* The expiry is not looked at.  (HoldsRunOnly drops the token.)
HoldsRunOnly(s, id, holder) == InFlight(s) /\ runs[s].id = id
HoldsLease(s, id, holder) ==
    InFlight(s) /\ runs[s].id = id /\ runs[s].holder = holder

\* Complete: outcome, Observation and outbox entry in one transaction.
Complete(s, id, holder, outcome) ==
    /\ HoldsLease(s, id, holder)
    /\ runs' = [runs EXCEPT ![s] = FinishedRow(id, outcome)]
    /\ observations' = [observations EXCEPT ![s] =
                          Append(@, [id |-> id, by |-> holder])]
    /\ recorded' = [recorded EXCEPT ![s] =
                      Append(@, [id |-> id, outcome |-> outcome])]
    /\ UNCHANGED minted

\* ReleaseSlot deletes the row it still holds, outcome still NULL.
\* (ReleaseAnyRow deletes by Run identifier only.)
ReleaseAnyRow(s, id, holder) ==
    /\ runs[s].id = id
    /\ runs' = [runs EXCEPT ![s] = AbsentRow]
    /\ UNCHANGED <<observations, recorded, minted>>

ReleaseSlot(s, id, holder) ==
    /\ HoldsLease(s, id, holder)
    /\ runs' = [runs EXCEPT ![s] = AbsentRow]
    /\ UNCHANGED <<observations, recorded, minted>>

\* RecordSkipped's ON CONFLICT DO NOTHING inserted a row: the slot had none.
SkipInserts(s) == Absent(s)

\* RecordSkipped: a finished row and its outbox entry, with no lease.
RecordSkipped(s) ==
    /\ SkipInserts(s)
    /\ minted' = [minted EXCEPT ![s] = @ + 1]
    /\ runs' = [runs EXCEPT ![s] = FinishedRow(minted[s] + 1, "skipped")]
    /\ recorded' = [recorded EXCEPT ![s] =
                      Append(@, [id |-> minted[s] + 1, outcome |-> "skipped"])]
    /\ UNCHANGED observations

-----------------------------------------------------------------------------
(* Properties *)

\* A recorded Run and its run.recorded.v1 fact are one: whatever workers did
\* with a slot, it has been announced exactly once if it is finished and never
\* if it is not, under the identity and the outcome its row carries.
RecordedOnce ==
    \A s \in Slots :
       IF Finished(s)
       THEN recorded[s] = <<[id |-> runs[s].id, outcome |-> runs[s].status]>>
       ELSE recorded[s] = <<>>

\* The one Observation of an executed slot was made by the last worker to claim
\* it: a worker whose lease was reclaimed leaves no trace of its execution.
ObservedByLastClaimant ==
    \A s \in Slots :
       IF runs[s].status \in ExecutedOutcomes
       THEN observations[s] = <<[id |-> runs[s].id, by |-> minted[s]]>>
       ELSE observations[s] = <<>>

\* An unfinished Run belongs to the last worker that claimed its slot.
HeldByLastClaimant ==
    \A s \in Slots : InFlight(s) => minted[s] > 0 /\ runs[s].holder = minted[s]

\* The store keeps the ledger's promise.
Ledger == INSTANCE RunLedger WITH
    outcome   <- [s \in Slots |-> IF Finished(s) THEN runs[s].status ELSE "open"],
    announced <- [s \in Slots |->
                    [i \in DOMAIN recorded[s] |-> recorded[s][i].outcome]]

LedgerSpec == Ledger!Spec
=============================================================================
