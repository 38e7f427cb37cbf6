--------------------------- MODULE SchedulerProofs ---------------------------
(***************************************************************************)
(* The scheduler, for every number of processes, Monitors and revisions,   *)
(* every interval, lease and limit: its types, what it keeps true of the   *)
(* Run store, the protection a lease gives, that it implements the ledger, *)
(* when a lease outlives the check it protects, and what the misfire walk  *)
(* charges a Monitor with.                                                 *)
(***************************************************************************)
EXTENDS SchedulerHistory, RunStoreProofs

USE DEF Task

\* A task was given an instant that has passed, its walk is not ahead of its
\* slot, and it has a result when it goes to record one.
Sound(t) ==
    /\ t.now <= clock
    /\ t.walk <= t.due
    /\ t.pc = "complete" => t.result \in ExecutedOutcomes

\* A tick began after the model did, and only a tick has Monitors to reach.
TickSound(t) ==
    /\ t.now <= clock
    /\ t.running => t.now >= Start
    /\ t.pending # {} => t.running

\* What a process remembers makes sense.
Times ==
    /\ clock >= Start
    /\ \A p \in Procs : TickSound(tick[p])
    /\ \A p \in Procs, m \in Monitors : Sound(Task(p, m))

\* TypeOK without the store.
ProcessTypeOK ==
    /\ clock \in Instants
    /\ catalogue \in [Monitors -> Listings]
    /\ edits \in [Monitors -> Instants \cup {NoInstant}]
    /\ outages \in Nat
    /\ mode \in [Procs -> {"up", "stopping", "down"}]
    /\ attempted \in [Procs -> [Monitors -> Instants \cup {NoInstant}]]
    /\ tick \in [Procs -> Ticks]
    /\ tasks \in [Procs \X Monitors -> Tasks]

IInv == StoreInv /\ ProcessTypeOK /\ Times /\ TokensAreExclusive

-----------------------------------------------------------------------------
LEMMA ConstantFacts ==
    /\ MaxTime \in Nat /\ MaxRevision \in Nat /\ MaxRevision >= 1
    /\ Start \in Nat /\ Start >= 1 /\ Start <= MaxTime
    /\ Ceiling \in Nat /\ Margin \in Nat /\ MaxLease \in Nat /\ MaxBackfill \in Nat
    /\ \A m \in Monitors : /\ Interval[m] \in Nat \ {0} /\ Offset[m] \in Nat
                           /\ Offset[m] < Interval[m] /\ Interval[m] <= Start
    /\ Lease \in Nat
BY SchedulerAssumption, RunStoreAssumption
   DEF Lease, LeaseDuration, Earlier, Later

LEMMA SlotInRange ==
    ASSUME NEW m \in Monitors, NEW revision \in Revisions, NEW due \in Instants
    PROVE  SlotAt(m, revision, due) \in Slots
BY DEF SlotAt, Slots

LEMMA IdleTaskIsTask == IdleTask \in Tasks
BY ConstantFacts DEF IdleTask, Tasks, Nobody, Revisions, Instants

LEMMA NoTickIsTick == NoTick \in Ticks
BY ConstantFacts DEF NoTick, Ticks, Listings, Revisions, Instants

\* Dividing and multiplying back loses less than the divisor.
LEMMA FloorDivBelow ==
    ASSUME NEW a \in Nat, NEW b \in Nat \ {0}
    PROVE  /\ FloorDiv(a, b) \in Int
           /\ 0 <= FloorDiv(a, b) * b /\ FloorDiv(a, b) * b <= a
<1>1. a \div b \in Nat /\ (a \div b) * b <= a /\ 0 <= (a \div b) * b
  OBVIOUS
<1> QED
  BY <1>1 DEF FloorDiv, Truncated

\* The slot that is current at an instant is not after it.
LEMMA SlotForInRange ==
    ASSUME NEW m \in Monitors, NEW now \in Instants, now >= Start
    PROVE  SlotFor(Offset[m], Interval[m], now) \in Instants
<1> DEFINE a == now - Offset[m]
<1>1. a \in Nat /\ now \in Nat /\ now <= MaxTime
  BY ConstantFacts DEF Instants
<1>2. FloorDiv(a, Interval[m]) * Interval[m] \in 0..a
  BY <1>1, ConstantFacts, FloorDivBelow
<1> QED
  BY <1>1, <1>2, ConstantFacts DEF SlotFor, Instants

-----------------------------------------------------------------------------
\* What each step leaves of the store: the store's own promise, and tokens that
\* are only ever minted.
StoreKept ==
    /\ StoreStep
    /\ \A s \in Slots : minted'[s] \in Nat /\ minted'[s] >= minted[s]

LEMMA StoreKeptUnchanged == ASSUME StoreInv, UNCHANGED storeVars PROVE StoreKept
<1>1. StoreStep
  BY StoreUnchanged
<1>2. minted \in [Slots -> Nat] /\ minted' = minted
  BY DEF StoreInv, StoreTypeOK, storeVars
<1> QED
  BY <1>1, <1>2 DEF StoreKept

LEMMA StoreKeptByClaim ==
    ASSUME StoreInv, NEW s \in Slots, NEW expires \in Nat, NEW now \in Nat,
           ClaimSlot(s, expires, now)
    PROVE  StoreKept
<1>1. StoreStep
  BY ClaimIsStep
<1>2. minted \in [Slots -> Nat] /\ minted' = [minted EXCEPT ![s] = @ + 1]
  BY DEF StoreInv, StoreTypeOK, ClaimSlot
<1> QED
  BY <1>1, <1>2 DEF StoreKept

LEMMA StoreKeptBySkip ==
    ASSUME StoreInv, NEW s \in Slots, RecordSkipped(s)
    PROVE  StoreKept
<1>1. StoreStep
  BY SkipIsStep
<1>2. minted \in [Slots -> Nat] /\ minted' = [minted EXCEPT ![s] = @ + 1]
  BY DEF StoreInv, StoreTypeOK, RecordSkipped
<1> QED
  BY <1>1, <1>2 DEF StoreKept

LEMMA StoreKeptByComplete ==
    ASSUME StoreInv, NEW s \in Slots, NEW id \in Nat, NEW holder \in Nat,
           NEW o \in ExecutedOutcomes, Complete(s, id, holder, o)
    PROVE  StoreKept
<1>1. StoreStep
  BY CompleteIsStep
<1>2. minted \in [Slots -> Nat] /\ minted' = minted
  BY DEF StoreInv, StoreTypeOK, Complete
<1> QED
  BY <1>1, <1>2 DEF StoreKept

LEMMA StoreKeptByRelease ==
    ASSUME StoreInv, NEW s \in Slots, NEW id, NEW holder, ReleaseSlot(s, id, holder)
    PROVE  StoreKept
<1>1. StoreStep
  BY ReleaseIsStep
<1>2. minted \in [Slots -> Nat] /\ minted' = minted
  BY DEF StoreInv, StoreTypeOK, ReleaseSlot
<1> QED
  BY <1>1, <1>2 DEF StoreKept

-----------------------------------------------------------------------------
\* The slots a task works with are slots of the store.
LEMMA TaskSlots ==
    ASSUME ProcessTypeOK, Times, NEW p \in Procs, NEW m \in Monitors
    PROVE  /\ Task(p, m) \in Tasks
           /\ DueSlot(p, m) \in Slots
           /\ Task(p, m).now + Lease \in Nat
           /\ Walking(p, m) => WalkSlot(p, m) \in Slots
<1>1. Task(p, m) \in Tasks
  BY DEF ProcessTypeOK
<1>2. /\ Task(p, m).revision \in Revisions /\ Task(p, m).due \in Instants
      /\ Task(p, m).walk \in Int /\ Task(p, m).after \in Instants
      /\ Task(p, m).now \in Instants
  BY <1>1 DEF Tasks
<1>3. Walking(p, m) => Task(p, m).walk \in Instants
  BY <1>2, ConstantFacts
     DEF Walking, WalkContinues, Times, Sound, NoInstant, Instants
<1> QED
  BY <1>1, <1>2, <1>3, SlotInRange, ConstantFacts DEF DueSlot, WalkSlot, Instants

\* A task that moves on without claiming anything.  What the next lemma asks of
\* the new tasks: typed, in time, and working under a token they had before.
TaskMoved(p, m) ==
    \E t \in Tasks :
       /\ tasks' = [tasks EXCEPT ![<<p, m>>] = t]
       /\ Sound(t)
       /\ t.pc \in {"execute", "complete"} =>
             /\ Working(p, m)
             /\ t.revision = Task(p, m).revision /\ t.due = Task(p, m).due
             /\ t.holder = Task(p, m).holder

LEMMA TaskMovedKeeps ==
    ASSUME IInv, StoreKept, NEW p \in Procs, NEW m \in Monitors, TaskMoved(p, m),
           UNCHANGED clock
    PROVE  /\ tasks' \in [Procs \X Monitors -> Tasks]
           /\ \A q \in Procs, n \in Monitors : Sound(Task(q, n)')
           /\ TokensAreExclusive'
<1>1. PICK t \in Tasks :
         /\ tasks' = [tasks EXCEPT ![<<p, m>>] = t]
         /\ Sound(t)
         /\ t.pc \in {"execute", "complete"} =>
               /\ Working(p, m)
               /\ t.revision = Task(p, m).revision /\ t.due = Task(p, m).due
               /\ t.holder = Task(p, m).holder
  BY DEF TaskMoved
<1>2. tasks \in [Procs \X Monitors -> Tasks]
  BY DEF IInv, ProcessTypeOK
<1>3. tasks' \in [Procs \X Monitors -> Tasks]
  BY <1>1, <1>2
<1>4. \A q \in Procs, n \in Monitors :
         Task(q, n)' = IF q = p /\ n = m THEN t ELSE Task(q, n)
  BY <1>1, <1>2
<1>5. \A q \in Procs, n \in Monitors : Working(q, n)' =>
         /\ Working(q, n)
         /\ DueSlot(q, n)' = DueSlot(q, n)
         /\ Task(q, n)'.holder = Task(q, n).holder
  BY <1>1, <1>4 DEF Working, DueSlot
<1>6. \A q \in Procs, n \in Monitors : Sound(Task(q, n)')
  <2> SUFFICES ASSUME NEW q \in Procs, NEW n \in Monitors
               PROVE  Sound(Task(q, n)')
    OBVIOUS
  <2>1. Sound(Task(q, n))
    BY DEF IInv, Times
  <2>2. Task(q, n)' = t \/ Task(q, n)' = Task(q, n)
    BY <1>4
  <2> HIDE DEF Task
  <2> QED
    BY <1>1, <2>1, <2>2
<1>7. \A q \in Procs, n \in Monitors :
         DueSlot(q, n) \in Slots /\ Task(q, n).holder \in Nat
  BY TaskSlots DEF IInv, Tasks
<1>8. TokensAreExclusive'
  <2> SUFFICES ASSUME NEW q \in Procs, NEW n \in Monitors, Working(q, n)'
               PROVE  /\ Task(q, n)'.holder \in 1..minted'[DueSlot(q, n)']
                      /\ \A r \in Procs \ {q} :
                            Working(r, n)' /\ DueSlot(r, n)' = DueSlot(q, n)'
                               => Task(r, n)'.holder # Task(q, n)'.holder
    BY DEF TokensAreExclusive
  <2>1. Task(q, n).holder \in 1..minted[DueSlot(q, n)]
    BY <1>5 DEF IInv, TokensAreExclusive
  <2>2. Task(q, n)'.holder \in 1..minted'[DueSlot(q, n)']
    <3>1. minted[DueSlot(q, n)] \in Nat
      BY <1>7 DEF IInv, StoreInv, StoreTypeOK
    <3> QED
      BY <2>1, <1>5, <1>7, <3>1 DEF StoreKept
  <2> QED
    BY <1>5, <2>2 DEF IInv, TokensAreExclusive
<1> QED
  BY <1>3, <1>6, <1>8

-----------------------------------------------------------------------------
\* What every step keeps and implements.
Kept == IInv' /\ [Ledger!Next]_Ledger!ledgerVars

memoryVars == <<catalogue, edits, outages, mode, attempted, tick>>

\* A task's step that claims nothing.
LEMMA TaskStepKeeps ==
    ASSUME IInv, StoreKept, NEW p \in Procs, NEW m \in Monitors, TaskMoved(p, m),
           UNCHANGED clock, UNCHANGED memoryVars
    PROVE  Kept
<1>1. /\ tasks' \in [Procs \X Monitors -> Tasks]
      /\ \A q \in Procs, n \in Monitors : Sound(Task(q, n)')
      /\ TokensAreExclusive'
  BY TaskMovedKeeps
<1>2. ProcessTypeOK'
  BY <1>1 DEF IInv, ProcessTypeOK, memoryVars
<1>3. Times'
  BY <1>1 DEF IInv, Times, Sound, TickSound, memoryVars
<1> QED
  BY <1>1, <1>2, <1>3 DEF Kept, IInv, StoreKept, StoreStep

\* A task that goes on to its claim, and one that ends.
LEMMA GoToClaimMoves ==
    ASSUME IInv, NEW p \in Procs, NEW m \in Monitors, GoTo(p, m, "claim")
    PROVE  TaskMoved(p, m)
<1> DEFINE t == [Task(p, m) EXCEPT !.pc = "claim"]
<1>1. tasks' = [tasks EXCEPT ![<<p, m>>] = t]
  BY DEF GoTo
<1>2. Task(p, m) \in Tasks /\ Sound(Task(p, m))
  BY DEF IInv, ProcessTypeOK, Times
<1>3. t \in Tasks /\ t.pc = "claim" /\ Sound(t)
  BY <1>2 DEF Tasks, Sound
<1> HIDE DEF t
<1> QED
  BY <1>1, <1>3 DEF TaskMoved

LEMMA FinishMoves ==
    ASSUME IInv, NEW p \in Procs, NEW m \in Monitors, Finish(p, m)
    PROVE  TaskMoved(p, m)
<1>1. clock \in Nat
  BY DEF IInv, ProcessTypeOK, Instants
<1>2. /\ IdleTask \in Tasks /\ Sound(IdleTask)
      /\ IdleTask.pc \notin {"execute", "complete"}
  BY <1>1, IdleTaskIsTask DEF IdleTask, Sound
<1> QED
  BY <1>2 DEF TaskMoved, Finish

-----------------------------------------------------------------------------
(* The steps of a task *)

LEMMA EndWalkKeeps ==
    ASSUME IInv, NEW p \in Procs, NEW m \in Monitors, EndWalk(p, m)
    PROVE  Kept
BY StoreKeptUnchanged, GoToClaimMoves, TaskStepKeeps
   DEF EndWalk, memoryVars, IInv, storeVars

LEMMA StopAtHeldSlotKeeps ==
    ASSUME IInv, NEW p \in Procs, NEW m \in Monitors, StopAtHeldSlot(p, m)
    PROVE  Kept
BY StoreKeptUnchanged, GoToClaimMoves, TaskStepKeeps
   DEF StopAtHeldSlot, memoryVars, IInv, storeVars

LEMMA RecordMissedKeeps ==
    ASSUME IInv, NEW p \in Procs, NEW m \in Monitors, RecordMissed(p, m)
    PROVE  Kept
<1>1. WalkSlot(p, m) \in Slots
  BY TaskSlots DEF RecordMissed, IInv
<1>2. StoreKept
  BY <1>1, StoreKeptBySkip DEF RecordMissed, IInv
<1>3. TaskMoved(p, m)
  <2> DEFINE t == [Task(p, m) EXCEPT !.walk = @ - Interval[m], !.left = @ - 1]
  <2>1. tasks' = [tasks EXCEPT ![<<p, m>>] = t]
    BY DEF RecordMissed
  <2>2. /\ Task(p, m) \in Tasks /\ Sound(Task(p, m))
        /\ Task(p, m).walk \in Int /\ Task(p, m).left \in Nat /\ Task(p, m).due \in Int
    BY DEF IInv, ProcessTypeOK, Times, Tasks, Instants
  <2>3. Task(p, m).left > 0 /\ Interval[m] \in Nat /\ Task(p, m).pc = "backfill"
    BY ConstantFacts DEF RecordMissed, Walking, WalkContinues
  <2>4. t \in Tasks
    <3>1. Task(p, m).walk - Interval[m] \in Int /\ Task(p, m).left - 1 \in Nat
      BY <2>2, <2>3
    <3> HIDE DEF Task
    <3> QED BY <2>2, <3>1 DEF Tasks
  <2>5. t.pc = "backfill" /\ Sound(t)
    BY <2>2, <2>3 DEF Tasks, Sound
  <2> HIDE DEF t
  <2> QED
    BY <2>1, <2>4, <2>5 DEF TaskMoved
<1> QED
  BY <1>2, <1>3, TaskStepKeeps DEF RecordMissed, memoryVars

LEMMA RecordMissedFailsKeeps ==
    ASSUME IInv, NEW p \in Procs, NEW m \in Monitors, RecordMissedFails(p, m)
    PROVE  Kept
<1>1. WalkSlot(p, m) \in Slots
  BY TaskSlots DEF RecordMissedFails, IInv
<1>2. StoreKept
  BY <1>1, StoreKeptBySkip, StoreKeptUnchanged
     DEF RecordMissedFails, MaybeCommitted, IInv, storeVars
<1> QED
  BY <1>2, GoToClaimMoves, TaskStepKeeps DEF RecordMissedFails, memoryVars

LEMMA ClaimRefusedKeeps ==
    ASSUME IInv, NEW p \in Procs, NEW m \in Monitors, ClaimRefused(p, m)
    PROVE  Kept
BY StoreKeptUnchanged, FinishMoves, TaskStepKeeps
   DEF ClaimRefused, memoryVars, IInv, storeVars

LEMMA ClaimFailsKeeps ==
    ASSUME IInv, NEW p \in Procs, NEW m \in Monitors, ClaimFails(p, m)
    PROVE  Kept
<1>1. DueSlot(p, m) \in Slots /\ Task(p, m).now + Lease \in Nat /\ Task(p, m).now \in Nat
  BY TaskSlots DEF IInv, Tasks, Instants
<1>2. StoreKept
  BY <1>1, StoreKeptByClaim, StoreKeptUnchanged
     DEF ClaimFails, ClaimDue, MaybeCommitted, IInv, storeVars
<1> QED
  BY <1>2, FinishMoves, TaskStepKeeps DEF ClaimFails, memoryVars

LEMMA ExecutionEndsKeeps ==
    ASSUME IInv, NEW p \in Procs, NEW m \in Monitors, ExecutionEnds(p, m)
    PROVE  Kept
<1>1. PICK o \in ExecutedOutcomes :
         tasks' = [tasks EXCEPT ![<<p, m>>].pc = "complete", ![<<p, m>>].result = o]
  BY DEF ExecutionEnds
<1>2. TaskMoved(p, m)
  <2> DEFINE t == [Task(p, m) EXCEPT !.pc = "complete", !.result = o]
  <2>1. tasks' = [tasks EXCEPT ![<<p, m>>] = t]
    BY <1>1
  <2>2. /\ Task(p, m) \in Tasks /\ Sound(Task(p, m)) /\ Working(p, m)
    BY DEF IInv, ProcessTypeOK, Times, ExecutionEnds, Working
  <2>3. t \in Tasks
    BY <2>2 DEF Tasks
  <2>4. /\ Sound(t) /\ t.revision = Task(p, m).revision /\ t.due = Task(p, m).due
        /\ t.holder = Task(p, m).holder
    BY <2>2 DEF Tasks, Sound
  <2> HIDE DEF t
  <2> QED
    BY <2>1, <2>2, <2>3, <2>4 DEF TaskMoved
<1> QED
  BY <1>2, StoreKeptUnchanged, TaskStepKeeps
     DEF ExecutionEnds, memoryVars, IInv, storeVars

LEMMA ReleaseAtShutdownKeeps ==
    ASSUME IInv, NEW p \in Procs, NEW m \in Monitors, ReleaseAtShutdown(p, m)
    PROVE  Kept
<1>1. DueSlot(p, m) \in Slots
  BY TaskSlots DEF IInv
<1>2. StoreKept
  BY <1>1, StoreKeptByRelease, StoreKeptUnchanged DEF ReleaseAtShutdown, IInv, storeVars
<1> QED
  BY <1>2, FinishMoves, TaskStepKeeps DEF ReleaseAtShutdown, memoryVars

LEMMA ResultRecordedKeeps ==
    ASSUME IInv, NEW p \in Procs, NEW m \in Monitors, ResultRecorded(p, m)
    PROVE  Kept
<1>1. /\ DueSlot(p, m) \in Slots /\ Task(p, m).id \in Nat /\ Task(p, m).holder \in Nat
      /\ Task(p, m).result \in ExecutedOutcomes
  BY TaskSlots DEF IInv, Tasks, Times, Sound, ResultRecorded
<1>2. StoreKept
  BY <1>1, StoreKeptByComplete DEF ResultRecorded, CompleteDue, IInv
<1> QED
  BY <1>2, FinishMoves, TaskStepKeeps DEF ResultRecorded, memoryVars

LEMMA ResultDiscardedKeeps ==
    ASSUME IInv, NEW p \in Procs, NEW m \in Monitors, ResultDiscarded(p, m)
    PROVE  Kept
BY StoreKeptUnchanged, FinishMoves, TaskStepKeeps
   DEF ResultDiscarded, memoryVars, IInv, storeVars

LEMMA ResultFailsKeeps ==
    ASSUME IInv, NEW p \in Procs, NEW m \in Monitors, ResultFails(p, m)
    PROVE  Kept
<1>1. /\ DueSlot(p, m) \in Slots /\ Task(p, m).id \in Nat /\ Task(p, m).holder \in Nat
      /\ Task(p, m).result \in ExecutedOutcomes
  BY TaskSlots DEF IInv, Tasks, Times, Sound, ResultFails
<1>2. StoreKept
  BY <1>1, StoreKeptByComplete, StoreKeptUnchanged
     DEF ResultFails, CompleteDue, MaybeCommitted, IInv, storeVars
<1> QED
  BY <1>2, FinishMoves, TaskStepKeeps DEF ResultFails, memoryVars

\* The one step that takes a token: the number it mints is larger than any
\* token minted for the slot before.
LEMMA ClaimGrantedKeeps ==
    ASSUME IInv, NEW p \in Procs, NEW m \in Monitors, ClaimGranted(p, m)
    PROVE  Kept
<1> USE DEF NewHolder
<1> DEFINE s == DueSlot(p, m)
           t == [Task(p, m) EXCEPT !.pc = "execute", !.id = ClaimedId(s),
                                   !.holder = minted[s] + 1,
                                   !.deadline = clock + Ceiling]
<1>1. /\ s \in Slots /\ Task(p, m).now + Lease \in Nat /\ Task(p, m).now \in Nat
      /\ Task(p, m) \in Tasks /\ Sound(Task(p, m))
  BY TaskSlots DEF IInv, Tasks, Instants, Times
<1>2. ClaimSlot(s, Task(p, m).now + Lease, Task(p, m).now)
  BY DEF ClaimGranted, ClaimDue
<1>3. StoreKept
  BY <1>1, <1>2, StoreKeptByClaim DEF IInv
<1>4. minted[s] \in Nat /\ minted'[s] = minted[s] + 1 /\ ClaimedId(s) \in Nat
  BY <1>1, <1>2 DEF IInv, StoreInv, StoreTypeOK, ClaimSlot, ClaimedId, Rows
<1>5. tasks' = [tasks EXCEPT ![<<p, m>>] = t]
  BY DEF ClaimGranted
<1>6. t \in Tasks /\ Sound(t)
  <2>1. clock + Ceiling \in Nat /\ minted[s] + 1 \in Nat
    BY <1>4, ConstantFacts DEF IInv, ProcessTypeOK, Instants
  <2> HIDE DEF s, Task
  <2> QED
    BY <1>1, <1>4, <2>1 DEF Tasks, Sound
<1>7. /\ t.pc = "execute" /\ t.holder = minted[s] + 1
      /\ t.revision = Task(p, m).revision /\ t.due = Task(p, m).due
  BY <1>1 DEF Tasks
<1> HIDE DEF t
<1>8. tasks \in [Procs \X Monitors -> Tasks]
  BY DEF IInv, ProcessTypeOK
<1>9. \A q \in Procs, n \in Monitors :
         Task(q, n)' = IF q = p /\ n = m THEN t ELSE Task(q, n)
  BY <1>5, <1>8
<1>10. Task(p, m)' = t /\ DueSlot(p, m)' = s /\ Working(p, m)'
  BY <1>7, <1>9 DEF DueSlot, Working
<1>11. \A q \in Procs, n \in Monitors : (q # p \/ n # m) =>
          /\ Task(q, n)' = Task(q, n)
          /\ DueSlot(q, n)' = DueSlot(q, n) /\ (Working(q, n)' <=> Working(q, n))
  BY <1>9 DEF DueSlot, Working
<1>12. \A q \in Procs, n \in Monitors :
          DueSlot(q, n) \in Slots /\ Task(q, n).holder \in Nat
  BY TaskSlots DEF IInv, Tasks
<1>13. \A q \in Procs, n \in Monitors : Working(q, n) =>
          Task(q, n).holder \in 1..minted[DueSlot(q, n)]
  BY DEF IInv, TokensAreExclusive
<1>14. \A q \in Procs, n \in Monitors : Working(q, n)' =>
          Task(q, n)'.holder \in 1..minted'[DueSlot(q, n)']
  <2> SUFFICES ASSUME NEW q \in Procs, NEW n \in Monitors, Working(q, n)'
               PROVE  Task(q, n)'.holder \in 1..minted'[DueSlot(q, n)']
    OBVIOUS
  <2>1. CASE q = p /\ n = m
    BY <2>1, <1>4, <1>7, <1>10
  <2>2. CASE q # p \/ n # m
    <3>1. minted[DueSlot(q, n)] \in Nat
      BY <1>12 DEF IInv, StoreInv, StoreTypeOK
    <3> QED
      BY <2>2, <1>11, <1>12, <1>13, <1>3, <3>1 DEF StoreKept
  <2> QED
    BY <2>1, <2>2
<1>15. TokensAreExclusive'
  <2> SUFFICES ASSUME NEW n \in Monitors, NEW q \in Procs, NEW r \in Procs \ {q},
                      Working(q, n)', Working(r, n)', DueSlot(r, n)' = DueSlot(q, n)'
               PROVE  Task(r, n)'.holder # Task(q, n)'.holder
    BY <1>14 DEF TokensAreExclusive
  <2>1. CASE q = p /\ n = m
    <3>1. DueSlot(r, n) = s /\ Working(r, n) /\ Task(r, n)' = Task(r, n)
      BY <2>1, <1>10, <1>11
    <3> QED
      BY <2>1, <3>1, <1>4, <1>7, <1>10, <1>13
  <2>2. CASE r = p /\ n = m
    <3>1. DueSlot(q, n) = s /\ Working(q, n) /\ Task(q, n)' = Task(q, n)
      BY <2>2, <1>10, <1>11
    <3> QED
      BY <2>2, <3>1, <1>4, <1>7, <1>10, <1>13
  <2>3. CASE (q # p \/ n # m) /\ (r # p \/ n # m)
    BY <2>3, <1>11 DEF IInv, TokensAreExclusive
  <2> QED
    BY <2>1, <2>2, <2>3
<1>16. ProcessTypeOK'
  <2>1. tasks' \in [Procs \X Monitors -> Tasks]
    BY <1>5, <1>6, <1>8
  <2> QED
    BY <2>1 DEF IInv, ProcessTypeOK, ClaimGranted
<1>17. Times'
  <2>1. UNCHANGED clock /\ UNCHANGED memoryVars
    BY DEF ClaimGranted, memoryVars
  <2>2. \A q \in Procs, n \in Monitors : Sound(Task(q, n)')
    <3>1. \A q \in Procs, n \in Monitors : Sound(Task(q, n))
      BY DEF IInv, Times
    <3> HIDE DEF Task
    <3> QED BY <1>6, <1>9, <3>1
  <2> QED
    BY <2>1, <2>2 DEF IInv, Times, Sound, TickSound, memoryVars
<1> QED
  BY <1>3, <1>15, <1>16, <1>17 DEF Kept, IInv, StoreKept, StoreStep

-----------------------------------------------------------------------------
(* The steps of a tick *)

\* Replacing the tick of a process, with or without starting a task.
LEMMA TickMovedKeeps ==
    ASSUME IInv, UNCHANGED storeVars,
           UNCHANGED <<clock, catalogue, edits, outages, mode>>,
           NEW p \in Procs, NEW t \in Ticks, TickSound(t),
           tick' = [tick EXCEPT ![p] = t],
           attempted' \in [Procs -> [Monitors -> Instants \cup {NoInstant}]],
           UNCHANGED tasks \/ \E m \in Monitors : TaskMoved(p, m)
    PROVE  Kept
<1>1. StoreKept
  BY StoreKeptUnchanged DEF IInv
<1>2. /\ tasks' \in [Procs \X Monitors -> Tasks]
      /\ \A q \in Procs, n \in Monitors : Sound(Task(q, n)')
      /\ TokensAreExclusive'
  <2>1. CASE UNCHANGED tasks
    BY <2>1 DEF IInv, ProcessTypeOK, Times, TokensAreExclusive, Working, DueSlot,
                storeVars
  <2>2. CASE \E m \in Monitors : TaskMoved(p, m)
    BY <1>1, <2>2, TaskMovedKeeps
  <2> QED
    BY <2>1, <2>2
<1>3. tick' \in [Procs -> Ticks] /\ \A q \in Procs : TickSound(tick'[q])
  <2>1. tick \in [Procs -> Ticks] /\ \A q \in Procs : TickSound(tick[q])
    BY DEF IInv, ProcessTypeOK, Times
  <2> QED
    BY <2>1
<1>4. ProcessTypeOK'
  BY <1>2, <1>3 DEF IInv, ProcessTypeOK
<1>5. Times'
  BY <1>2, <1>3 DEF IInv, Times, Sound, TickSound
<1> QED
  BY <1>1, <1>2, <1>4, <1>5 DEF Kept, IInv, StoreKept, StoreStep

\* A tick goes on with fewer Monitors to reach.
LEMMA FewerPending ==
    ASSUME IInv, NEW p \in Procs, NEW fewer, fewer \subseteq tick[p].pending
    PROVE  LET t == [tick[p] EXCEPT !.pending = fewer]
           IN  t \in Ticks /\ TickSound(t)
<1>1. tick[p] \in Ticks /\ TickSound(tick[p])
  BY DEF IInv, ProcessTypeOK, Times
<1> QED
  BY <1>1 DEF Ticks, TickSound

LEMMA BeginTickKeeps ==
    ASSUME IInv, NEW p \in Procs, BeginTick(p)
    PROVE  Kept
<1> DEFINE t == [running |-> TRUE, now |-> clock, listed |-> catalogue,
                 pending |-> {m \in Monitors : catalogue[m].active}]
<1>1. t \in Ticks /\ TickSound(t)
  BY DEF IInv, ProcessTypeOK, Times, Ticks, TickSound, Instants
<1>2. tick' = [tick EXCEPT ![p] = t]
  BY DEF BeginTick
<1>3. attempted' \in [Procs -> [Monitors -> Instants \cup {NoInstant}]]
  BY DEF BeginTick, IInv, ProcessTypeOK
<1> HIDE DEF t
<1> QED
  BY <1>1, <1>2, <1>3, TickMovedKeeps DEF BeginTick

LEMMA PassOverKeeps ==
    ASSUME IInv, NEW p \in Procs, NEW m \in Monitors, PassOver(p, m)
    PROVE  Kept
<1> DEFINE t == [tick[p] EXCEPT !.pending = tick[p].pending \ {m}]
<1>1. t \in Ticks /\ TickSound(t)
  BY FewerPending
<1>2. tick' = [tick EXCEPT ![p] = t]
  BY DEF PassOver
<1>3. attempted' \in [Procs -> [Monitors -> Instants \cup {NoInstant}]]
  BY DEF PassOver, IInv, ProcessTypeOK
<1> HIDE DEF t
<1> QED
  BY <1>1, <1>2, <1>3, TickMovedKeeps DEF PassOver

LEMMA AbandonLoopKeeps ==
    ASSUME IInv, NEW p \in Procs, AbandonLoop(p)
    PROVE  Kept
<1> DEFINE t == [tick[p] EXCEPT !.pending = {}]
<1>1. t \in Ticks /\ TickSound(t)
  BY FewerPending
<1>2. tick' = [tick EXCEPT ![p] = t]
  BY DEF AbandonLoop
<1>3. attempted' \in [Procs -> [Monitors -> Instants \cup {NoInstant}]]
  BY DEF AbandonLoop, IInv, ProcessTypeOK
<1> HIDE DEF t
<1> QED
  BY <1>1, <1>2, <1>3, TickMovedKeeps DEF AbandonLoop

LEMMA NoTickIsSound == ASSUME IInv PROVE TickSound(NoTick)
<1>1. clock >= 0
  BY DEF IInv, ProcessTypeOK, Instants
<1> QED
  BY <1>1 DEF TickSound, NoTick

LEMMA EndTickKeeps ==
    ASSUME IInv, NEW p \in Procs, EndTick(p)
    PROVE  Kept
<1>1. attempted' \in [Procs -> [Monitors -> Instants \cup {NoInstant}]]
  BY DEF EndTick, IInv, ProcessTypeOK
<1> QED
  BY <1>1, NoTickIsTick, NoTickIsSound, TickMovedKeeps DEF EndTick

\* The new task's slot and walk are instants the store has rows for.
LEMMA StartTaskKeeps ==
    ASSUME IInv, NEW p \in Procs, NEW m \in Monitors, StartTask(p, m)
    PROVE  Kept
<1> DEFINE t == [tick[p] EXCEPT !.pending = tick[p].pending \ {m}]
<1>1. t \in Ticks /\ TickSound(t)
  BY FewerPending
<1>2. tick' = [tick EXCEPT ![p] = t]
  BY DEF StartTask
<1>3. /\ tick[p] \in Ticks /\ TickSound(tick[p]) /\ tick[p].running
      /\ tick[p].now \in Instants /\ tick[p].now <= clock /\ tick[p].now >= Start
      /\ tick[p].listed[m] \in Listings
  BY DEF StartTask, IInv, ProcessTypeOK, Times, TickSound, Ticks
<1>4. PlannedSlot(p, m) \in Instants
  BY <1>3, SlotForInRange DEF PlannedSlot
<1>5. attempted' \in [Procs -> [Monitors -> Instants \cup {NoInstant}]]
  BY <1>4 DEF StartTask, IInv, ProcessTypeOK
<1>6. NewTask(p, m) \in Tasks /\ Sound(NewTask(p, m)) /\ NewTask(p, m).pc = "backfill"
  <2>1. WalkStart(p, m) \in Int /\ WalkStart(p, m) <= PlannedSlot(p, m)
    BY <1>4, ConstantFacts DEF WalkStart, Instants
  <2>2. attempted[p][m] \in Instants \cup {NoInstant}
    BY DEF IInv, ProcessTypeOK
  <2>3. /\ tick[p].listed[m].revision \in Revisions
        /\ tick[p].listed[m].notBefore \in Instants
    BY <1>3 DEF Listings
  <2>4. WalkEnd(p, m) \in Instants
    BY <2>2, <2>3, ConstantFacts DEF WalkEnd, Later, Instants, NoInstant
  <2> HIDE DEF t
  <2>5. /\ NewTask(p, m) \in Tasks /\ NewTask(p, m).pc = "backfill"
        /\ NewTask(p, m).now = tick[p].now
        /\ NewTask(p, m).walk = WalkStart(p, m) /\ NewTask(p, m).due = PlannedSlot(p, m)
    BY <1>3, <1>4, <2>1, <2>3, <2>4, IdleTaskIsTask, ConstantFacts DEF NewTask, Tasks
  <2> QED
    BY <1>3, <2>1, <2>5 DEF Sound
<1>7. TaskMoved(p, m)
  BY <1>6 DEF TaskMoved, StartTask
<1> HIDE DEF t
<1> QED
  BY <1>1, <1>2, <1>5, <1>7, TickMovedKeeps DEF StartTask

-----------------------------------------------------------------------------
(* The steps of the processes, the Monitors and the clock *)

\* A process that loses its memory leaves the tokens of the others alone.
LEMMA ForgetKeeps ==
    ASSUME IInv, UNCHANGED storeVars, UNCHANGED <<clock, catalogue, edits>>,
           NEW p \in Procs, Forget(p), outages' \in Nat,
           mode' \in [Procs -> {"up", "stopping", "down"}]
    PROVE  Kept
<1>1. StoreKept
  BY StoreKeptUnchanged DEF IInv
<1>2. \A q \in Procs, n \in Monitors :
         Task(q, n)' = IF q = p THEN IdleTask ELSE Task(q, n)
  BY DEF Forget
<1>3. tasks' \in [Procs \X Monitors -> Tasks]
  BY IdleTaskIsTask DEF Forget, IInv, ProcessTypeOK
<1>4. \A q \in Procs, n \in Monitors : Sound(Task(q, n)')
  <2>1. \A q \in Procs, n \in Monitors : Sound(Task(q, n))
    BY DEF IInv, Times
  <2>2. Sound(IdleTask)
    <3>1. 0 <= clock
      BY DEF IInv, ProcessTypeOK, Instants
    <3> QED
      BY <3>1 DEF Sound, IdleTask
  <2> HIDE DEF Task
  <2> QED
    BY <1>2, <2>1, <2>2
<1>5. tick' \in [Procs -> Ticks] /\ \A q \in Procs : TickSound(tick'[q])
  <2>1. tick \in [Procs -> Ticks] /\ \A q \in Procs : TickSound(tick[q])
    BY DEF IInv, ProcessTypeOK, Times
  <2> QED
    BY <2>1, NoTickIsTick, NoTickIsSound DEF Forget
<1>6. attempted' \in [Procs -> [Monitors -> Instants \cup {NoInstant}]]
  BY DEF Forget, NothingAttempted, IInv, ProcessTypeOK
<1>7. ProcessTypeOK'
  BY <1>3, <1>5, <1>6 DEF IInv, ProcessTypeOK
<1>8. Times'
  BY <1>4, <1>5 DEF IInv, Times, Sound, TickSound
<1>9. TokensAreExclusive'
  <2>1. \A q \in Procs, n \in Monitors : Working(q, n)' =>
           /\ q # p /\ Working(q, n)
           /\ DueSlot(q, n)' = DueSlot(q, n) /\ Task(q, n)' = Task(q, n)
    BY <1>2 DEF Working, DueSlot, IdleTask
  <2>2. minted' = minted
    BY DEF storeVars
  <2> SUFFICES ASSUME NEW q \in Procs, NEW n \in Monitors, Working(q, n)'
               PROVE  /\ Task(q, n)'.holder \in 1..minted'[DueSlot(q, n)']
                      /\ \A r \in Procs \ {q} :
                            Working(r, n)' /\ DueSlot(r, n)' = DueSlot(q, n)'
                               => Task(r, n)'.holder # Task(q, n)'.holder
    BY DEF TokensAreExclusive
  <2> HIDE DEF Task
  <2> QED
    BY <2>1, <2>2 DEF IInv, TokensAreExclusive
<1> QED
  BY <1>1, <1>7, <1>8, <1>9 DEF Kept, IInv, StoreKept, StoreStep

LEMMA ProcessStepKeeps ==
    ASSUME IInv, NEW p \in Procs, ProcessStep(p)
    PROVE  Kept
<1>1. outages \in Nat /\ mode \in [Procs -> {"up", "stopping", "down"}]
  BY DEF IInv, ProcessTypeOK
<1>2. CASE Crash(p)
  BY <1>1, <1>2, ForgetKeeps DEF Crash
<1>3. CASE Exit(p)
  BY <1>1, <1>3, ForgetKeeps DEF Exit
<1>4. ASSUME Shutdown(p) \/ Restart(p) PROVE Kept
  <2>1. UNCHANGED <<storeVars, clock, catalogue, edits, attempted, tick, tasks>>
    BY <1>4 DEF Shutdown, Restart
  <2>2. StoreKept
    BY <2>1, StoreKeptUnchanged DEF IInv
  <2>3. ProcessTypeOK'
    BY <1>1, <1>4, <2>1 DEF IInv, ProcessTypeOK, Shutdown, Restart
  <2>4. Times' /\ TokensAreExclusive'
    BY <2>1 DEF IInv, Times, Sound, TickSound, TokensAreExclusive, Working, DueSlot,
                storeVars
  <2> QED
    BY <2>2, <2>3, <2>4 DEF Kept, IInv, StoreKept, StoreStep
<1> QED
  BY <1>2, <1>3, <1>4 DEF ProcessStep

LEMMA EditMonitorKeeps ==
    ASSUME IInv, NEW m \in Monitors, EditMonitor(m)
    PROVE  Kept
<1>1. UNCHANGED <<storeVars, clock, processVars>>
  BY DEF EditMonitor, BeginEdit, CommitEdit
<1>2. StoreKept
  BY <1>1, StoreKeptUnchanged DEF IInv
<1>3. /\ catalogue \in [Monitors -> Listings] /\ catalogue[m] \in Listings
      /\ edits \in [Monitors -> Instants \cup {NoInstant}] /\ clock \in Instants
  BY DEF IInv, ProcessTypeOK
<1>4. edits' \in [Monitors -> Instants \cup {NoInstant}]
  BY <1>3 DEF EditMonitor, BeginEdit, CommitEdit
<1>5. catalogue' \in [Monitors -> Listings]
  <2>1. CASE BeginEdit(m)
    BY <1>3, <2>1 DEF BeginEdit
  <2>2. CASE CommitEdit(m)
    <3>1. edits[m] \in Instants
      BY <1>3, <2>2 DEF CommitEdit
    <3>2. CASE Rename(m)
      BY <1>3, <3>1, <3>2 DEF Rename, Listings
    <3>3. CASE CreateRevision(m)
      <4>1. catalogue[m].revision + 1 \in Revisions
        BY <1>3, <3>3, ConstantFacts DEF CreateRevision, Listings, Revisions
      <4> QED
        BY <1>3, <3>1, <3>3, <4>1 DEF CreateRevision, Listings
    <3>4. CASE ChangeState(m)
      BY <1>3, <3>1, <3>4 DEF ChangeState, Listings
    <3> QED
      BY <2>2, <3>2, <3>3, <3>4 DEF CommitEdit
  <2> QED
    BY <2>1, <2>2 DEF EditMonitor
<1>6. ProcessTypeOK'
  BY <1>1, <1>4, <1>5 DEF IInv, ProcessTypeOK, processVars
<1>7. Times' /\ TokensAreExclusive'
  BY <1>1 DEF IInv, Times, Sound, TickSound, TokensAreExclusive, Working, DueSlot,
              storeVars, processVars
<1> QED
  BY <1>2, <1>6, <1>7 DEF Kept, IInv, StoreKept, StoreStep

LEMMA AdvanceKeeps == ASSUME IInv, Advance PROVE Kept
<1>1. UNCHANGED <<storeVars, catalogue, edits, processVars>> /\ clock' = clock + 1
  BY DEF Advance
<1>2. StoreKept
  BY <1>1, StoreKeptUnchanged DEF IInv
<1>3. clock \in Nat /\ clock' \in Instants
  BY ConstantFacts DEF IInv, ProcessTypeOK, Advance, Instants
<1>4. ProcessTypeOK'
  BY <1>1, <1>3 DEF IInv, ProcessTypeOK, processVars
<1>5. Times'
  <2>1. \A p \in Procs, m \in Monitors : Task(p, m).now \in Int
    BY DEF IInv, ProcessTypeOK, Tasks, Instants
  <2>2. \A p \in Procs : tick[p].now \in Int
    BY DEF IInv, ProcessTypeOK, Ticks, Instants
  <2>3. \A p \in Procs, m \in Monitors : Sound(Task(p, m))
    BY DEF IInv, Times
  <2>4. \A p \in Procs : TickSound(tick[p])
    BY DEF IInv, Times
  <2>5. UNCHANGED <<tick, tasks>> /\ clock >= Start /\ Start \in Nat
    BY <1>1, ConstantFacts DEF processVars, IInv, Times
  <2>6. \A p \in Procs, m \in Monitors : Sound(Task(p, m))'
    <3> SUFFICES ASSUME NEW p \in Procs, NEW m \in Monitors PROVE Sound(Task(p, m))'
      OBVIOUS
    <3>1. Task(p, m)' = Task(p, m) /\ Sound(Task(p, m)) /\ Task(p, m).now \in Int
      BY <2>1, <2>3, <2>5
    <3> HIDE DEF Task
    <3> QED
      BY <1>1, <1>3, <3>1 DEF Sound
  <2>7. \A p \in Procs : TickSound(tick[p])'
    BY <1>1, <1>3, <2>2, <2>4, <2>5 DEF TickSound
  <2> QED
    BY <1>1, <1>3, <2>5, <2>6, <2>7 DEF Times
<1>6. TokensAreExclusive'
  BY <1>1 DEF IInv, TokensAreExclusive, Working, DueSlot, storeVars, processVars
<1> QED
  BY <1>2, <1>4, <1>5, <1>6 DEF Kept, IInv, StoreKept, StoreStep

-----------------------------------------------------------------------------
LEMMA TickStepKeeps == ASSUME IInv, NEW p \in Procs, TickStep(p) PROVE Kept
BY BeginTickKeeps, PassOverKeeps, StartTaskKeeps, AbandonLoopKeeps, EndTickKeeps
   DEF TickStep

LEMMA TaskStepsKeep ==
    ASSUME IInv, NEW p \in Procs, NEW m \in Monitors, TaskStep(p, m)
    PROVE  Kept
BY EndWalkKeeps, RecordMissedKeeps, StopAtHeldSlotKeeps, RecordMissedFailsKeeps,
   ClaimGrantedKeeps, ClaimRefusedKeeps, ClaimFailsKeeps, ExecutionEndsKeeps,
   ReleaseAtShutdownKeeps, ResultRecordedKeeps, ResultDiscardedKeeps, ResultFailsKeeps
   DEF TaskStep

LEMMA StutterKeeps == ASSUME IInv, UNCHANGED vars PROVE Kept
<1>1. UNCHANGED storeVars /\ UNCHANGED <<clock, catalogue, edits, processVars>>
  BY DEF vars
<1>2. StoreKept
  BY <1>1, StoreKeptUnchanged DEF IInv
<1>3. ProcessTypeOK' /\ Times' /\ TokensAreExclusive'
  BY <1>1 DEF IInv, ProcessTypeOK, Times, Sound, TickSound, TokensAreExclusive,
              Working, DueSlot, storeVars, processVars
<1> QED
  BY <1>2, <1>3 DEF Kept, IInv, StoreKept, StoreStep

\* Every step keeps the invariant and is a step of the ledger or none.
LEMMA Inductive == IInv /\ [Next]_vars => Kept
<1> SUFFICES ASSUME IInv, [Next]_vars PROVE Kept
  OBVIOUS
<1>1. CASE UNCHANGED vars
  BY <1>1, StutterKeeps
<1>2. CASE Advance
  BY <1>2, AdvanceKeeps
<1>3. CASE Step
  BY <1>3, TickStepKeeps, ProcessStepKeeps, TaskStepsKeep, EditMonitorKeeps DEF Step
<1> QED
  BY <1>1, <1>2, <1>3 DEF Next

LEMMA Initial == Init => IInv /\ Ledger!Init
<1> SUFFICES ASSUME Init PROVE IInv /\ Ledger!Init
  OBVIOUS
<1>1. StoreInv /\ Ledger!Init
  BY StoreInitial DEF Init
<1>2. ProcessTypeOK
  <2>1. Start \in Instants /\ 1 \in Revisions
    BY ConstantFacts DEF Instants, Revisions
  <2>2. tick \in [Procs -> Ticks] /\ tasks \in [Procs \X Monitors -> Tasks]
    BY IdleTaskIsTask, NoTickIsTick DEF Init
  <2> QED
    BY <2>1, <2>2 DEF Init, ProcessTypeOK, Listings, NothingAttempted
<1>3. \A p \in Procs, m \in Monitors : Task(p, m) = IdleTask
  BY DEF Init
<1>4. \A p \in Procs : tick[p] = NoTick
  BY DEF Init
<1>5. Times
  <2>1. clock = Start /\ Start \in Nat
    BY ConstantFacts DEF Init
  <2>2. Sound(IdleTask) /\ TickSound(NoTick)
    BY <2>1 DEF Sound, TickSound, IdleTask, NoTick
  <2> HIDE DEF Task
  <2> QED
    BY <1>3, <1>4, <2>1, <2>2 DEF Times
<1>6. TokensAreExclusive
  BY <1>3 DEF TokensAreExclusive, Working, IdleTask
<1> QED
  BY <1>1, <1>2, <1>5, <1>6 DEF IInv

\* The inductive invariant holds in every state the scheduler reaches.
THEOREM SchedulerInvariant == Spec => []IInv
<1>1. IInv /\ [Next]_vars => IInv'
  BY Inductive DEF Kept
<1> QED
  BY Initial, <1>1, PTL DEF Spec

\* Every variable keeps its type.
THEOREM SchedulerTypes == Spec => []TypeOK
<1>1. IInv => TypeOK
  BY DEF IInv, StoreInv, ProcessTypeOK, TypeOK
<1> QED
  BY SchedulerInvariant, <1>1, PTL

\* However workers race, crash and come back late, a slot's outcome is
\* announced exactly once, with the Run's identity.
THEOREM SchedulerRecordsOnce == Spec => []RecordedOnce
<1>1. IInv => RecordedOnce
  BY DEF IInv, StoreInv
<1> QED
  BY SchedulerInvariant, <1>1, PTL

\* A worker whose lease was reclaimed leaves no Observation.
THEOREM SchedulerObservesOnce == Spec => []ObservedByLastClaimant
<1>1. IInv => ObservedByLastClaimant
  BY DEF IInv, StoreInv
<1> QED
  BY SchedulerInvariant, <1>1, PTL

\* No two workers of a slot hold the same lease token.
THEOREM SchedulerTokensExclusive == Spec => []TokensAreExclusive
<1>1. IInv => TokensAreExclusive
  BY DEF IInv
<1> QED
  BY SchedulerInvariant, <1>1, PTL

\* The workers and the store together implement the ledger: each slot's outcome
\* is decided at most once and announced with the decision.
THEOREM SchedulerImplementsLedger == Spec => LedgerSpec
<1>1. IInv /\ [Next]_vars => [Ledger!Next]_Ledger!ledgerVars
  BY Inductive DEF Kept
<1> QED
  BY Initial, SchedulerInvariant, <1>1, PTL DEF Spec, LedgerSpec, Ledger!Spec

-----------------------------------------------------------------------------
(* What a lease protects *)

\* The Run under an unexpired lease cannot be claimed, recorded as missed, or
\* touched under any other token.
LEMMA ProtectedRowStays ==
    ASSUME IInv, NEW p \in Procs, NEW m \in Monitors, Protected(p, m),
           NEW s \in Slots
    PROVE  /\ RecordSkipped(s) => runs'[DueSlot(p, m)] = runs[DueSlot(p, m)]
           /\ \A expires \in Nat, now \in Nat :
                 now <= clock /\ ClaimSlot(s, expires, now)
                    => runs'[DueSlot(p, m)] = runs[DueSlot(p, m)]
<1>1. /\ DueSlot(p, m) \in Slots /\ runs \in [Slots -> Rows]
      /\ InFlight(DueSlot(p, m)) /\ clock < runs[DueSlot(p, m)].expires
  BY TaskSlots DEF Protected, HoldsLease, IInv, StoreInv, StoreTypeOK
<1>2. clock \in Nat /\ runs[DueSlot(p, m)].expires \in Nat
  BY <1>1 DEF IInv, ProcessTypeOK, Instants, Rows
<1>3. RecordSkipped(s) => runs'[DueSlot(p, m)] = runs[DueSlot(p, m)]
  BY <1>1 DEF RecordSkipped, SkipInserts, Absent, InFlight
<1>4. ASSUME NEW expires \in Nat, NEW now \in Nat, now <= clock,
             ClaimSlot(s, expires, now)
      PROVE  runs'[DueSlot(p, m)] = runs[DueSlot(p, m)]
  <2>1. s # DueSlot(p, m)
    BY <1>1, <1>2, <1>4 DEF ClaimSlot, Claimable, Absent, Reclaimable, InFlight
  <2> QED
    BY <1>1, <1>4, <2>1 DEF ClaimSlot
<1> QED
  BY <1>3, <1>4

\* A task that completes or releases the Run another task protects would hold
\* the other's token.
LEMMA ForeignTokenStaysOut ==
    ASSUME IInv, NEW p \in Procs, NEW m \in Monitors, Protected(p, m),
           NEW q \in Procs, NEW n \in Monitors, Working(q, n), q # p \/ n # m,
           HoldsLease(DueSlot(q, n), Task(q, n).id, Task(q, n).holder)
    PROVE  DueSlot(q, n) # DueSlot(p, m)
<1> SUFFICES ASSUME DueSlot(q, n) = DueSlot(p, m) PROVE FALSE
  OBVIOUS
<1>1. n = m /\ q # p
  BY DEF DueSlot, SlotAt
<1>2. Task(q, n).holder = Task(p, m).holder
  BY DEF Protected, HoldsLease
<1> QED
  BY <1>1, <1>2 DEF IInv, TokensAreExclusive, Protected

LEMMA TasksRespectLeases ==
    ASSUME IInv, NEW p \in Procs, NEW m \in Monitors, Protected(p, m),
           NEW q \in Procs, NEW n \in Monitors, TaskStep(q, n), Task(p, m)' = Task(p, m)
    PROVE  runs'[DueSlot(p, m)] = runs[DueSlot(p, m)]
<1> DEFINE row == DueSlot(p, m)
<1>1. /\ DueSlot(q, n) \in Slots /\ row \in Slots /\ runs \in [Slots -> Rows]
      /\ Walking(q, n) => WalkSlot(q, n) \in Slots
      /\ Task(q, n).now + Lease \in Nat /\ Task(q, n).now \in Nat
      /\ Task(q, n).now <= clock
  <2>1. /\ DueSlot(q, n) \in Slots /\ row \in Slots /\ runs \in [Slots -> Rows]
        /\ Walking(q, n) => WalkSlot(q, n) \in Slots
        /\ Task(q, n).now + Lease \in Nat /\ Task(q, n) \in Tasks
    BY TaskSlots DEF IInv, StoreInv, StoreTypeOK
  <2>2. Sound(Task(q, n))
    BY DEF IInv, Times
  <2> HIDE DEF Task
  <2> QED
    BY <2>1, <2>2 DEF Tasks, Instants, Sound
<1>2. ASSUME Finish(q, n), Working(q, n) PROVE q # p \/ n # m
  <2>1. Task(q, n)' = IdleTask
    BY <1>2 DEF Finish, IInv, ProcessTypeOK
  <2> QED
    BY <1>2, <2>1 DEF Working, IdleTask
<1>3. CASE UNCHANGED storeVars
  BY <1>3 DEF storeVars
<1>4. CASE Walking(q, n) /\ RecordSkipped(WalkSlot(q, n))
  BY <1>1, <1>4, ProtectedRowStays
<1>5. CASE ClaimDue(q, n)
  BY <1>1, <1>5, ProtectedRowStays DEF ClaimDue
<1>6. CASE Working(q, n) /\ CompleteDue(q, n) /\ Finish(q, n)
  <2>1. DueSlot(q, n) # row
    BY <1>2, <1>6, ForeignTokenStaysOut DEF CompleteDue, Complete
  <2> QED
    BY <1>1, <1>6, <2>1 DEF CompleteDue, Complete
<1>7. CASE /\ Working(q, n) /\ Finish(q, n)
           /\ ReleaseSlot(DueSlot(q, n), Task(q, n).id, Task(q, n).holder)
  <2>1. DueSlot(q, n) # row
    BY <1>2, <1>7, ForeignTokenStaysOut DEF ReleaseSlot
  <2> QED
    BY <1>1, <1>7, <2>1 DEF ReleaseSlot
<1>8. \/ UNCHANGED storeVars
      \/ Walking(q, n) /\ RecordSkipped(WalkSlot(q, n))
      \/ ClaimDue(q, n)
      \/ Working(q, n) /\ CompleteDue(q, n) /\ Finish(q, n)
      \/ /\ Working(q, n) /\ Finish(q, n)
         /\ ReleaseSlot(DueSlot(q, n), Task(q, n).id, Task(q, n).holder)
  BY DEF TaskStep, EndWalk, RecordMissed, StopAtHeldSlot, RecordMissedFails,
         ClaimGranted, ClaimRefused, ClaimFails, ExecutionEnds, ReleaseAtShutdown,
         ResultRecorded, ResultDiscarded, ResultFails, MaybeCommitted, Working,
         storeVars
<1> QED
  BY <1>3, <1>4, <1>5, <1>6, <1>7, <1>8

\* A step leaves the Run under an unexpired lease to the task that holds it.
LEMMA LeasesRespected ==
    ASSUME IInv, [Next]_vars, NEW p \in Procs, NEW m \in Monitors,
           Protected(p, m), Task(p, m)' = Task(p, m)
    PROVE  runs'[DueSlot(p, m)] = runs[DueSlot(p, m)]
<1>1. CASE \E q \in Procs, n \in Monitors : TaskStep(q, n)
  BY <1>1, TasksRespectLeases
<1>2. CASE \/ Advance \/ UNCHANGED vars
           \/ \E q \in Procs : TickStep(q) \/ ProcessStep(q)
           \/ \E n \in Monitors : EditMonitor(n)
  BY <1>2 DEF Advance, TickStep, BeginTick, PassOver, StartTask, AbandonLoop, EndTick,
              ProcessStep, Crash, Shutdown, Exit, Restart, EditMonitor, BeginEdit,
              CommitEdit, storeVars, vars
<1> QED
  BY <1>1, <1>2 DEF Next, Step

\* Until a lease expires only the task that holds it touches the Run, whatever
\* the other workers, the misfire walks and the shutdowns do.
THEOREM SchedulerLeaseProtects == Spec => LeaseProtects
<1> DEFINE Respected ==
       \A p \in Procs, m \in Monitors :
          Protected(p, m) /\ Task(p, m)' = Task(p, m)
             => runs'[DueSlot(p, m)] = runs[DueSlot(p, m)]
<1>1. IInv /\ [Next]_vars => [Respected]_vars
  BY LeasesRespected
<1> QED
  BY SchedulerInvariant, <1>1, PTL DEF Spec, LeaseProtects

-----------------------------------------------------------------------------
(* Leases and time.  In a prompt fleet a lease outlives every execution    *)
(* whose task claimed in time, however its tasks wait for slots.           *)

\* An execution is within its deadline, and its lease lasts beyond it.
Covered(p, m) ==
    /\ HoldsLease(DueSlot(p, m), Task(p, m).id, Task(p, m).holder)
    /\ clock <= Task(p, m).deadline
    /\ Task(p, m).deadline < runs[DueSlot(p, m)].expires

TaskTimely(p, m) ==
    Task(p, m).pc = "execute" =>
       /\ clock <= Task(p, m).deadline
       /\ ClaimedInTime(p, m) => Covered(p, m)

Timely == \A p \in Procs, m \in Monitors : TaskTimely(p, m)

LEMMA TimelyTypes ==
    ASSUME IInv, NEW p \in Procs, NEW m \in Monitors
    PROVE  /\ clock \in Nat /\ Task(p, m).deadline \in Nat
           /\ Task(p, m) \in Tasks
           /\ DueSlot(p, m) \in Slots
           /\ runs[DueSlot(p, m)].expires \in Nat
<1>1. /\ Task(p, m) \in Tasks /\ DueSlot(p, m) \in Slots
      /\ runs \in [Slots -> Rows] /\ clock \in Nat
  BY TaskSlots DEF IInv, StoreInv, StoreTypeOK, ProcessTypeOK, Instants
<1> HIDE DEF Task
<1> QED
  BY <1>1 DEF Tasks, Rows

\* Nothing takes the Run of a covered execution away while its time lasts.
LEMMA CoveredStays ==
    ASSUME IInv, [Next]_vars, NEW p \in Procs, NEW m \in Monitors,
           Task(p, m).pc = "execute", Covered(p, m), Task(p, m)' = Task(p, m),
           clock' <= Task(p, m).deadline
    PROVE  Covered(p, m)'
<1>1. Protected(p, m)
  BY TimelyTypes DEF Covered, Protected, Working
<1>2. runs'[DueSlot(p, m)] = runs[DueSlot(p, m)] /\ DueSlot(p, m)' = DueSlot(p, m)
  BY <1>1, LeasesRespected DEF DueSlot
<1> HIDE DEF Task
<1> QED
  BY <1>2 DEF Covered, HoldsLease, InFlight

\* A task nothing happened to, while its deadline has not passed.
LEMMA TaskTimelyStays ==
    ASSUME IInv, [Next]_vars, NEW p \in Procs, NEW m \in Monitors,
           TaskTimely(p, m), Task(p, m)' = Task(p, m),
           Task(p, m).pc = "execute" => clock' <= Task(p, m).deadline
    PROVE  TaskTimely(p, m)'
<1>1. Task(p, m).pc = "execute" /\ ClaimedInTime(p, m) => Covered(p, m)'
  BY CoveredStays DEF TaskTimely
<1> HIDE DEF Task
<1> QED
  BY <1>1 DEF TaskTimely, ClaimedInTime

LEMMA PendingMonitors ==
    ASSUME IInv, NEW p \in Procs
    PROVE  /\ tick \in [Procs -> Ticks] /\ tick[p] \in Ticks
           /\ tick[p].pending \subseteq Monitors
           /\ tick[p].pending # {} => tick[p].running
BY DEF IInv, ProcessTypeOK, Times, TickSound, Ticks

-----------------------------------------------------------------------------
\* The claim: the lease is measured from the tick's instant, the deadline from
\* this one.
LEMMA ClaimTimely ==
    ASSUME IInv, NEW p \in Procs, NEW m \in Monitors, ClaimGranted(p, m)
    PROVE  TaskTimely(p, m)'
<1> DEFINE s == DueSlot(p, m)
           expiry == Task(p, m).now + Lease
<1>1. /\ s \in Slots /\ runs \in [Slots -> Rows] /\ Task(p, m) \in Tasks
      /\ tasks \in [Procs \X Monitors -> Tasks] /\ clock \in Nat
  BY TimelyTypes DEF IInv, StoreInv, StoreTypeOK, ProcessTypeOK
<1>2. /\ Task(p, m)' = [Task(p, m) EXCEPT !.pc = "execute", !.id = ClaimedId(s),
                          !.holder = NewHolder(s), !.deadline = clock + Ceiling]
      /\ clock' = clock
  BY <1>1 DEF ClaimGranted
<1> HIDE DEF Task
<1>3. /\ Task(p, m)'.pc = "execute" /\ Task(p, m)'.id = ClaimedId(s)
      /\ Task(p, m)'.holder = NewHolder(s) /\ Task(p, m)'.deadline = clock + Ceiling
      /\ Task(p, m)'.revision = Task(p, m).revision /\ Task(p, m)'.due = Task(p, m).due
      /\ Task(p, m)'.now = Task(p, m).now
  BY <1>1, <1>2 DEF Tasks
<1>4. DueSlot(p, m)' = s
  BY <1>3 DEF DueSlot
<1>5. runs' = [runs EXCEPT ![s] =
                 [status |-> "inFlight", id |-> ClaimedId(s),
                  holder |-> NewHolder(s), expires |-> expiry]]
  BY DEF ClaimGranted, ClaimDue, ClaimSlot
<1>6. /\ runs'[s].status = "inFlight" /\ runs'[s].id = ClaimedId(s)
      /\ runs'[s].holder = NewHolder(s) /\ runs'[s].expires = expiry
  BY <1>1, <1>5
<1>7. clock <= clock + Ceiling
  BY <1>1, ConstantFacts
<1>8. ClaimedInTime(p, m)' => clock + Ceiling < expiry
  BY <1>3 DEF ClaimedInTime
<1>9. ClaimedInTime(p, m)' => Covered(p, m)'
  <2> HIDE DEF s, expiry
  <2> QED
    BY <1>2, <1>3, <1>4, <1>6, <1>7, <1>8 DEF Covered, HoldsLease, InFlight
<1> QED
  BY <1>2, <1>3, <1>7, <1>9 DEF TaskTimely

\* A task's own step: it moves on in the same instant, or it stops working.
LEMMA TaskStepChange ==
    ASSUME IInv, NEW p \in Procs, NEW m \in Monitors, TaskStep(p, m)
    PROVE  /\ UNCHANGED <<clock, tick>>
           /\ Task(p, m).pc # "idle"
           /\ \A q \in Procs, n \in Monitors :
                 q # p \/ n # m => Task(q, n)' = Task(q, n)
           /\ \/ ClaimGranted(p, m)
              \/ Task(p, m)'.pc \in {"idle", "complete"}
              \/ /\ Task(p, m).pc = "backfill" /\ Task(p, m)'.pc # "execute"
                 /\ Task(p, m)'.now = Task(p, m).now
<1>1. tasks \in [Procs \X Monitors -> Tasks] /\ Task(p, m) \in Tasks
  BY DEF IInv, ProcessTypeOK
<1>2. CASE EndWalk(p, m) \/ StopAtHeldSlot(p, m) \/ RecordMissedFails(p, m)
  <2>1. tasks' = [tasks EXCEPT ![<<p, m>>].pc = "claim"] /\ UNCHANGED <<clock, tick>>
    BY <1>2 DEF EndWalk, StopAtHeldSlot, RecordMissedFails, GoTo
  <2>2. Task(p, m).pc = "backfill"
    BY <1>2 DEF EndWalk, StopAtHeldSlot, RecordMissedFails, Walking
  <2>3. Task(p, m)' = [Task(p, m) EXCEPT !.pc = "claim"]
    BY <1>1, <2>1
  <2>4. Task(p, m)'.pc = "claim" /\ Task(p, m)'.now = Task(p, m).now
    BY <1>1, <2>3 DEF Tasks
  <2> QED
    BY <1>1, <2>1, <2>2, <2>4
<1>3. CASE RecordMissed(p, m)
  <2>1. Task(p, m)' = [Task(p, m) EXCEPT !.walk = @ - Interval[m], !.left = @ - 1]
    BY <1>1, <1>3 DEF RecordMissed
  <2>2. Task(p, m).pc = "backfill" /\ UNCHANGED <<clock, tick>>
    BY <1>3 DEF RecordMissed, Walking
  <2>3. Task(p, m)'.pc = "backfill" /\ Task(p, m)'.now = Task(p, m).now
    BY <1>1, <2>1, <2>2 DEF Tasks
  <2> QED
    BY <1>1, <1>3, <2>2, <2>3 DEF RecordMissed
<1>4. CASE ClaimGranted(p, m)
  BY <1>1, <1>4 DEF ClaimGranted
<1>5. CASE \/ ClaimRefused(p, m) \/ ClaimFails(p, m) \/ ReleaseAtShutdown(p, m)
           \/ ResultRecorded(p, m) \/ ResultDiscarded(p, m) \/ ResultFails(p, m)
  <2>1. /\ tasks' = [tasks EXCEPT ![<<p, m>>] = IdleTask] /\ UNCHANGED <<clock, tick>>
        /\ Task(p, m).pc # "idle"
    BY <1>5 DEF ClaimRefused, ClaimFails, ReleaseAtShutdown, ResultRecorded,
                ResultDiscarded, ResultFails, Finish
  <2> QED
    BY <1>1, <2>1 DEF IdleTask
<1>6. CASE ExecutionEnds(p, m)
  BY <1>1, <1>6 DEF ExecutionEnds, Tasks
<1> QED
  BY <1>2, <1>3, <1>4, <1>5, <1>6 DEF TaskStep

\* A task executes after a step because it claimed, or because it did before.
LEMMA ExecutionsGoOn ==
    ASSUME IInv, Step, NEW p \in Procs, NEW m \in Monitors, Task(p, m)'.pc = "execute"
    PROVE  /\ clock' = clock
           /\ ClaimGranted(p, m) \/ Task(p, m)' = Task(p, m)
<1>1. tasks \in [Procs \X Monitors -> Tasks]
  BY DEF IInv, ProcessTypeOK
<1>2. CASE \E q \in Procs, n \in Monitors : TaskStep(q, n)
  <2>1. PICK q \in Procs : \E n \in Monitors : TaskStep(q, n)
    BY <1>2
  <2>2. PICK n \in Monitors : TaskStep(q, n)
    BY <2>1
  <2>3. CASE q = p /\ n = m
    BY <2>2, <2>3, TaskStepChange
  <2>4. CASE q # p \/ n # m
    BY <2>2, <2>4, TaskStepChange
  <2> QED
    BY <2>3, <2>4
<1>3. CASE \E q \in Procs : TickStep(q)
  <2>1. CASE \E q \in Procs, n \in Monitors : StartTask(q, n)
    <3>1. PICK q \in Procs : \E n \in Monitors : StartTask(q, n)
      BY <2>1
    <3>2. PICK n \in Monitors : StartTask(q, n)
      BY <3>1
    <3>3. tasks' = [tasks EXCEPT ![<<q, n>>] = NewTask(q, n)] /\ clock' = clock
      BY <3>2 DEF StartTask
    <3>4. NewTask(q, n).pc = "backfill"
      BY DEF NewTask, IdleTask
    <3> QED
      BY <1>1, <3>3, <3>4
  <2>2. CASE UNCHANGED <<clock, tasks>>
    BY <2>2
  <2> QED
    BY <1>3, <2>1, <2>2 DEF TickStep, BeginTick, PassOver, AbandonLoop, EndTick
<1>4. CASE \E q \in Procs : ProcessStep(q)
  BY <1>4 DEF ProcessStep, Crash, Shutdown, Exit, Restart, Forget, IdleTask
<1>5. CASE \E n \in Monitors : EditMonitor(n)
  BY <1>5 DEF EditMonitor, BeginEdit, CommitEdit, processVars
<1> QED
  BY <1>2, <1>3, <1>4, <1>5 DEF Step

LEMMA TimelyInductive ==
    ASSUME IInv, Timely, [Step \/ AdvancePromptly]_vars
    PROVE  Timely'
<1>1. [Next]_vars
  BY DEF Next, AdvancePromptly
<1> SUFFICES ASSUME NEW p \in Procs, NEW m \in Monitors PROVE TaskTimely(p, m)'
  BY DEF Timely
<1>2. TaskTimely(p, m) /\ clock \in Nat /\ Task(p, m).deadline \in Nat
  BY TimelyTypes DEF Timely
<1>3. CASE Task(p, m)'.pc # "execute"
  BY <1>3 DEF TaskTimely
<1>4. CASE UNCHANGED vars
  <2>1. Task(p, m)' = Task(p, m) /\ clock' = clock
    BY <1>4 DEF vars, processVars
  <2> QED
    BY <1>1, <1>2, <2>1, TaskTimelyStays DEF TaskTimely
<1>5. CASE AdvancePromptly
  <2>1. Task(p, m)' = Task(p, m) /\ clock' = clock + 1
    BY <1>5 DEF AdvancePromptly, Advance, processVars
  <2>2. Task(p, m).pc = "execute" => clock < Task(p, m).deadline
    BY <1>5 DEF AdvancePromptly, Prompt
  <2>3. Task(p, m).pc = "execute" => clock' <= Task(p, m).deadline
    BY <1>2, <2>1, <2>2
  <2> QED
    BY <1>1, <1>2, <2>1, <2>3, TaskTimelyStays
<1>6. CASE Step /\ Task(p, m)'.pc = "execute"
  <2>1. CASE ClaimGranted(p, m)
    BY <2>1, ClaimTimely
  <2>2. CASE Task(p, m)' = Task(p, m)
    BY <1>1, <1>2, <1>6, <2>2, ExecutionsGoOn, TaskTimelyStays DEF TaskTimely
  <2> QED
    BY <1>6, <2>1, <2>2, ExecutionsGoOn
<1> QED
  BY <1>3, <1>4, <1>5, <1>6

LEMMA TimelyInitial == Init => Timely
<1> SUFFICES ASSUME Init PROVE Timely
  OBVIOUS
<1>1. \A p \in Procs, m \in Monitors : Task(p, m) = IdleTask
  BY DEF Init
<1> HIDE DEF Task
<1> QED
  BY <1>1 DEF Timely, TaskTimely, IdleTask

LEMMA TimelySpecKeeps == TimelySpec => [](IInv /\ Timely)
<1>1. [Step \/ AdvancePromptly]_vars => [Next]_vars
  BY DEF Next, AdvancePromptly
<1>2. IInv /\ Timely /\ [Step \/ AdvancePromptly]_vars => (IInv /\ Timely)'
  BY <1>1, Inductive, TimelyInductive DEF Kept
<1> QED
  BY Initial, TimelyInitial, <1>2, PTL DEF TimelySpec

\* scheduler.go:99-103, as far as it goes: in every prompt fleet, whatever waits for
\* a slot, a task that claimed in time holds an unexpired lease while it executes.
THEOREM SchedulerLeaseCovers == TimelySpec => []LeaseCoversClaimsInTime
<1>1. IInv /\ Timely => LeaseCoversClaimsInTime
  BY TimelyTypes DEF Timely, TaskTimely, Covered, LeaseCoversClaimsInTime
<1> QED
  BY TimelySpecKeeps, <1>1, PTL

\* Two workers execute the check of one slot at once only if one of them claimed too
\* late: both would hold the slot's lease, and its token belongs to one.
THEOREM SchedulerOverlapNeedsWait == TimelySpec => []OverlapNeedsWait
<1>1. IInv /\ Timely => OverlapNeedsWait
  <2> SUFFICES ASSUME IInv, Timely, NEW p \in Procs, NEW q \in Procs, p # q,
                      NEW m \in Monitors, Task(p, m).pc = "execute",
                      Task(q, m).pc = "execute", DueSlot(p, m) = DueSlot(q, m),
                      ClaimedInTime(p, m), ClaimedInTime(q, m)
               PROVE  FALSE
    BY DEF OverlapNeedsWait
  <2>1. Task(p, m).holder = Task(q, m).holder
    BY DEF Timely, TaskTimely, Covered, HoldsLease
  <2> QED
    BY <2>1 DEF IInv, TokensAreExclusive, Working
<1> QED
  BY TimelySpecKeeps, <1>1, PTL

-----------------------------------------------------------------------------
(* The series.  For all integers, SlotFor is the slot that is current; and  *)
(* whatever the workers decide is a slot of its Monitor's series.           *)

\* schedule.go: floorDiv is the quotient rounded down, also before the origin of a
\* series, where Go's own division rounds up.
THEOREM FloorDivRoundsDown ==
    ASSUME NEW a \in Int, NEW b \in Nat \ {0}
    PROVE  FloorDiv(a, b) = a \div b
<1>1. CASE a >= 0
  <2>1. FloorDiv(a, b) = Truncated(a, b)
    BY <1>1 DEF FloorDiv
  <2> QED
    BY <1>1, <2>1 DEF Truncated
<1>2. CASE a < 0
  <2> DEFINE q == (-a) \div b
             r == (-a) % b
  <2>1. /\ q \in Int /\ r \in 0..(b - 1) /\ -a = q * b + r
    BY <1>2
  <2>2. Truncated(a, b) = -q
    BY <1>2 DEF Truncated
  <2>3. (-q) * b = -(q * b) /\ q * b \in Int /\ (-q - 1) * b = -(q * b) - b
    BY <2>1
  <2> HIDE DEF q, r
  <2>4. CASE r = 0
    <3>1. FloorDiv(a, b) = -q
      BY <2>1, <2>2, <2>3, <2>4 DEF FloorDiv
    <3>2. a = (-q) * b
      BY <2>1, <2>3, <2>4
    <3> QED
      BY <2>1, <3>1, <3>2
  <2>5. CASE r # 0
    <3>1. FloorDiv(a, b) = -q - 1
      BY <1>2, <2>1, <2>2, <2>3, <2>5 DEF FloorDiv
    <3>2. a = (-q - 1) * b + (b - r) /\ b - r \in 0..(b - 1) /\ -q - 1 \in Int
      BY <2>1, <2>3, <2>5
    <3> QED
      BY <3>1, <3>2
  <2> QED
    BY <2>4, <2>5
<1> QED
  BY <1>1, <1>2

OnSeries(offset, interval, t) == \E k \in Int : t = k * interval + offset

\* SlotFor is the one slot of its series that is current at an instant: the latest that
\* is not after it, less than an interval ago.
THEOREM SlotForIsCurrent ==
    ASSUME NEW offset \in Int, NEW interval \in Nat \ {0}, NEW now \in Int
    PROVE  LET slot == SlotFor(offset, interval, now) IN
           /\ OnSeries(offset, interval, slot)
           /\ slot <= now /\ now < slot + interval
           /\ \A t \in Int : OnSeries(offset, interval, t) /\ t <= now => t <= slot
<1> DEFINE a == now - offset
           k == a \div interval
<1>1. /\ k \in Int /\ k * interval \in Int /\ (k + 1) * interval = k * interval + interval
      /\ k * interval <= a /\ a < k * interval + interval
  OBVIOUS
<1>2. SlotFor(offset, interval, now) = k * interval + offset
  <2>1. a \in Int
    OBVIOUS
  <2>2. FloorDiv(a, interval) = k
    <3> HIDE DEF a
    <3> QED
      BY <2>1, FloorDivRoundsDown
  <2> QED
    BY <2>2 DEF SlotFor
<1>3. ASSUME NEW j \in Int, j * interval + offset <= now
      PROVE  j * interval + offset <= k * interval + offset
  <2> HIDE DEF k
  <2>1. j * interval \in Int
    OBVIOUS
  <2>2. CASE j <= k
    <3>1. j * interval <= k * interval
      BY <1>1, <2>2
    <3> QED
      BY <1>1, <2>1, <3>1
  <2>3. CASE j >= k + 1
    <3>1. j * interval >= (k + 1) * interval
      BY <1>1, <2>3
    <3> QED
      BY <1>1, <1>3, <2>1, <3>1
  <2> QED
    BY <1>1, <2>2, <2>3
<1> HIDE DEF k
<1> QED
  BY <1>1, <1>2, <1>3 DEF OnSeries

\* Two slots of a series are whole intervals apart.
LEMMA SeriesApart ==
    ASSUME NEW offset \in Int, NEW interval \in Nat \ {0}, NEW s \in Int, NEW t \in Int,
           OnSeries(offset, interval, s), OnSeries(offset, interval, t), s < t
    PROVE  s + interval <= t
<1>1. PICK j \in Int : s = j * interval + offset
  BY DEF OnSeries
<1>2. PICK k \in Int : t = k * interval + offset
  BY DEF OnSeries
<1>3. /\ j * interval \in Int /\ k * interval \in Int
      /\ (j + 1) * interval = j * interval + interval
  OBVIOUS
<1>4. j * interval < k * interval
  BY <1>1, <1>2, <1>3
<1>5. CASE k <= j
  <2>1. k * interval <= j * interval
    BY <1>5
  <2> QED
    BY <1>3, <1>4, <2>1
<1>6. CASE k >= j + 1
  <2>1. k * interval >= (j + 1) * interval
    BY <1>6
  <2> QED
    BY <1>1, <1>2, <1>3, <2>1
<1> QED
  BY <1>5, <1>6

LEMMA SeriesBack ==
    ASSUME NEW offset \in Int, NEW interval \in Nat \ {0}, NEW t \in Int,
           OnSeries(offset, interval, t)
    PROVE  OnSeries(offset, interval, t - interval)
<1>1. PICK k \in Int : t = k * interval + offset
  BY DEF OnSeries
<1>2. k * interval \in Int /\ (k - 1) * interval = k * interval - interval /\ k - 1 \in Int
  OBVIOUS
<1> QED
  BY <1>1, <1>2 DEF OnSeries

-----------------------------------------------------------------------------
InSeries(m, t) == OnSeries(Offset[m], Interval[m], t)

\* A task is about slots of its Monitor's series that have been reached.
TasksInSeries ==
    \A p \in Procs, m \in Monitors : Task(p, m).pc # "idle" =>
       /\ InSeries(m, Task(p, m).due) /\ InSeries(m, Task(p, m).walk)
       /\ Task(p, m).due <= Task(p, m).now

\* A slot with a row is of its Monitor's series, and due.
SlotsInSeries ==
    \A s \in Slots : ~ Absent(s) => InSeries(s.monitor, s.due) /\ s.due <= clock

\* What a step makes of a task: nothing, a new one, an end, or a step back of its walk.
LEMMA TaskMoves ==
    ASSUME IInv, [Next]_vars, NEW p \in Procs, NEW m \in Monitors,
           Task(p, m)'.pc # "idle"
    PROVE  \/ StartTask(p, m) /\ Task(p, m)' = NewTask(p, m)
           \/ /\ Task(p, m).pc # "idle"
              /\ Task(p, m)'.due = Task(p, m).due /\ Task(p, m)'.now = Task(p, m).now
              /\ Task(p, m)'.walk \in {Task(p, m).walk, Task(p, m).walk - Interval[m]}
<1>1. tasks \in [Procs \X Monitors -> Tasks] /\ Task(p, m) \in Tasks
  BY DEF IInv, ProcessTypeOK
<1>2. CASE \E q \in Procs : TickStep(q)
  <2>1. CASE \E q \in Procs, n \in Monitors : StartTask(q, n)
    BY <1>1, <2>1 DEF StartTask
  <2>2. CASE UNCHANGED tasks
    BY <2>2
  <2> QED
    BY <1>2, <2>1, <2>2 DEF TickStep, BeginTick, PassOver, AbandonLoop, EndTick
<1>3. CASE \E q \in Procs : ProcessStep(q)
  BY <1>3 DEF ProcessStep, Crash, Shutdown, Exit, Restart, Forget, IdleTask
<1>4. CASE \E q \in Procs, n \in Monitors : TaskStep(q, n)
  <2>1. PICK q \in Procs : \E n \in Monitors : TaskStep(q, n)
    BY <1>4
  <2>2. PICK n \in Monitors : TaskStep(q, n)
    BY <2>1
  <2>3. CASE q # p \/ n # m
    <3>1. Task(p, m)' = Task(p, m)
      BY <2>2, <2>3, TaskStepChange
    <3> QED
      BY <3>1
  <2>4. CASE q = p /\ n = m
    <3>1. ~ Finish(p, m)
      BY <1>1 DEF Finish, IdleTask
    <3>2. Task(p, m).pc # "idle"
      BY <2>2, <2>4 DEF TaskStep, EndWalk, RecordMissed, StopAtHeldSlot,
         RecordMissedFails, ClaimGranted, ClaimRefused, ClaimFails, ExecutionEnds,
         ReleaseAtShutdown, ResultRecorded, ResultDiscarded, ResultFails, Walking
    <3>3. CASE GoTo(p, m, "claim")
      BY <1>1, <3>2, <3>3 DEF GoTo, Tasks
    <3>4. CASE RecordMissed(p, m)
      <4>1. Task(p, m)' = [Task(p, m) EXCEPT !.walk = @ - Interval[m], !.left = @ - 1]
        BY <1>1, <3>4 DEF RecordMissed
      <4> QED
        BY <1>1, <3>2, <4>1 DEF Tasks
    <3>5. CASE ClaimGranted(p, m)
      <4>1. \E id, holder, deadline :
               Task(p, m)' = [Task(p, m) EXCEPT !.pc = "execute", !.id = id,
                                                !.holder = holder, !.deadline = deadline]
        BY <1>1, <3>5 DEF ClaimGranted
      <4> QED
        BY <1>1, <3>2, <4>1 DEF Tasks
    <3>6. CASE ExecutionEnds(p, m)
      <4>1. \E o : Task(p, m)' = [Task(p, m) EXCEPT !.pc = "complete", !.result = o]
        BY <1>1, <3>6 DEF ExecutionEnds
      <4> QED
        BY <1>1, <3>2, <4>1 DEF Tasks
    <3> QED
      BY <2>2, <2>4, <3>1, <3>3, <3>4, <3>5, <3>6
         DEF TaskStep, EndWalk, StopAtHeldSlot, RecordMissedFails, ClaimRefused,
             ClaimFails, ReleaseAtShutdown, ResultRecorded, ResultDiscarded, ResultFails
  <2> QED
    BY <2>3, <2>4
<1>5. CASE UNCHANGED vars \/ Advance \/ \E n \in Monitors : EditMonitor(n)
  <2>1. Task(p, m)' = Task(p, m)
    BY <1>5 DEF vars, Advance, EditMonitor, BeginEdit, CommitEdit, processVars
  <2> QED
    BY <2>1
<1> QED
  BY <1>2, <1>3, <1>4, <1>5 DEF Next, Step

LEMMA TasksStayInSeries ==
    ASSUME IInv, TasksInSeries, [Next]_vars
    PROVE  TasksInSeries'
<1> SUFFICES ASSUME NEW p \in Procs, NEW m \in Monitors, Task(p, m)'.pc # "idle"
             PROVE  /\ InSeries(m, Task(p, m)'.due) /\ InSeries(m, Task(p, m)'.walk)
                    /\ Task(p, m)'.due <= Task(p, m)'.now
  BY DEF TasksInSeries, InSeries
<1>1. Offset[m] \in Int /\ Interval[m] \in Nat \ {0}
  BY ConstantFacts
<1>2. CASE StartTask(p, m) /\ Task(p, m)' = NewTask(p, m)
  <2>1. tick[p].now \in Instants /\ tick[p].now >= Start
    BY <1>2 DEF StartTask, IInv, ProcessTypeOK, Times, TickSound, Ticks
  <2> DEFINE slot == PlannedSlot(p, m)
  <2>2. InSeries(m, slot) /\ slot <= tick[p].now /\ slot \in Int
    BY <1>1, <2>1, SlotForIsCurrent, SlotForInRange DEF PlannedSlot, InSeries, Instants
  <2>3. InSeries(m, slot - Interval[m])
    BY <1>1, <2>2, SeriesBack DEF InSeries
  <2>4. /\ NewTask(p, m).due = slot /\ NewTask(p, m).walk = slot - Interval[m]
        /\ NewTask(p, m).now = tick[p].now
    BY DEF NewTask, IdleTask, WalkStart
  <2> HIDE DEF slot
  <2> QED
    BY <1>2, <2>2, <2>3, <2>4
<1>3. CASE /\ Task(p, m).pc # "idle"
           /\ Task(p, m)'.due = Task(p, m).due /\ Task(p, m)'.now = Task(p, m).now
           /\ Task(p, m)'.walk \in {Task(p, m).walk, Task(p, m).walk - Interval[m]}
  <2>1. /\ InSeries(m, Task(p, m).due) /\ InSeries(m, Task(p, m).walk)
        /\ Task(p, m).due <= Task(p, m).now /\ Task(p, m).walk \in Int
    BY <1>3 DEF TasksInSeries, IInv, ProcessTypeOK, Tasks
  <2>2. InSeries(m, Task(p, m).walk - Interval[m])
    BY <1>1, <2>1, SeriesBack DEF InSeries
  <2> QED
    BY <1>3, <2>1, <2>2
<1> QED
  BY <1>2, <1>3, TaskMoves

\* A slot that gets a row is the one a task claims or the one its walk looks at.
LEMMA RowByTask ==
    ASSUME IInv, [Next]_vars, NEW s \in Slots, Absent(s), ~ Absent(s)'
    PROVE  \E p \in Procs, m \in Monitors :
              Task(p, m).pc # "idle" /\ s \in {DueSlot(p, m), WalkSlot(p, m)}
<1>1. runs \in [Slots -> Rows]
  BY DEF IInv, StoreInv, StoreTypeOK
<1>2. CASE \E p \in Procs, m \in Monitors : TaskStep(p, m)
  <2>1. PICK p \in Procs : \E m \in Monitors : TaskStep(p, m)
    BY <1>2
  <2>2. PICK m \in Monitors : TaskStep(p, m)
    BY <2>1
  <2>3. CASE UNCHANGED runs
    BY <2>3 DEF Absent
  <2>4. CASE Walking(p, m) /\ RecordSkipped(WalkSlot(p, m))
    BY <1>1, <2>4 DEF RecordSkipped, Absent, Walking
  <2>5. CASE Task(p, m).pc = "claim" /\ ClaimDue(p, m)
    BY <1>1, <2>5 DEF ClaimDue, ClaimSlot, Absent
  <2>6. CASE Task(p, m).pc = "complete" /\ CompleteDue(p, m)
    BY <1>1, <2>6 DEF CompleteDue, Complete, Absent
  <2>7. CASE ReleaseSlot(DueSlot(p, m), Task(p, m).id, Task(p, m).holder)
    BY <1>1, <2>7 DEF ReleaseSlot, AbsentRow, Absent
  <2> QED
    BY <2>2, <2>3, <2>4, <2>5, <2>6, <2>7
       DEF TaskStep, EndWalk, RecordMissed, StopAtHeldSlot, RecordMissedFails,
           ClaimGranted, ClaimRefused, ClaimFails, ExecutionEnds, ReleaseAtShutdown,
           ResultRecorded, ResultDiscarded, ResultFails, MaybeCommitted, storeVars
<1>3. CASE \/ Advance \/ UNCHANGED vars
           \/ \E q \in Procs : TickStep(q) \/ ProcessStep(q)
           \/ \E n \in Monitors : EditMonitor(n)
  BY <1>3 DEF Advance, TickStep, BeginTick, PassOver, StartTask, AbandonLoop, EndTick,
              ProcessStep, Crash, Shutdown, Exit, Restart, EditMonitor, BeginEdit,
              CommitEdit, storeVars, vars, Absent
<1> QED
  BY <1>2, <1>3 DEF Next, Step

LEMMA ClockForward ==
    ASSUME IInv, [Next]_vars
    PROVE  clock \in Int /\ clock' \in Int /\ clock <= clock'
<1>1. clock \in Int
  BY DEF IInv, ProcessTypeOK, Instants
<1>2. CASE Advance
  BY <1>1, <1>2 DEF Advance
<1>3. CASE \E p \in Procs, m \in Monitors : TaskStep(p, m)
  <2>1. clock' = clock
    BY <1>3 DEF TaskStep, EndWalk, RecordMissed, StopAtHeldSlot, RecordMissedFails,
       ClaimGranted, ClaimRefused, ClaimFails, ExecutionEnds, ReleaseAtShutdown,
       ResultRecorded, ResultDiscarded, ResultFails
  <2> QED
    BY <1>1, <2>1
<1>4. CASE \/ UNCHANGED vars
           \/ \E q \in Procs : TickStep(q) \/ ProcessStep(q)
           \/ \E n \in Monitors : EditMonitor(n)
  <2>1. clock' = clock
    BY <1>4 DEF TickStep, BeginTick, PassOver, StartTask, AbandonLoop, EndTick,
       ProcessStep, Crash, Shutdown, Exit, Restart, EditMonitor, BeginEdit,
       CommitEdit, vars
  <2> QED
    BY <1>1, <2>1
<1> QED
  BY <1>2, <1>3, <1>4 DEF Next, Step

LEMMA SlotsStayInSeries ==
    ASSUME IInv, TasksInSeries, SlotsInSeries, [Next]_vars
    PROVE  SlotsInSeries'
<1> SUFFICES ASSUME NEW s \in Slots, ~ Absent(s)'
             PROVE  InSeries(s.monitor, s.due) /\ s.due <= clock'
  BY DEF SlotsInSeries, InSeries
<1>1. clock \in Int /\ clock' \in Int /\ clock <= clock' /\ s.due \in Int
  BY ClockForward DEF Slots, Instants
<1>2. CASE ~ Absent(s)
  BY <1>1, <1>2 DEF SlotsInSeries
<1>3. ASSUME NEW p \in Procs, NEW m \in Monitors, Task(p, m).pc # "idle",
             s \in {DueSlot(p, m), WalkSlot(p, m)}
      PROVE  InSeries(s.monitor, s.due) /\ s.due <= clock
  <2>1. Task(p, m) \in Tasks /\ Sound(Task(p, m))
    BY DEF IInv, ProcessTypeOK, Times
  <2>2. /\ Task(p, m).walk \in Int /\ Task(p, m).due \in Int /\ Task(p, m).now \in Int
        /\ Task(p, m).walk <= Task(p, m).due /\ Task(p, m).now <= clock
    BY <2>1 DEF Tasks, Instants, Sound
  <2>3. s.monitor = m /\ s.due \in {Task(p, m).due, Task(p, m).walk}
    BY <1>3 DEF DueSlot, WalkSlot, SlotAt
  <2> QED
    BY <1>1, <1>3, <2>2, <2>3 DEF TasksInSeries
<1>4. CASE Absent(s)
  <2>1. PICK p \in Procs : \E m \in Monitors :
                Task(p, m).pc # "idle" /\ s \in {DueSlot(p, m), WalkSlot(p, m)}
    BY <1>4, RowByTask
  <2> QED
    BY <1>1, <1>3, <2>1
<1> QED
  BY <1>2, <1>4

\* Whatever workers claim or record as missed, ticking late, racing or restarted, is a
\* slot of its Monitor's series, and never one before it is due.
THEOREM SchedulerSlotsInSeries == Spec => []SlotsInSeries
<1>1. Init => IInv /\ TasksInSeries /\ SlotsInSeries
  BY Initial DEF Init, StoreInit, AbsentRow, Absent, IdleTask, TasksInSeries, SlotsInSeries
<1>2. IInv /\ TasksInSeries /\ SlotsInSeries /\ [Next]_vars
         => (IInv /\ TasksInSeries /\ SlotsInSeries)'
  BY Inductive, TasksStayInSeries, SlotsStayInSeries DEF Kept
<1> QED
  BY <1>1, <1>2, PTL DEF Spec

\* No Monitor has Runs at instants closer together than its interval.
IntervalKept ==
    \A s, t \in Slots :
       /\ s.monitor = t.monitor /\ s.due < t.due
       /\ ~ Absent(s) /\ ~ Absent(t)
       => s.due + Interval[s.monitor] <= t.due

\* However many workers schedule a Monitor, across restarts and Revisions, its interval
\* is kept (as long as nobody edits the interval itself, which moves the series).
THEOREM SchedulerKeepsInterval == Spec => []IntervalKept
<1>1. SlotsInSeries => IntervalKept
  <2> SUFFICES ASSUME SlotsInSeries, NEW s \in Slots, NEW t \in Slots,
                      s.monitor = t.monitor, s.due < t.due, ~ Absent(s), ~ Absent(t)
               PROVE  s.due + Interval[s.monitor] <= t.due
    BY DEF IntervalKept
  <2>1. /\ s.monitor \in Monitors /\ s.due \in Int /\ t.due \in Int
        /\ Offset[s.monitor] \in Int /\ Interval[s.monitor] \in Nat \ {0}
    BY ConstantFacts DEF Slots, Instants
  <2>2. /\ OnSeries(Offset[s.monitor], Interval[s.monitor], s.due)
        /\ OnSeries(Offset[s.monitor], Interval[s.monitor], t.due)
    BY DEF SlotsInSeries, InSeries
  <2> QED
    BY <2>1, <2>2, SeriesApart
<1> QED
  BY <1>1, SchedulerSlotsInSeries, PTL

-----------------------------------------------------------------------------
(* What the misfire walk charges.  This holds however late the processes   *)
(* are: only the history is needed, not the promptness.                    *)

\* The slots the history accounts for.
Chargeable == eligible \cup overtaken

\* Every slot of a Monitor in a range of time, under one Revision, is one of them.
ChargeableBetween(m, revision, first, last) ==
    \A t \in first + 1 .. last :
       OnSchedule(m, t) => SlotAt(m, revision, t) \in Chargeable

\* An active Monitor has been active, under its Revision, since the edit that
\* made it so read the clock, but for what that edit let pass.
CatalogueChargeable ==
    \A m \in Monitors :
       catalogue[m].active =>
          ChargeableBetween(m, catalogue[m].revision, catalogue[m].notBefore, clock)

\* What a tick was listed is true of the time up to the instant it was given.
ListedChargeable ==
    \A p \in Procs : \A m \in tick[p].pending :
       ChargeableBetween(m, tick[p].listed[m].revision, tick[p].listed[m].notBefore,
                         tick[p].now)

\* A walk stays within that time.
WalksChargeable ==
    \A p \in Procs, m \in Monitors :
       Task(p, m).pc = "backfill" =>
          ChargeableBetween(m, Task(p, m).revision, Task(p, m).after, Task(p, m).due)

HistoryInv ==
    /\ TasksInSeries
    /\ CatalogueChargeable /\ ListedChargeable /\ WalksChargeable
    /\ SkipsWereEligible

\* The history grows, by whatever is due after the step and whatever an edit that
\* commits in it let pass.
HistoryStep ==
    /\ Chargeable \subseteq Chargeable'
    /\ DueNow(catalogue', clock') \subseteq Chargeable'
    /\ Overtaken \subseteq Chargeable'

\* What happens to a Monitor's row: nothing, or an edit with the instant it read.
LEMMA RowChange ==
    ASSUME IInv, [Next]_vars, NEW m \in Monitors
    PROVE  \/ catalogue'[m] = catalogue[m] /\ clock' \in {clock, clock + 1}
           \/ /\ edits[m] # NoInstant /\ edits'[m] = NoInstant
              /\ catalogue'[m].notBefore = edits[m] /\ clock' = clock
<1>1. /\ catalogue \in [Monitors -> Listings] /\ catalogue[m] \in Listings
      /\ edits \in [Monitors -> Instants \cup {NoInstant}]
  BY DEF IInv, ProcessTypeOK
<1>2. CASE \E n \in Monitors : EditMonitor(n)
  <2>1. PICK n \in Monitors : EditMonitor(n)
    BY <1>2
  <2>2. CASE BeginEdit(n)
    BY <2>2 DEF BeginEdit
  <2>3. CASE CommitEdit(n)
    <3>1. clock' = clock
      BY <2>3 DEF CommitEdit
    <3>2. CASE n = m
      <4>1. edits[m] # NoInstant /\ edits'[m] = NoInstant
        BY <1>1, <2>3, <3>2 DEF CommitEdit
      <4>2. catalogue'[m].notBefore = edits[m]
        BY <1>1, <2>3, <3>2 DEF CommitEdit, Rename, CreateRevision, ChangeState, Listings
      <4> QED
        BY <3>1, <4>1, <4>2
    <3>3. CASE n # m
      BY <1>1, <2>3, <3>1, <3>3 DEF CommitEdit, Rename, CreateRevision, ChangeState
    <3> QED
      BY <3>2, <3>3
  <2> QED
    BY <2>1, <2>2, <2>3 DEF EditMonitor
<1>3. CASE Advance
  BY <1>3 DEF Advance
<1>4. CASE \/ UNCHANGED vars
           \/ \E p \in Procs : TickStep(p) \/ ProcessStep(p)
  BY <1>4 DEF vars, TickStep, BeginTick, PassOver, StartTask, AbandonLoop, EndTick,
              ProcessStep, Crash, Shutdown, Exit, Restart
<1>5. CASE \E p \in Procs, n \in Monitors : TaskStep(p, n)
  BY <1>5 DEF TaskStep, EndWalk, RecordMissed, StopAtHeldSlot, RecordMissedFails,
              ClaimGranted, ClaimRefused, ClaimFails, ExecutionEnds, ReleaseAtShutdown,
              ResultRecorded, ResultDiscarded, ResultFails
<1> QED
  BY <1>2, <1>3, <1>4, <1>5 DEF Next, Step

\* An edit restarts the Monitor's time where it read the clock; the clock extends
\* it by one instant.
LEMMA CatalogueStaysChargeable ==
    ASSUME IInv, CatalogueChargeable, HistoryStep, [Next]_vars
    PROVE  CatalogueChargeable'
<1> SUFFICES ASSUME NEW m \in Monitors, catalogue'[m].active,
                    NEW t \in catalogue'[m].notBefore + 1 .. clock', OnSchedule(m, t)
             PROVE  SlotAt(m, catalogue'[m].revision, t) \in Chargeable'
  BY DEF CatalogueChargeable, ChargeableBetween, OnSchedule
<1>1. /\ clock \in Nat /\ catalogue[m].notBefore \in Int
      /\ edits[m] \in Int
  BY DEF IInv, ProcessTypeOK, Instants, Listings, NoInstant
<1>2. OnSchedule(m, clock') => SlotAt(m, catalogue'[m].revision, clock') \in Chargeable'
  BY DEF HistoryStep, DueNow
<1>3. CASE catalogue'[m] = catalogue[m] /\ clock' \in {clock, clock + 1}
  <2>1. t \in catalogue[m].notBefore + 1 .. clock \/ t = clock'
    BY <1>1, <1>3
  <2> QED
    BY <1>2, <1>3, <2>1 DEF CatalogueChargeable, ChargeableBetween, HistoryStep
<1>4. CASE /\ edits[m] # NoInstant /\ edits'[m] = NoInstant
           /\ catalogue'[m].notBefore = edits[m] /\ clock' = clock
  <2>1. t \in {u \in edits[m] + 1 .. clock : OnSchedule(m, u)}
    BY <1>4
  <2>2. SlotAt(m, catalogue'[m].revision, t) \in Overtaken
    BY <1>4, <2>1 DEF Overtaken, Committed
  <2> QED
    BY <2>2 DEF HistoryStep
<1> QED
  BY <1>3, <1>4, RowChange

\* A tick begins with the catalogue, and afterwards only has fewer to reach.
LEMMA TickChange ==
    ASSUME IInv, [Next]_vars, NEW p \in Procs
    PROVE  \/ tick'[p].pending = {}
           \/ /\ tick'[p].pending \subseteq tick[p].pending
              /\ tick'[p].listed = tick[p].listed /\ tick'[p].now = tick[p].now
           \/ /\ tick'[p].pending \subseteq {m \in Monitors : catalogue[m].active}
              /\ tick'[p].listed = catalogue /\ tick'[p].now = clock
<1>1. tick \in [Procs -> Ticks] /\ tick[p] \in Ticks
  BY PendingMonitors
<1>2. NoTick.pending = {}
  BY DEF NoTick
<1>3. CASE \E q \in Procs : TickStep(q)
  <2>1. PICK q \in Procs : TickStep(q)
    BY <1>3
  <2>2. CASE q # p
    BY <1>1, <2>1, <2>2
       DEF TickStep, BeginTick, PassOver, StartTask, AbandonLoop, EndTick
  <2>3. CASE q = p
    <3>1. CASE BeginTick(p)
      BY <1>1, <3>1 DEF BeginTick
    <3>2. CASE \/ AbandonLoop(p)
               \/ \E m \in Monitors : PassOver(p, m) \/ StartTask(p, m)
      <4>1. PICK fewer \in SUBSET tick[p].pending :
               tick' = [tick EXCEPT ![p].pending = fewer]
        BY <3>2 DEF AbandonLoop, PassOver, StartTask
      <4> QED
        BY <1>1, <4>1 DEF Ticks
    <3>3. CASE EndTick(p)
      BY <1>1, <1>2, <3>3 DEF EndTick
    <3> QED
      BY <2>1, <2>3, <3>1, <3>2, <3>3 DEF TickStep
  <2> QED
    BY <2>2, <2>3
<1>4. CASE \E q \in Procs : ProcessStep(q)
  BY <1>1, <1>2, <1>4 DEF ProcessStep, Crash, Shutdown, Exit, Restart, Forget
<1>5. CASE \E q \in Procs, n \in Monitors : TaskStep(q, n)
  BY <1>5, TaskStepChange
<1>6. CASE UNCHANGED vars \/ Advance \/ \E n \in Monitors : EditMonitor(n)
  BY <1>6 DEF vars, Advance, EditMonitor, BeginEdit, CommitEdit, processVars
<1> QED
  BY <1>3, <1>4, <1>5, <1>6 DEF Next, Step

LEMMA ListedStaysChargeable ==
    ASSUME IInv, CatalogueChargeable, ListedChargeable, HistoryStep, [Next]_vars
    PROVE  ListedChargeable'
<1> SUFFICES ASSUME NEW p \in Procs, NEW m \in tick'[p].pending,
                    NEW t \in tick'[p].listed[m].notBefore + 1 .. tick'[p].now,
                    OnSchedule(m, t)
             PROVE  SlotAt(m, tick'[p].listed[m].revision, t) \in Chargeable'
  BY DEF ListedChargeable, ChargeableBetween, OnSchedule
<1>1. CASE /\ tick'[p].pending \subseteq tick[p].pending
           /\ tick'[p].listed = tick[p].listed /\ tick'[p].now = tick[p].now
  BY <1>1 DEF ListedChargeable, ChargeableBetween, HistoryStep
<1>2. CASE /\ tick'[p].pending \subseteq {n \in Monitors : catalogue[n].active}
           /\ tick'[p].listed = catalogue /\ tick'[p].now = clock
  <2>1. m \in Monitors /\ catalogue[m].active
    BY <1>2
  <2> QED
    BY <1>2, <2>1 DEF CatalogueChargeable, ChargeableBetween, HistoryStep
<1> QED
  BY <1>1, <1>2, TickChange

\* A new walk lies between the edit's instant and the tick's.
LEMMA NewWalkChargeable ==
    ASSUME IInv, ListedChargeable, NEW p \in Procs, NEW m \in Monitors, StartTask(p, m)
    PROVE  ChargeableBetween(m, NewTask(p, m).revision, NewTask(p, m).after,
                             NewTask(p, m).due)
<1>1. /\ m \in tick[p].pending /\ tick[p] \in Ticks /\ tick[p].now \in Instants
      /\ tick[p].now >= Start /\ tick[p].listed[m] \in Listings
  BY DEF StartTask, IInv, ProcessTypeOK, Times, TickSound, Ticks
<1>2. /\ tick[p].listed[m].notBefore \in Int /\ tick[p].now \in Int
      /\ attempted[p][m] \in Int
  BY <1>1 DEF Listings, Instants, IInv, ProcessTypeOK, NoInstant
<1>3. Offset[m] \in Int /\ Interval[m] \in Nat \ {0}
  BY ConstantFacts
<1>4. PlannedSlot(p, m) \in Int /\ PlannedSlot(p, m) <= tick[p].now
  BY <1>1, <1>2, <1>3, SlotForInRange, SlotForIsCurrent DEF PlannedSlot, Instants
<1>5. WalkEnd(p, m) \in Int /\ WalkEnd(p, m) >= tick[p].listed[m].notBefore
  BY <1>2 DEF WalkEnd, Later
<1>6. /\ NewTask(p, m).revision = tick[p].listed[m].revision
      /\ NewTask(p, m).after = WalkEnd(p, m) /\ NewTask(p, m).due = PlannedSlot(p, m)
  BY DEF NewTask, IdleTask
<1>7. \A t \in WalkEnd(p, m) + 1 .. PlannedSlot(p, m) :
         t \in tick[p].listed[m].notBefore + 1 .. tick[p].now
  BY <1>2, <1>4, <1>5
<1> QED
  BY <1>1, <1>6, <1>7 DEF ListedChargeable, ChargeableBetween

\* A task that walks was just started, or its walk keeps its bounds.
LEMMA WalkChange ==
    ASSUME IInv, [Next]_vars, NEW p \in Procs, NEW m \in Monitors,
           Task(p, m)'.pc = "backfill"
    PROVE  \/ StartTask(p, m) /\ Task(p, m)' = NewTask(p, m)
           \/ /\ Task(p, m).pc = "backfill"
              /\ Task(p, m)'.revision = Task(p, m).revision
              /\ Task(p, m)'.after = Task(p, m).after /\ Task(p, m)'.due = Task(p, m).due
<1>1. tasks \in [Procs \X Monitors -> Tasks] /\ Task(p, m) \in Tasks
  BY DEF IInv, ProcessTypeOK
<1>2. CASE \E q \in Procs : TickStep(q)
  <2>1. CASE \E q \in Procs, n \in Monitors : StartTask(q, n)
    BY <1>1, <2>1 DEF StartTask
  <2>2. CASE UNCHANGED tasks
    BY <2>2
  <2> QED
    BY <1>2, <2>1, <2>2 DEF TickStep, BeginTick, PassOver, AbandonLoop, EndTick
<1>3. CASE \E q \in Procs : ProcessStep(q)
  BY <1>3 DEF ProcessStep, Crash, Shutdown, Exit, Restart, Forget, IdleTask
<1>4. CASE \E q \in Procs, n \in Monitors : TaskStep(q, n)
  <2>1. PICK q \in Procs : \E n \in Monitors : TaskStep(q, n)
    BY <1>4
  <2>2. PICK n \in Monitors : TaskStep(q, n)
    BY <2>1
  <2>3. CASE q # p \/ n # m
    <3>1. Task(p, m)' = Task(p, m)
      BY <2>2, <2>3, TaskStepChange
    <3> QED
      BY <3>1
  <2>4. CASE q = p /\ n = m
    <3>1. RecordMissed(p, m)
      <4>1. /\ ~ GoTo(p, m, "claim") /\ ~ Finish(p, m) /\ ~ ExecutionEnds(p, m)
            /\ ~ ClaimGranted(p, m)
        <5>1. GoTo(p, m, "claim") => Task(p, m)'.pc = "claim"
          BY <1>1 DEF GoTo, Tasks
        <5>2. Finish(p, m) => Task(p, m)'.pc = "idle"
          BY <1>1 DEF Finish, IdleTask
        <5>3. ExecutionEnds(p, m) => Task(p, m)'.pc = "complete"
          BY <1>1 DEF ExecutionEnds, Tasks
        <5>4. ClaimGranted(p, m) => Task(p, m)'.pc = "execute"
          BY <1>1 DEF ClaimGranted, Tasks
        <5> QED
          BY <5>1, <5>2, <5>3, <5>4
      <4> QED
        BY <2>2, <2>4, <4>1
           DEF TaskStep, EndWalk, StopAtHeldSlot, RecordMissedFails, ClaimRefused,
               ClaimFails, ReleaseAtShutdown, ResultRecorded, ResultDiscarded, ResultFails
    <3>2. Task(p, m)' = [Task(p, m) EXCEPT !.walk = @ - Interval[m], !.left = @ - 1]
      BY <1>1, <3>1 DEF RecordMissed
    <3> QED
      BY <1>1, <3>1, <3>2 DEF RecordMissed, Walking, Tasks
  <2> QED
    BY <2>3, <2>4
<1>5. CASE UNCHANGED vars \/ Advance \/ \E n \in Monitors : EditMonitor(n)
  BY <1>5 DEF vars, Advance, EditMonitor, BeginEdit, CommitEdit, processVars
<1> QED
  BY <1>2, <1>3, <1>4, <1>5 DEF Next, Step

LEMMA WalksStayChargeable ==
    ASSUME IInv, ListedChargeable, WalksChargeable, HistoryStep, [Next]_vars
    PROVE  WalksChargeable'
<1> SUFFICES ASSUME NEW p \in Procs, NEW m \in Monitors, Task(p, m)'.pc = "backfill",
                    NEW t \in Task(p, m)'.after + 1 .. Task(p, m)'.due, OnSchedule(m, t)
             PROVE  SlotAt(m, Task(p, m)'.revision, t) \in Chargeable'
  BY DEF WalksChargeable, ChargeableBetween, OnSchedule
<1>1. CASE StartTask(p, m) /\ Task(p, m)' = NewTask(p, m)
  BY <1>1, NewWalkChargeable DEF ChargeableBetween, HistoryStep
<1>2. CASE /\ Task(p, m).pc = "backfill"
           /\ Task(p, m)'.revision = Task(p, m).revision
           /\ Task(p, m)'.after = Task(p, m).after /\ Task(p, m)'.due = Task(p, m).due
  BY <1>2 DEF WalksChargeable, ChargeableBetween, HistoryStep
<1> QED
  BY <1>1, <1>2, WalkChange

\* Only a walk records a slot as missed, and only the slot it looks at.
LEMMA SkippedByWalk ==
    ASSUME IInv, [Next]_vars, NEW s \in Slots, runs'[s].status = "skipped"
    PROVE  \/ runs[s].status = "skipped"
           \/ \E p \in Procs, m \in Monitors : Walking(p, m) /\ s = WalkSlot(p, m)
<1>1. runs \in [Slots -> Rows]
  BY DEF IInv, StoreInv, StoreTypeOK
<1>2. CASE \E p \in Procs, m \in Monitors : TaskStep(p, m)
  <2>1. PICK p \in Procs : \E m \in Monitors : TaskStep(p, m)
    BY <1>2
  <2>2. PICK m \in Monitors : TaskStep(p, m)
    BY <2>1
  <2>3. CASE UNCHANGED runs
    BY <2>3
  <2>4. CASE Walking(p, m) /\ RecordSkipped(WalkSlot(p, m))
    BY <1>1, <2>4 DEF RecordSkipped
  <2>5. CASE ClaimDue(p, m)
    BY <1>1, <2>5 DEF ClaimDue, ClaimSlot
  <2>6. CASE Task(p, m).pc = "complete" /\ CompleteDue(p, m)
    <3>1. Task(p, m).result # "skipped"
      BY <2>6, RunStoreAssumption DEF IInv, Times, Sound
    <3> QED
      BY <1>1, <2>6, <3>1 DEF CompleteDue, Complete, FinishedRow
  <2>7. CASE ReleaseSlot(DueSlot(p, m), Task(p, m).id, Task(p, m).holder)
    BY <1>1, <2>7 DEF ReleaseSlot, AbsentRow
  <2> QED
    BY <2>2, <2>3, <2>4, <2>5, <2>6, <2>7
       DEF TaskStep, EndWalk, RecordMissed, StopAtHeldSlot, RecordMissedFails,
           ClaimGranted, ClaimRefused, ClaimFails, ExecutionEnds, ReleaseAtShutdown,
           ResultRecorded, ResultDiscarded, ResultFails, MaybeCommitted, storeVars
<1>3. CASE \/ Advance \/ UNCHANGED vars
           \/ \E q \in Procs : TickStep(q) \/ ProcessStep(q)
           \/ \E n \in Monitors : EditMonitor(n)
  BY <1>3 DEF Advance, TickStep, BeginTick, PassOver, StartTask, AbandonLoop, EndTick,
              ProcessStep, Crash, Shutdown, Exit, Restart, EditMonitor, BeginEdit,
              CommitEdit, storeVars, vars
<1> QED
  BY <1>2, <1>3 DEF Next, Step

\* A slot of the series is the current slot of its own instant.
LEMMA SeriesOnSchedule ==
    ASSUME NEW m \in Monitors, NEW t \in Int, InSeries(m, t)
    PROVE  OnSchedule(m, t)
<1>1. Offset[m] \in Int /\ Interval[m] \in Nat \ {0}
  BY ConstantFacts
<1>2. SlotFor(Offset[m], Interval[m], t) \in Int
  <2>1. PICK k \in Int : SlotFor(Offset[m], Interval[m], t) = k * Interval[m] + Offset[m]
    <3>1. OnSeries(Offset[m], Interval[m], SlotFor(Offset[m], Interval[m], t))
      BY <1>1, SlotForIsCurrent
    <3> QED
      BY <3>1 DEF OnSeries
  <2>2. k * Interval[m] \in Int
    BY <1>1
  <2> QED
    BY <1>1, <2>1, <2>2
<1>3. /\ SlotFor(Offset[m], Interval[m], t) <= t
      /\ t <= SlotFor(Offset[m], Interval[m], t)
  BY <1>1, SlotForIsCurrent DEF InSeries
<1> QED
  BY <1>2, <1>3 DEF OnSchedule

LEMMA SkipsStayEligible ==
    ASSUME IInv, TasksInSeries, WalksChargeable, SkipsWereEligible, HistoryStep,
           [Next]_vars
    PROVE  SkipsWereEligible'
<1> SUFFICES ASSUME NEW s \in Slots, runs'[s].status = "skipped"
             PROVE  s \in Chargeable'
  BY DEF SkipsWereEligible, Chargeable
<1>1. CASE runs[s].status = "skipped"
  BY <1>1 DEF SkipsWereEligible, HistoryStep, Chargeable
<1>2. ASSUME NEW p \in Procs, NEW m \in Monitors, Walking(p, m), s = WalkSlot(p, m)
      PROVE  s \in Chargeable'
  <2>1. Task(p, m) \in Tasks /\ Sound(Task(p, m)) /\ Task(p, m).pc = "backfill"
    BY <1>2 DEF IInv, ProcessTypeOK, Times, Walking
  <2>2. /\ Task(p, m).walk \in Int /\ Task(p, m).after \in Int /\ Task(p, m).due \in Int
        /\ Task(p, m).after # NoInstant
    BY <2>1, ConstantFacts DEF Tasks, Instants, NoInstant
  <2>3. Task(p, m).walk \in Task(p, m).after + 1 .. Task(p, m).due
    BY <1>2, <2>1, <2>2 DEF Walking, WalkContinues, Sound
  <2>4. OnSchedule(m, Task(p, m).walk)
    BY <2>1, <2>2, SeriesOnSchedule DEF TasksInSeries
  <2> QED
    BY <1>2, <2>1, <2>3, <2>4
       DEF WalkSlot, WalksChargeable, ChargeableBetween, HistoryStep
<1> QED
  BY <1>1, <1>2, SkippedByWalk

LEMMA HistoryInductive ==
    ASSUME IInv, HistoryInv, [Next /\ Remember]_editVars
    PROVE  HistoryInv'
<1>1. CASE Next /\ Remember
  <2>1. HistoryStep
    BY <1>1 DEF Remember, HistoryStep, Chargeable
  <2> QED
    BY <1>1, <2>1, TasksStayInSeries, CatalogueStaysChargeable, ListedStaysChargeable,
       WalksStayChargeable, SkipsStayEligible DEF HistoryInv
<1>2. CASE UNCHANGED editVars
  BY <1>2 DEF HistoryInv, TasksInSeries, InSeries, CatalogueChargeable, ListedChargeable,
              WalksChargeable, SkipsWereEligible, ChargeableBetween, Chargeable,
              OnSchedule, editVars, vars, storeVars, processVars
<1> QED
  BY <1>1, <1>2

LEMMA HistoryInitial == EditInit => HistoryInv
<1> SUFFICES ASSUME EditInit PROVE HistoryInv
  OBVIOUS
<1>1. CatalogueChargeable
  <2> SUFFICES ASSUME NEW m \in Monitors, NEW t \in catalogue[m].notBefore + 1 .. clock
               PROVE  FALSE
    BY DEF CatalogueChargeable, ChargeableBetween
  <2>1. catalogue[m].notBefore = Start /\ clock = Start /\ Start \in Int
    BY ConstantFacts DEF EditInit, Init
  <2> QED
    BY <2>1
<1>2. ListedChargeable
  BY DEF EditInit, Init, ListedChargeable, NoTick
<1>3. WalksChargeable /\ TasksInSeries
  BY DEF EditInit, Init, WalksChargeable, TasksInSeries, IdleTask
<1>4. SkipsWereEligible
  BY DEF EditInit, Init, StoreInit, AbsentRow, SkipsWereEligible
<1> QED
  BY <1>1, <1>2, <1>3, <1>4 DEF HistoryInv

\* A Monitor is charged only with slots it was active for under their Revision, or
\* that fell due while the edit that activated or revised it was on its way from the
\* clock to its commit: however late ticks and edits are.
THEOREM SchedulerSkipsEligible == EditSpec => []SkipsWereEligible
<1>1. EditInit => IInv /\ HistoryInv
  BY Initial, HistoryInitial DEF EditInit
<1>2. IInv /\ HistoryInv /\ [Next /\ Remember]_editVars => (IInv /\ HistoryInv)'
  <2>1. [Next /\ Remember]_editVars => [Next]_vars
    BY DEF editVars
  <2> QED
    BY <2>1, Inductive, HistoryInductive DEF Kept
<1>3. HistoryInv => SkipsWereEligible
  BY DEF HistoryInv
<1> QED
  BY <1>1, <1>2, <1>3, PTL DEF EditSpec
=============================================================================
