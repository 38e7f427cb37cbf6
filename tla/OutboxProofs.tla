---------------------------- MODULE OutboxProofs ----------------------------
(***************************************************************************)
(* The outbox, for every number of dispatchers, aggregates and versions,   *)
(* every lease, limit and delay: its types, that an entry is never lost,   *)
(* what a lease protects, the patience with gaps, that it implements the   *)
(* ordered projection, and that a fleet that keeps up decides every gap in *)
(* time.                                                                   *)
(***************************************************************************)
EXTENDS Outbox, TLAPS

USE DEF Work

\* A queued entry announces a version that was written, and the token of a row
\* is one of the claims made of it.
RowsSound ==
    \A e \in Entries :
       /\ Queued(e) => e.version <= written[e.aggregate]
       /\ queue[e].holder <= queue[e].attempts

\* Only versions that were written take effect, and a marker tells of one that
\* has.
EffectsSound ==
    /\ \A a \in Aggregates : cursor[a] <= written[a]
    /\ \A e \in Entries : Marked(e) => Replayed(e)

\* What a dispatcher keeps of its claim: a token of that claim, and the gap of
\* the row for as long as it holds it; what succeeded has taken effect.
WorkSound(p, e) == Work(p, e).pc # "idle" =>
    /\ Work(p, e).attempts >= 1
    /\ Work(p, e).now <= clock
    /\ e.version <= written[e.aggregate]
    /\ Queued(e) => Work(p, e).attempts <= queue[e].attempts
    /\ HoldsEntry(e, Work(p, e).attempts) => Work(p, e).gapSince = queue[e].gapSince
    /\ Work(p, e).pc = "reporting" /\ Work(p, e).code = "none" => Replayed(e)

\* Two dispatchers that claimed one entry did so under different tokens.
Exclusive ==
    \A p, q \in Procs, e \in Entries :
       p # q /\ Work(p, e).pc # "idle" /\ Work(q, e).pc # "idle"
          => Work(p, e).attempts # Work(q, e).attempts

IInv ==
    /\ TypeOK
    /\ RowsSound
    /\ EffectsSound
    /\ \A p \in Procs, e \in Entries : WorkSound(p, e)
    /\ Exclusive

-----------------------------------------------------------------------------
LEMMA ConstantFacts ==
    /\ MaxVersion \in Nat /\ MaxTime \in Nat
    /\ RetryBase \in Nat /\ RetryCap \in Nat
    /\ Lease \in Nat \ {0} /\ GapTimeout \in Nat \ {0} /\ Retention \in Nat
    /\ MaxAttempts \in Nat
BY OutboxAssumption, OutboxStoreAssumption, RetryAssumption

LEMMA NoRowIsRow == NoRow \in QueueRows
BY DEF NoRow, QueueRows, Nobody, Never

LEMMA NoWorkIsWork == NoWork \in Works
BY DEF NoWork, Works, Never

LEMMA DelaysAreNat == \A n \in Nat : RetryDelays(n) \subseteq Nat
BY ConstantFacts DEF RetryDelays

\* What every transaction but the producer's may do to a row: leave it, delete
\* it, release it or claim it.
RowStep(e) ==
    \/ queue'[e] = queue[e]
    \/ queue'[e] = NoRow
    \/ /\ queue'[e].queued = queue[e].queued
       /\ queue'[e].attempts = queue[e].attempts
       /\ queue'[e].holder = Nobody
    \/ /\ queue'[e].queued = queue[e].queued
       /\ queue'[e].attempts = queue[e].attempts + 1
       /\ queue'[e].holder = queue[e].attempts + 1

\* What every step but a claim may do to the work in hand: end it or take it
\* further.
WorkKept ==
    \A p \in Procs, e \in Entries : Work(p, e)'.pc # "idle" =>
       /\ Work(p, e).pc # "idle"
       /\ Work(p, e)'.attempts = Work(p, e).attempts
       /\ Work(p, e)'.now = Work(p, e).now
       /\ Work(p, e)'.gapSince = Work(p, e).gapSince

SucceededReplayed ==
    \A p \in Procs, e \in Entries :
       Work(p, e).pc = "reporting" /\ Work(p, e).code = "none" => Replayed(e)

\* The invariant survives a step that keeps the work and moves rows as above.
LEMMA KeepsInv ==
    ASSUME IInv, TypeOK', WorkKept, \A e \in Entries : RowStep(e),
           UNCHANGED written, clock' >= clock,
           EffectsSound', SucceededReplayed'
    PROVE  IInv'
<1>1. \A e \in Entries : /\ queue[e].attempts \in Nat /\ queue[e].holder \in Nat
                         /\ e.version \in Nat
  <2>1. \A e \in Entries : queue[e] \in QueueRows
    BY DEF IInv, TypeOK, OutboxTypeOK
  <2> QED
    BY <2>1 DEF QueueRows, Entries
<1>2. \A p \in Procs, e \in Entries : /\ Work(p, e).attempts \in Nat
                                      /\ Work(p, e).now \in Nat
  BY DEF IInv, TypeOK, Works
<1>3. clock \in Nat /\ clock' \in Nat
  BY DEF IInv, TypeOK
<1>4. RowsSound'
  <2> SUFFICES ASSUME NEW e \in Entries
               PROVE  /\ Queued(e)' => e.version <= written[e.aggregate]
                      /\ queue'[e].holder <= queue'[e].attempts
    BY DEF RowsSound
  <2>1. /\ Queued(e) => e.version <= written[e.aggregate]
        /\ queue[e].holder <= queue[e].attempts
    BY DEF IInv, RowsSound
  <2> QED
    BY <1>1, <2>1 DEF RowStep, Queued, NoRow, Nobody
<1>5. ASSUME NEW p \in Procs, NEW e \in Entries PROVE WorkSound(p, e)'
  <2> SUFFICES ASSUME Work(p, e)'.pc # "idle"
               PROVE  /\ Work(p, e)'.attempts >= 1
                      /\ Work(p, e)'.now <= clock'
                      /\ e.version <= written[e.aggregate]
                      /\ Queued(e)' => Work(p, e)'.attempts <= queue'[e].attempts
                      /\ HoldsEntry(e, Work(p, e).attempts)'
                            => Work(p, e)'.gapSince = queue'[e].gapSince
    BY DEF WorkSound, SucceededReplayed
  <2> DEFINE n == Work(p, e).attempts
  <2>1. /\ Work(p, e).pc # "idle"
        /\ Work(p, e)'.attempts = n
        /\ Work(p, e)'.now = Work(p, e).now
        /\ Work(p, e)'.gapSince = Work(p, e).gapSince
    BY DEF WorkKept
  <2>2. /\ n >= 1 /\ Work(p, e).now <= clock
        /\ e.version <= written[e.aggregate]
        /\ Queued(e) => n <= queue[e].attempts
        /\ HoldsEntry(e, n) => Work(p, e).gapSince = queue[e].gapSince
    BY <2>1 DEF IInv, WorkSound
  <2>3. n \in Nat /\ Work(p, e).now \in Nat
    BY <1>2
  <2>4. Work(p, e)'.now <= clock'
    BY <1>3, <2>1, <2>2, <2>3
  <2> HIDE DEF n
  <2>5. RowStep(e)
    OBVIOUS
  <2>6. Queued(e)' => n <= queue'[e].attempts
    BY <1>1, <2>2, <2>3, <2>5 DEF RowStep, Queued, NoRow
  <2>7. Queued(e)' /\ queue'[e].holder = n => Work(p, e).gapSince = queue'[e].gapSince
    BY <1>1, <2>2, <2>3, <2>5 DEF RowStep, Queued, HoldsEntry, NoRow, Nobody
  <2>8. HoldsEntry(e, Work(p, e).attempts)' => Queued(e)' /\ queue'[e].holder = n
    BY <2>1 DEF HoldsEntry, Queued
  <2> QED
    BY <2>1, <2>2, <2>4, <2>6, <2>7, <2>8
<1>6. Exclusive'
  BY DEF IInv, Exclusive, WorkKept
<1> QED
  BY <1>4, <1>5, <1>6 DEF IInv

-----------------------------------------------------------------------------
\* The transactions keep the types and move rows as RowStep says.
LEMMA RowsTyped ==
    ASSUME OutboxTypeOK, NEW e \in Entries
    PROVE  /\ queue[e] \in QueueRows
           /\ queue[e].holder = Nobody <=> queue[e].expires = 0
           /\ queue[e].attempts \in Nat /\ queue[e].available \in Nat
           /\ queue[e].holder \in Nat /\ queue[e].expires \in Nat
           /\ queue[e].gapSince \in Nat \cup {Never}
           /\ queue[e].queued \in BOOLEAN
BY DEF OutboxTypeOK, QueueRows

LEMMA EnqueueTyped ==
    ASSUME OutboxTypeOK, NEW e \in Entries, NEW now \in Nat, Enqueue(e, now),
           UNCHANGED <<marked, dead>>
    PROVE  OutboxTypeOK'
BY DEF OutboxTypeOK, Enqueue, NoRow, QueueRows, Nobody, Never

LEMMA ClaimTyped ==
    ASSUME OutboxTypeOK, NEW batch, NEW now \in Nat, NEW expires \in Nat \ {0},
           Claim(batch, now, expires)
    PROVE  OutboxTypeOK' /\ (\A e \in Entries : RowStep(e))
<1>1. \A e \in Entries : IF e \in batch
                         THEN queue'[e] = [queue[e] EXCEPT !.attempts = @ + 1,
                                             !.expires = expires,
                                             !.holder = queue[e].attempts + 1]
                         ELSE queue'[e] = queue[e]
  BY DEF Claim
<1>2. \A e \in Entries : queue'[e] \in QueueRows /\ RowStep(e)
                         /\ (queue'[e].holder = Nobody <=> queue'[e].expires = 0)
  <2> SUFFICES ASSUME NEW e \in Entries
               PROVE  queue'[e] \in QueueRows /\ RowStep(e)
                      /\ (queue'[e].holder = Nobody <=> queue'[e].expires = 0)
    OBVIOUS
  <2> DEFINE n == queue[e].attempts + 1
             row == [queue[e] EXCEPT !.attempts = n, !.expires = expires, !.holder = n]
  <2>1. queue'[e] = IF e \in batch THEN row ELSE queue[e]
    BY <1>1
  <2>2. n \in Nat /\ n # 0 /\ expires \in Nat /\ expires # 0
    BY RowsTyped
  <2> HIDE DEF n
  <2>3. queue[e] \in QueueRows
    BY RowsTyped
  <2>4. /\ row \in QueueRows
        /\ row.holder = n /\ row.expires = expires
        /\ row.attempts = n /\ row.queued = queue[e].queued
    BY <2>2, <2>3 DEF QueueRows
  <2> HIDE DEF row
  <2> QED
    BY <2>1, <2>2, <2>4, RowsTyped DEF RowStep, Nobody, n
<1> QED
  BY <1>2 DEF Claim, OutboxTypeOK

LEMMA SucceedTyped ==
    ASSUME OutboxTypeOK, NEW e \in Entries, NEW holder, NEW now \in Nat,
           Succeed(e, holder, now)
    PROVE  OutboxTypeOK' /\ (\A f \in Entries : RowStep(f))
<1>1. queue' = [queue EXCEPT ![e] = NoRow]
  BY DEF Succeed
<1>2. marked' \in [Entries -> Nat \cup {Never}] /\ dead' = dead
  BY DEF Succeed, OutboxTypeOK
<1> QED
  BY <1>1, <1>2, NoRowIsRow DEF OutboxTypeOK, RowStep, NoRow

LEMMA RetryTyped ==
    ASSUME OutboxTypeOK, NEW e \in Entries, NEW holder, NEW code, NEW next \in Nat,
           NEW now \in Nat, Retry(e, holder, code, next, now)
    PROVE  /\ OutboxTypeOK' /\ (\A f \in Entries : RowStep(f))
           /\ \A f \in Entries \ {e} : queue'[f] = queue[f]
           /\ HoldsEntry(e, holder) /\ marked' = marked
<1> DEFINE row == [Released(queue[e]) EXCEPT !.available = next,
                                             !.gapSince = GapSeen(e, code, now)]
<1>1. /\ queue' = [queue EXCEPT ![e] = row] /\ UNCHANGED <<marked, dead>>
      /\ HoldsEntry(e, holder)
  BY DEF Retry
<1>2. GapSeen(e, code, now) \in Nat \cup {Never}
  BY RowsTyped DEF GapSeen
<1>3. /\ row \in QueueRows
      /\ row.holder = Nobody /\ row.expires = 0
      /\ row.attempts = queue[e].attempts /\ row.queued = queue[e].queued
  BY <1>2, RowsTyped DEF Released, QueueRows, Nobody
<1> HIDE DEF row
<1> QED
  BY <1>1, <1>3 DEF OutboxTypeOK, RowStep

LEMMA BuryTyped ==
    ASSUME OutboxTypeOK, NEW e \in Entries, NEW holder, NEW code \in Codes,
           NEW now \in Nat, Bury(e, holder, code, now)
    PROVE  /\ OutboxTypeOK' /\ (\A f \in Entries : RowStep(f))
           /\ \A f \in Entries \ {e} : queue'[f] = queue[f]
           /\ HoldsEntry(e, holder) /\ marked' = marked
<1>1. queue' = [queue EXCEPT ![e] = NoRow] /\ HoldsEntry(e, holder)
  BY DEF Bury
<1>2. /\ dead' \in [Entries -> [at : Nat \cup {Never}, code : Codes \cup {"none"}]]
      /\ marked' = marked
  BY DEF Bury, OutboxTypeOK
<1> QED
  BY <1>1, <1>2, NoRowIsRow DEF OutboxTypeOK, RowStep, NoRow

LEMMA CleanupTyped ==
    ASSUME OutboxTypeOK, NEW before, Cleanup(before)
    PROVE  /\ OutboxTypeOK' /\ (\A f \in Entries : RowStep(f))
           /\ queue' = queue
           /\ \A e \in Entries : Marked(e)' => Marked(e)
<1>1. queue' = queue
  BY DEF Cleanup, LiveRowsStay
<1>2. /\ marked' \in [Entries -> Nat \cup {Never}]
      /\ dead' \in [Entries -> [at : Nat \cup {Never}, code : Codes \cup {"none"}]]
      /\ \A e \in Entries : Marked(e)' => Marked(e)
  BY DEF Cleanup, OutboxTypeOK, NotDead, Marked
<1> QED
  BY <1>1, <1>2 DEF OutboxTypeOK, RowStep

\* Reporting an outcome keeps the types and says of whom it disposes.
LEMMA NextAttemptIsNat ==
    ASSUME NEW w \in Works, NEW delay \in RetryDelays(w.attempts)
    PROVE  NextAttempt(w, delay) \in Nat
<1>1. w.now \in Nat /\ w.attempts \in Nat /\ w.gapSince \in Nat \cup {Never}
  BY DEF Works
<1>2. delay \in Nat
  BY <1>1, DelaysAreNat
<1>3. GapEnds(w) \in Nat
  BY <1>1, ConstantFacts DEF GapEnds
<1> QED
  BY <1>1, <1>2, <1>3 DEF NextAttempt

\* What Fail may do about an entry.
FailOrBury(e, w) ==
    \/ /\ w.code \in Codes /\ GivesUp(w)
       /\ Bury(e, w.attempts, w.code, w.now)
    \/ \E next \in Nat : Retry(e, w.attempts, w.code, next, w.now)

LEMMA ReportCases ==
    ASSUME NEW e \in Entries, NEW w \in Works, Report(e, w)
    PROVE  \/ w.code = "none" /\ Succeed(e, w.attempts, w.now)
           \/ FailOrBury(e, w)
<1>1. CASE w.code = "none" /\ Succeed(e, w.attempts, w.now)
  BY <1>1
<1>2. CASE w.code # "none" /\ Fail(e, w)
  <2>1. w.code \in Codes
    BY <1>2 DEF Works
  <2>2. CASE GivesUp(w) /\ Bury(e, w.attempts, w.code, w.now)
    BY <2>1, <2>2 DEF FailOrBury
  <2>3. CASE \E delay \in RetryDelays(w.attempts) :
                Retry(e, w.attempts, w.code, NextAttempt(w, delay), w.now)
    BY <2>3, NextAttemptIsNat DEF FailOrBury
  <2> QED
    BY <1>2, <2>2, <2>3 DEF Fail
<1> QED
  BY <1>1, <1>2 DEF Report

LEMMA ReportTyped ==
    ASSUME OutboxTypeOK, NEW e \in Entries, NEW w \in Works, Report(e, w)
    PROVE  /\ OutboxTypeOK' /\ (\A f \in Entries : RowStep(f))
           /\ HoldsEntry(e, w.attempts)
           /\ \A f \in Entries \ {e} : queue'[f] = queue[f]
           /\ \A f \in Entries : Marked(f)' => Marked(f) \/ (f = e /\ w.code = "none")
<1>1. w.now \in Nat
  BY DEF Works
<1>2. CASE w.code = "none" /\ Succeed(e, w.attempts, w.now)
  <2>1. OutboxTypeOK' /\ (\A f \in Entries : RowStep(f))
    BY <1>1, <1>2, SucceedTyped
  <2> QED
    BY <1>2, <2>1 DEF Succeed, Marked, OutboxTypeOK
<1>3. CASE w.code \in Codes /\ Bury(e, w.attempts, w.code, w.now)
  BY <1>1, <1>3, BuryTyped DEF Marked
<1>4. ASSUME NEW next \in Nat, Retry(e, w.attempts, w.code, next, w.now)
      PROVE  /\ OutboxTypeOK' /\ (\A f \in Entries : RowStep(f))
             /\ HoldsEntry(e, w.attempts)
             /\ \A f \in Entries \ {e} : queue'[f] = queue[f]
             /\ \A f \in Entries : Marked(f)' => Marked(f) \/ (f = e /\ w.code = "none")
  BY <1>1, <1>4, RetryTyped DEF Marked
<1> QED
  BY <1>2, <1>3, <1>4, ReportCases DEF FailOrBury

-----------------------------------------------------------------------------
\* What the handler's transaction does to the projection.
LEMMA ProjectSound ==
    ASSUME IInv, NEW e \in Entries, e.version <= written[e.aggregate], Project(e),
           UNCHANGED <<queue, dead, written>>
    PROVE  /\ OutboxTypeOK' /\ cursor' \in [Aggregates -> 0..MaxVersion]
           /\ EffectsSound' /\ Replayed(e)'
           /\ \A a \in Aggregates : cursor[a] <= cursor'[a]
           /\ \/ cursor' = cursor
              \/ \E a \in Aggregates :
                    /\ cursor[a] < written[a]
                    /\ cursor' = [cursor EXCEPT ![a] = @ + 1]
<1>1. /\ OutboxTypeOK /\ cursor \in [Aggregates -> 0..MaxVersion]
      /\ written \in [Aggregates -> 0..MaxVersion] /\ clock \in Nat
      /\ \A a \in Aggregates : cursor[a] <= written[a]
      /\ \A f \in Entries : Marked(f) => Replayed(f)
  BY DEF IInv, TypeOK, EffectsSound
<1>2. /\ e.version \in 1..MaxVersion /\ e.aggregate \in Aggregates
      /\ \A f \in Entries : f.version \in 1..MaxVersion /\ f.aggregate \in Aggregates
  BY DEF Entries
<1>3. MaxVersion \in Nat
  BY ConstantFacts
<1>4. ASSUME Mark(e, clock)
      PROVE  /\ marked' \in [Entries -> Nat \cup {Never}]
             /\ \A f \in Entries : Marked(f)' => Marked(f) \/ f = e
  BY <1>1, <1>4 DEF Mark, Marked, OutboxTypeOK
<1>5. CASE Marked(e) /\ UNCHANGED <<cursor, marked>>
  BY <1>1, <1>5 DEF OutboxTypeOK, EffectsSound, Marked, Replayed
<1>6. CASE Replayed(e) /\ Mark(e, clock) /\ UNCHANGED cursor
  BY <1>1, <1>4, <1>6 DEF OutboxTypeOK, EffectsSound, Replayed
<1>7. CASE /\ Follows(e) /\ Mark(e, clock)
           /\ cursor' = [cursor EXCEPT ![e.aggregate] = e.version]
  <2>1. cursor[e.aggregate] < written[e.aggregate] /\ e.version = cursor[e.aggregate] + 1
    BY <1>1, <1>2, <1>3, <1>7 DEF Follows
  <2>2. cursor' = [cursor EXCEPT ![e.aggregate] = @ + 1]
    BY <1>7, <2>1
  <2>3. \A a \in Aggregates : /\ cursor[a] <= cursor'[a]
                              /\ cursor'[a] <= written[a]
                              /\ cursor'[a] \in 0..MaxVersion
    BY <1>1, <1>2, <1>3, <1>7, <2>1
  <2>4. cursor' \in [Aggregates -> 0..MaxVersion]
    BY <1>1, <1>7, <1>2, <1>3
  <2>5. e.version <= cursor'[e.aggregate]
    BY <1>1, <1>2, <1>3, <1>7
  <2>6. ASSUME NEW f \in Entries, Marked(f)' PROVE f.version <= cursor'[f.aggregate]
    <3>1. CASE f = e
      BY <2>5, <3>1
    <3>2. CASE Marked(f)
      <4>1. f.version <= cursor[f.aggregate] /\ cursor[f.aggregate] <= cursor'[f.aggregate]
        BY <1>1, <1>2, <2>3, <3>2 DEF Replayed
      <4> QED
        BY <1>1, <1>2, <1>3, <2>3, <4>1
    <3> QED
      BY <1>4, <1>7, <2>6, <3>1, <3>2
  <2>7. EffectsSound' /\ Replayed(e)'
    BY <2>3, <2>5, <2>6 DEF EffectsSound, Replayed
  <2>8. OutboxTypeOK'
    BY <1>1, <1>4, <1>7 DEF OutboxTypeOK
  <2> QED
    BY <1>2, <2>1, <2>2, <2>3, <2>4, <2>7, <2>8
<1> QED
  BY <1>5, <1>6, <1>7 DEF Project

\* The work moves of a step: nothing, dropping an entry, taking it further.
LEMMA WorkUnchanged ==
    ASSUME IInv, work' = work
    PROVE  work' \in [Procs \X Entries -> Works] /\ WorkKept
BY DEF IInv, TypeOK, WorkKept

LEMMA WorkDropped ==
    ASSUME IInv, NEW p \in Procs, NEW e \in Entries, Drop(p, e)
    PROVE  /\ work' \in [Procs \X Entries -> Works] /\ WorkKept
           /\ \A q \in Procs, f \in Entries :
                 Work(q, f)'.pc # "idle" => Work(q, f)' = Work(q, f)
<1>1. work \in [Procs \X Entries -> Works]
  BY DEF IInv, TypeOK
<1>2. work' = [work EXCEPT ![<<p, e>>] = NoWork] /\ NoWork.pc = "idle"
  BY DEF Drop, NoWork
<1>3. \A q \in Procs, f \in Entries :
         Work(q, f)'.pc # "idle" => Work(q, f)' = Work(q, f)
  BY <1>1, <1>2
<1> QED
  BY <1>1, <1>2, <1>3, NoWorkIsWork DEF WorkKept

LEMMA WorkMoved ==
    ASSUME IInv, NEW p \in Procs, NEW e \in Entries, Work(p, e).pc # "idle",
           NEW code \in Codes \cup {"none"}, Conclude(p, e, code)
    PROVE  /\ work' \in [Procs \X Entries -> Works] /\ WorkKept
           /\ \A q \in Procs, f \in Entries :
                 Work(q, f)' = Work(q, f) \/ (q = p /\ f = e)
           /\ Work(p, e)'.code = code
<1>1. work \in [Procs \X Entries -> Works] /\ <<p, e>> \in Procs \X Entries
  BY DEF IInv, TypeOK
<1> DEFINE w == [Work(p, e) EXCEPT !.pc = "reporting", !.code = code]
<1>2. work' = [work EXCEPT ![<<p, e>>] = w]
  BY <1>1 DEF Conclude
<1>3. /\ w \in Works /\ w.pc = "reporting" /\ w.code = code
      /\ w.attempts = Work(p, e).attempts /\ w.now = Work(p, e).now
      /\ w.gapSince = Work(p, e).gapSince
  BY <1>1 DEF Works
<1> HIDE DEF w
<1>4. \A q \in Procs, f \in Entries :
         Work(q, f)' = IF q = p /\ f = e THEN w ELSE Work(q, f)
  BY <1>1, <1>2
<1> QED
  BY <1>1, <1>2, <1>3, <1>4 DEF WorkKept

LEMMA WorkBegun ==
    ASSUME IInv, NEW p \in Procs, NEW e \in Entries, Work(p, e).pc # "idle",
           work' = [work EXCEPT ![<<p, e>>].pc = "handling"]
    PROVE  /\ work' \in [Procs \X Entries -> Works] /\ WorkKept
           /\ \A q \in Procs, f \in Entries :
                 Work(q, f)' = Work(q, f) \/ Work(q, f)'.pc = "handling"
<1>1. work \in [Procs \X Entries -> Works] /\ <<p, e>> \in Procs \X Entries
  BY DEF IInv, TypeOK
<1> DEFINE w == [Work(p, e) EXCEPT !.pc = "handling"]
<1>2. work' = [work EXCEPT ![<<p, e>>] = w]
  BY <1>1
<1>3. /\ w \in Works /\ w.pc = "handling"
      /\ w.attempts = Work(p, e).attempts /\ w.now = Work(p, e).now
      /\ w.gapSince = Work(p, e).gapSince
  BY <1>1 DEF Works
<1> HIDE DEF w
<1>4. \A q \in Procs, f \in Entries :
         Work(q, f)' = IF q = p /\ f = e THEN w ELSE Work(q, f)
  BY <1>1, <1>2
<1> QED
  BY <1>1, <1>2, <1>3, <1>4 DEF WorkKept

\* What has taken effect stays so while cursors only grow.
LEMMA SucceededKept ==
    ASSUME IInv, cursor' \in [Aggregates -> 0..MaxVersion],
           \A a \in Aggregates : cursor[a] <= cursor'[a],
           \A p \in Procs, e \in Entries :
              \/ Work(p, e)' = Work(p, e)
              \/ Work(p, e)'.pc # "reporting"
              \/ Work(p, e)'.code # "none"
              \/ Replayed(e)'
    PROVE  SucceededReplayed'
<1> SUFFICES ASSUME NEW p \in Procs, NEW e \in Entries,
                    Work(p, e)'.pc = "reporting", Work(p, e)'.code = "none"
             PROVE  Replayed(e)'
  BY DEF SucceededReplayed
<1>1. CASE Work(p, e)' = Work(p, e)
  <2>1. e.version <= cursor[e.aggregate]
    BY <1>1 DEF IInv, WorkSound, Replayed
  <2>2. /\ e.version \in Int /\ e.aggregate \in Aggregates
        /\ cursor[e.aggregate] \in Int /\ cursor'[e.aggregate] \in Int
        /\ cursor[e.aggregate] <= cursor'[e.aggregate]
    BY ConstantFacts DEF IInv, TypeOK, Entries
  <2> QED
    BY <2>1, <2>2 DEF Replayed
<1> QED
  BY <1>1

\* The same, for a step that leaves the projection and the markers alone.
LEMMA EffectsKept ==
    ASSUME IInv, UNCHANGED <<cursor, written>>,
           \A e \in Entries : Marked(e)' => Marked(e) \/ Replayed(e)
    PROVE  EffectsSound'
BY DEF IInv, EffectsSound, Replayed

LEMMA RowsUnchanged == queue' = queue => \A e \in Entries : RowStep(e)
BY DEF RowStep

-----------------------------------------------------------------------------
\* One lemma per action: each keeps the invariant.
LEMMA WriteKeeps == ASSUME IInv, NEW a \in Aggregates, Write(a) PROVE IInv'
<1> DEFINE e == EntryOf(a, written[a] + 1)
<1>1. /\ written \in [Aggregates -> 0..MaxVersion] /\ written[a] < MaxVersion
      /\ written' = [written EXCEPT ![a] = @ + 1]
      /\ Enqueue(e, clock) /\ clock \in Nat /\ OutboxTypeOK
      /\ UNCHANGED <<marked, dead, clock, cursor, processVars>>
  BY DEF Write, IInv, TypeOK
<1>2. e \in Entries /\ e.version = written[a] + 1 /\ e.aggregate = a
  BY <1>1, ConstantFacts DEF EntryOf, Entries
<1>3. /\ written' \in [Aggregates -> 0..MaxVersion]
      /\ \A b \in Aggregates : written[b] <= written'[b]
      /\ \A b \in Aggregates : written[b] \in Int /\ written'[b] \in Int
      /\ written'[a] = written[a] + 1
  BY <1>1, ConstantFacts
<1>4. TypeOK'
  BY <1>1, <1>2, <1>3, EnqueueTyped DEF IInv, TypeOK, processVars
<1> HIDE DEF e
<1>5. \A f \in Entries : IF f = e THEN queue'[f].attempts = 0 /\ queue'[f].holder = 0
                                  ELSE queue'[f] = queue[f]
  BY <1>1, <1>2 DEF Enqueue, OutboxTypeOK, NoRow, Nobody
<1>6. \A f \in Entries : f.version \in Int /\ f.aggregate \in Aggregates
  BY ConstantFacts DEF Entries
<1>7. RowsSound'
  <2> SUFFICES ASSUME NEW f \in Entries
               PROVE  /\ Queued(f)' => f.version <= written'[f.aggregate]
                      /\ queue'[f].holder <= queue'[f].attempts
    BY DEF RowsSound
  <2>1. CASE f = e
    BY <1>2, <1>3, <1>5, <2>1
  <2>2. CASE f # e
    BY <1>3, <1>5, <1>6, <2>2 DEF IInv, RowsSound, Queued
  <2> QED
    BY <2>1, <2>2
<1>8. EffectsSound'
  <2>1. \A b \in Aggregates : cursor[b] \in Int /\ cursor[b] <= written[b]
    BY DEF IInv, TypeOK, EffectsSound
  <2> QED
    BY <1>1, <1>3, <2>1 DEF IInv, EffectsSound, Marked, Replayed
<1>9. ASSUME NEW p \in Procs, NEW f \in Entries PROVE WorkSound(p, f)'
  <2>1. work' = work /\ clock' = clock /\ cursor' = cursor
    BY <1>1 DEF processVars
  <2>2. Work(p, f).pc # "idle" => f.version <= written[f.aggregate] /\ f # e
    BY <1>2, <1>3 DEF IInv, WorkSound
  <2>3. Work(p, f).pc # "idle" => f.version <= written'[f.aggregate]
    BY <1>3, <1>6, <2>2
  <2> QED
    BY <1>5, <2>1, <2>2, <2>3 DEF IInv, WorkSound, HoldsEntry, Queued, Replayed
<1>10. Exclusive'
  BY <1>1 DEF IInv, Exclusive, processVars
<1> QED
  BY <1>4, <1>7, <1>8, <1>9, <1>10 DEF IInv

LEMMA ClaimBatchKeeps == ASSUME IInv, NEW p \in Procs, ClaimBatch(p) PROVE IInv'
<1>1. PICK batch \in Batches :
         /\ Claim(batch, clock, clock + Lease)
         /\ work' = [pe \in Procs \X Entries |->
                       IF pe[1] = p /\ pe[2] \in batch
                       THEN [pc |-> "waiting", now |-> clock,
                             attempts |-> queue[pe[2]].attempts + 1,
                             gapSince |-> queue[pe[2]].gapSince, code |-> "none"]
                       ELSE work[pe]]
  BY DEF ClaimBatch
<1>2. /\ OutboxTypeOK /\ clock \in Nat /\ work \in [Procs \X Entries -> Works]
      /\ UNCHANGED <<clock, written, cursor, outages, mode, marked, dead>>
      /\ \A f \in Entries : Work(p, f).pc = "idle"
  BY <1>1 DEF ClaimBatch, IInv, TypeOK, Claim, Between
<1>3. OutboxTypeOK' /\ (\A f \in Entries : RowStep(f))
  BY <1>1, <1>2, ClaimTyped, ConstantFacts
<1>4. \A q \in Procs, f \in Entries :
         Work(q, f)' = IF q = p /\ f \in batch
                       THEN [pc |-> "waiting", now |-> clock,
                             attempts |-> queue[f].attempts + 1,
                             gapSince |-> queue[f].gapSince, code |-> "none"]
                       ELSE Work(q, f)
  BY <1>1
<1>5. \A q \in Procs, f \in Entries : Work(q, f)' \in Works
  <2>1. ASSUME NEW f \in Entries
        PROVE  [pc |-> "waiting", now |-> clock, attempts |-> queue[f].attempts + 1,
                gapSince |-> queue[f].gapSince, code |-> "none"] \in Works
    <3>1. queue[f].attempts + 1 \in Nat /\ queue[f].gapSince \in Nat \cup {Never}
      BY <1>2, RowsTyped
    <3> QED
      BY <1>2, <3>1 DEF Works
  <2> QED
    BY <1>2, <1>4, <2>1
<1>6. TypeOK'
  <2>1. work' \in [Procs \X Entries -> Works]
    BY <1>1, <1>2, <1>5
  <2> QED
    BY <1>2, <1>3, <2>1 DEF IInv, TypeOK
<1>7. \A f \in batch : /\ Work(p, f)'.attempts = queue[f].attempts + 1
                        /\ Work(p, f)'.now = clock /\ Work(p, f)'.pc = "waiting"
                        /\ Work(p, f)'.gapSince = queue[f].gapSince
  <2> SUFFICES ASSUME NEW f \in batch
               PROVE  /\ Work(p, f)'.attempts = queue[f].attempts + 1
                      /\ Work(p, f)'.now = clock /\ Work(p, f)'.pc = "waiting"
                      /\ Work(p, f)'.gapSince = queue[f].gapSince
    OBVIOUS
  <2>1. f \in Entries
    BY DEF Batches
  <2>2. Work(p, f)' = [pc |-> "waiting", now |-> clock,
                       attempts |-> queue[f].attempts + 1,
                       gapSince |-> queue[f].gapSince, code |-> "none"]
    BY <1>4, <2>1
  <2> QED
    BY <2>2
<1>8. \A q \in Procs, f \in Entries :
          ~ (q = p /\ f \in batch) => Work(q, f)' = Work(q, f)
  BY <1>4
<1>9. \A f \in Entries : IF f \in batch
         THEN /\ Queued(f) /\ Queued(f)'
              /\ queue'[f].attempts = queue[f].attempts + 1
              /\ queue'[f].holder = queue[f].attempts + 1
              /\ queue'[f].gapSince = queue[f].gapSince
         ELSE queue'[f] = queue[f]
  <2> SUFFICES ASSUME NEW f \in Entries
               PROVE  IF f \in batch
                      THEN /\ Queued(f) /\ Queued(f)'
                           /\ queue'[f].attempts = queue[f].attempts + 1
                           /\ queue'[f].holder = queue[f].attempts + 1
                           /\ queue'[f].gapSince = queue[f].gapSince
                      ELSE queue'[f] = queue[f]
    OBVIOUS
  <2> DEFINE n == queue[f].attempts + 1
             row == [queue[f] EXCEPT !.attempts = n, !.expires = clock + Lease,
                                     !.holder = n]
  <2>1. queue'[f] = IF f \in batch THEN row ELSE queue[f]
    BY <1>1 DEF Claim
  <2>2. f \in batch => Queued(f)
    BY <1>1 DEF Claim, Claimable
  <2>3. queue[f] \in QueueRows
    BY <1>2, RowsTyped
  <2> HIDE DEF n
  <2>4. /\ row.holder = n /\ row.attempts = n
        /\ row.queued = queue[f].queued /\ row.gapSince = queue[f].gapSince
    BY <2>3 DEF QueueRows
  <2> HIDE DEF row
  <2>5. f \in batch => Queued(f)'
    BY <2>1, <2>2, <2>4 DEF Queued
  <2> QED
    BY <2>1, <2>2, <2>4, <2>5 DEF n
<1>10. \A f \in Entries : queue[f].attempts \in Nat /\ queue[f].holder \in Nat
  BY <1>2, RowsTyped
<1>11. RowsSound'
  BY <1>2, <1>9, <1>10 DEF IInv, RowsSound, Queued
<1>12. EffectsSound'
  BY <1>2, EffectsKept DEF Marked
<1>13. \A q \in Procs, f \in Entries : Work(q, f).attempts \in Nat
  BY <1>2 DEF Works
<1>14. ASSUME NEW q \in Procs, NEW f \in Entries PROVE WorkSound(q, f)'
  <2>1. CASE q = p /\ f \in batch
    <3>1. f.version <= written[f.aggregate]
      BY <1>9, <2>1 DEF IInv, RowsSound
    <3>2. /\ Work(p, f)'.attempts = queue[f].attempts + 1 /\ Work(p, f)'.now = clock
          /\ Work(p, f)'.gapSince = queue[f].gapSince /\ Work(p, f)'.pc = "waiting"
      BY <1>7, <2>1
    <3>3. /\ queue'[f].attempts = queue[f].attempts + 1
          /\ queue'[f].gapSince = queue[f].gapSince
      BY <1>9, <2>1
    <3>4. queue[f].attempts + 1 >= 1 /\ clock <= clock
      BY <1>2, <1>10
    <3>5. Queued(f)' => queue[f].attempts + 1 <= queue'[f].attempts
      BY <1>10, <3>3
    <3> QED
      BY <1>2, <2>1, <3>1, <3>2, <3>3, <3>4, <3>5 DEF WorkSound
  <2>2. CASE ~ (q = p /\ f \in batch)
    <3>1. Work(q, f)' = Work(q, f)
      BY <1>4, <2>2
    <3>2. Work(q, f).pc # "idle" =>
             /\ Work(q, f).attempts >= 1 /\ Work(q, f).now <= clock
             /\ f.version <= written[f.aggregate]
             /\ Queued(f) => Work(q, f).attempts <= queue[f].attempts
             /\ HoldsEntry(f, Work(q, f).attempts)
                   => Work(q, f).gapSince = queue[f].gapSince
             /\ Work(q, f).pc = "reporting" /\ Work(q, f).code = "none" => Replayed(f)
      BY DEF IInv, WorkSound
    <3>3. Work(q, f).pc # "idle" =>
             /\ Queued(f)' => Work(q, f).attempts <= queue'[f].attempts
             /\ Queued(f)' /\ queue'[f].holder = Work(q, f).attempts
                   => Work(q, f).gapSince = queue'[f].gapSince
      BY <1>9, <1>10, <1>13, <3>2 DEF HoldsEntry, Queued
    <3> QED
      BY <1>2, <3>1, <3>2, <3>3 DEF WorkSound, HoldsEntry, Queued, Replayed
  <2> QED
    BY <2>1, <2>2
<1>15. Exclusive'
  <2> SUFFICES ASSUME NEW q \in Procs, NEW r \in Procs, NEW f \in Entries, q # r,
                      Work(q, f)'.pc # "idle", Work(r, f)'.pc # "idle"
               PROVE  Work(q, f)'.attempts # Work(r, f)'.attempts
    BY DEF Exclusive
  <2>1. ASSUME NEW s \in Procs, Work(s, f).pc # "idle", f \in batch
        PROVE  Work(s, f).attempts # queue[f].attempts + 1
    BY <1>9, <1>10, <1>13, <2>1 DEF IInv, WorkSound
  <2>2. CASE q = p /\ f \in batch
    <3>1. /\ Work(q, f)'.attempts = queue[f].attempts + 1
          /\ Work(r, f)' = Work(r, f)
      BY <1>7, <1>8, <2>2
    <3> QED
      BY <2>1, <2>2, <3>1
  <2>3. CASE r = p /\ f \in batch
    <3>1. /\ Work(r, f)'.attempts = queue[f].attempts + 1
          /\ Work(q, f)' = Work(q, f)
      BY <1>7, <1>8, <2>3
    <3> QED
      BY <2>1, <2>3, <3>1
  <2>4. CASE ~ (q = p /\ f \in batch) /\ ~ (r = p /\ f \in batch)
    <3>1. Work(q, f)' = Work(q, f) /\ Work(r, f)' = Work(r, f)
      BY <1>8, <2>4
    <3> QED
      BY <3>1 DEF IInv, Exclusive
  <2> QED
    BY <2>2, <2>3, <2>4
<1> QED
  BY <1>6, <1>11, <1>12, <1>14, <1>15 DEF IInv

LEMMA ClaimLostKeeps == ASSUME IInv, NEW p \in Procs, ClaimLost(p) PROVE IInv'
<1>1. PICK batch \in Batches : Claim(batch, clock, clock + Lease)
  BY DEF ClaimLost
<1>2. /\ OutboxTypeOK /\ clock \in Nat
      /\ UNCHANGED <<clock, written, cursor, outages, mode, work, marked>>
  BY <1>1 DEF ClaimLost, Claim, IInv, TypeOK, processVars
<1>3. OutboxTypeOK' /\ (\A f \in Entries : RowStep(f))
  BY <1>1, <1>2, ClaimTyped, ConstantFacts
<1>4. TypeOK' /\ WorkKept
  BY <1>2, <1>3, WorkUnchanged DEF IInv, TypeOK
<1>5. EffectsSound' /\ SucceededReplayed'
  BY <1>2, EffectsKept, SucceededKept DEF Marked, IInv, TypeOK
<1> QED
  BY <1>2, <1>3, <1>4, <1>5, KeepsInv

LEMMA BeginKeeps ==
    ASSUME IInv, NEW p \in Procs, NEW e \in Entries, Begin(p, e) PROVE IInv'
<1>1. /\ Work(p, e).pc # "idle" /\ clock \in Nat
      /\ work' = [work EXCEPT ![<<p, e>>].pc = "handling"]
      /\ UNCHANGED <<outboxVars, clock, written, cursor, outages, mode>>
  BY DEF Begin, IInv, TypeOK
<1>2. /\ work' \in [Procs \X Entries -> Works] /\ WorkKept
      /\ \A q \in Procs, f \in Entries :
            Work(q, f)' = Work(q, f) \/ Work(q, f)'.pc = "handling"
  BY <1>1, WorkBegun
<1>3. TypeOK'
  BY <1>1, <1>2 DEF IInv, TypeOK, outboxVars, OutboxTypeOK
<1>4. EffectsSound' /\ SucceededReplayed'
  <2>1. EffectsSound'
    BY <1>1, EffectsKept DEF Marked, outboxVars
  <2>2. cursor' = cursor /\ cursor \in [Aggregates -> 0..MaxVersion]
    BY <1>1 DEF IInv, TypeOK
  <2> QED
    BY <1>2, <2>1, <2>2, SucceededKept
<1> QED
  BY <1>1, <1>2, <1>3, <1>4, RowsUnchanged, KeepsInv DEF outboxVars

\* A handler's outcome: whatever it did to the projection, the entry is then to
\* be reported, as a success only if its version has taken effect.
LEMMA OutcomeKeeps ==
    ASSUME IInv, NEW p \in Procs, NEW e \in Entries, Work(p, e).pc # "idle",
           NEW code \in Codes \cup {"none"}, Conclude(p, e, code),
           UNCHANGED <<queue, clock, written, outages, mode>>,
           OutboxTypeOK', cursor' \in [Aggregates -> 0..MaxVersion],
           \A a \in Aggregates : cursor[a] <= cursor'[a],
           EffectsSound', code = "none" => Replayed(e)'
    PROVE  IInv'
<1>1. /\ work' \in [Procs \X Entries -> Works] /\ WorkKept
      /\ \A q \in Procs, f \in Entries :
            Work(q, f)' = Work(q, f) \/ (q = p /\ f = e)
      /\ Work(p, e)'.code = code
  BY WorkMoved
<1>2. SucceededReplayed'
  BY <1>1, SucceededKept
<1>3. TypeOK' /\ clock \in Nat
  BY <1>1 DEF IInv, TypeOK
<1> QED
  BY <1>1, <1>2, <1>3, RowsUnchanged, KeepsInv

LEMMA HandlerKeeps ==
    ASSUME IInv, NEW p \in Procs, NEW e \in Entries, HandlerStep(p, e) PROVE IInv'
<1>1. /\ Work(p, e).pc # "idle" /\ e.version <= written[e.aggregate]
      /\ OutboxTypeOK /\ cursor \in [Aggregates -> 0..MaxVersion]
      /\ EffectsSound
  BY DEF HandlerStep, HandlerSucceeds, HandlerFindsGap, HandlerRejects, HandlerFails,
         Handling, IInv, TypeOK, WorkSound
<1>2. \A a \in Aggregates : cursor[a] <= cursor[a]
  BY <1>1, ConstantFacts
<1>3. CASE HandlerSucceeds(p, e)
  <2>1. Project(e) /\ Conclude(p, e, "none")
        /\ UNCHANGED <<queue, dead, clock, written, outages, mode>>
    BY <1>3 DEF HandlerSucceeds
  <2>2. /\ OutboxTypeOK' /\ cursor' \in [Aggregates -> 0..MaxVersion]
        /\ EffectsSound' /\ Replayed(e)'
        /\ \A a \in Aggregates : cursor[a] <= cursor'[a]
    BY <1>1, <2>1, ProjectSound
  <2> QED
    BY <1>1, <2>1, <2>2, OutcomeKeeps
<1>4. ASSUME NEW code \in Codes, Conclude(p, e, code),
             UNCHANGED <<outboxVars, clock, written, cursor, outages, mode>>
      PROVE  IInv'
  <2>1. OutboxTypeOK' /\ EffectsSound' /\ code # "none"
    BY <1>1, <1>4 DEF outboxVars, OutboxTypeOK, EffectsSound, Marked, Replayed, Codes
  <2> QED
    BY <1>1, <1>2, <1>4, <2>1, OutcomeKeeps DEF outboxVars
<1>5. CASE HandlerFindsGap(p, e)
  BY <1>4, <1>5 DEF HandlerFindsGap, Codes
<1>6. CASE HandlerRejects(p, e)
  BY <1>4, <1>6 DEF HandlerRejects, Codes
<1>7. CASE HandlerFails(p, e)
  <2>1. /\ Conclude(p, e, "failed")
        /\ UNCHANGED <<queue, dead, clock, written, outages, mode>>
        /\ Project(e) \/ UNCHANGED <<cursor, marked>>
    BY <1>7 DEF HandlerFails
  <2>2. CASE Project(e)
    <3>1. /\ OutboxTypeOK' /\ cursor' \in [Aggregates -> 0..MaxVersion]
          /\ EffectsSound'
          /\ \A a \in Aggregates : cursor[a] <= cursor'[a]
      BY <1>1, <2>1, <2>2, ProjectSound
    <3> QED
      BY <1>1, <2>1, <3>1, OutcomeKeeps DEF Codes
  <2>3. CASE UNCHANGED <<cursor, marked>>
    BY <1>4, <2>1, <2>3 DEF Codes, outboxVars
  <2> QED
    BY <2>1, <2>2, <2>3
<1> QED
  BY <1>3, <1>5, <1>6, <1>7 DEF HandlerStep

\* Reporting, whatever the answer, drops the entry.
LEMMA ReportKeeps ==
    ASSUME IInv, NEW p \in Procs, NEW e \in Entries, Reporting(p, e), Drop(p, e),
           Report(e, Work(p, e)) \/ UNCHANGED outboxVars,
           UNCHANGED <<clock, written, cursor, outages, mode>>
    PROVE  IInv'
<1>1. /\ OutboxTypeOK /\ Work(p, e) \in Works /\ clock \in Nat
      /\ cursor \in [Aggregates -> 0..MaxVersion]
      /\ Work(p, e).code = "none" => Replayed(e)
  BY DEF IInv, TypeOK, WorkSound, Reporting
<1>2. /\ OutboxTypeOK' /\ (\A f \in Entries : RowStep(f))
      /\ \A f \in Entries : Marked(f)' => Marked(f) \/ Replayed(f)
  <2>1. CASE Report(e, Work(p, e))
    BY <1>1, <2>1, ReportTyped
  <2>2. CASE UNCHANGED outboxVars
    BY <1>1, <2>2, RowsUnchanged DEF outboxVars, OutboxTypeOK, Marked
  <2> QED
    BY <2>1, <2>2
<1>3. /\ work' \in [Procs \X Entries -> Works] /\ WorkKept
      /\ \A q \in Procs, f \in Entries :
            Work(q, f)'.pc # "idle" => Work(q, f)' = Work(q, f)
  BY WorkDropped
<1>4. EffectsSound'
  BY <1>2, EffectsKept
<1>5. SucceededReplayed'
  <2>1. \A a \in Aggregates : cursor[a] <= cursor'[a]
    BY <1>1, ConstantFacts
  <2>2. \A q \in Procs, f \in Entries :
           Work(q, f)' = Work(q, f) \/ Work(q, f)'.pc # "reporting"
    BY <1>3
  <2> QED
    BY <1>1, <2>1, <2>2, SucceededKept
<1>6. TypeOK'
  BY <1>2, <1>3 DEF IInv, TypeOK
<1> QED
  BY <1>1, <1>2, <1>3, <1>4, <1>5, <1>6, KeepsInv

LEMMA WorkStepKeeps ==
    ASSUME IInv, NEW p \in Procs, NEW e \in Entries, WorkStep(p, e) PROVE IInv'
<1>1. CASE Begin(p, e)
  BY <1>1, BeginKeeps
<1>2. CASE HandlerStep(p, e)
  BY <1>2, HandlerKeeps
<1>3. CASE ReportRecorded(p, e)
  BY <1>3, ReportKeeps DEF ReportRecorded
<1>4. CASE ReportLost(p, e)
  BY <1>4, ReportKeeps DEF ReportLost
<1>5. CASE ReportFails(p, e)
  BY <1>5, ReportKeeps DEF ReportFails
<1> QED
  BY <1>1, <1>2, <1>3, <1>4, <1>5 DEF WorkStep

\* The steps that touch neither the store nor the projection, but for cleanup.
LEMMA QuietKeeps ==
    ASSUME IInv, TypeOK', WorkKept, UNCHANGED <<queue, written, cursor>>,
           clock' >= clock, \A e \in Entries : Marked(e)' => Marked(e),
           \A p \in Procs, e \in Entries :
              Work(p, e)' = Work(p, e) \/ Work(p, e)'.pc # "reporting"
    PROVE  IInv'
<1>1. EffectsSound'
  BY EffectsKept
<1>2. SucceededReplayed'
  <2>1. /\ cursor' \in [Aggregates -> 0..MaxVersion]
        /\ \A a \in Aggregates : cursor[a] <= cursor'[a]
    BY ConstantFacts DEF IInv, TypeOK
  <2> QED
    BY <2>1, SucceededKept
<1> QED
  BY <1>1, <1>2, RowsUnchanged, KeepsInv

LEMMA CleanupKeeps == ASSUME IInv, NEW p \in Procs, CleanupMarkers(p) PROVE IInv'
<1>1. /\ Cleanup(clock - Retention) /\ OutboxTypeOK /\ clock \in Nat
      /\ UNCHANGED <<clock, written, cursor, outages, mode, work>>
  BY DEF CleanupMarkers, processVars, IInv, TypeOK
<1>2. /\ OutboxTypeOK' /\ queue' = queue
      /\ \A e \in Entries : Marked(e)' => Marked(e)
  BY <1>1, CleanupTyped
<1>3. TypeOK' /\ WorkKept
  BY <1>1, <1>2, WorkUnchanged DEF IInv, TypeOK
<1> QED
  BY <1>1, <1>2, <1>3, QuietKeeps

LEMMA ProcessKeeps == ASSUME IInv, NEW p \in Procs, ProcessStep(p) PROVE IInv'
<1>1. /\ UNCHANGED <<outboxVars, clock, written, cursor>>
      /\ clock \in Nat /\ OutboxTypeOK'
      /\ \A e \in Entries : Marked(e)' => Marked(e)
  BY DEF ProcessStep, Crash, Shutdown, Exit, Restart, outboxVars, IInv, TypeOK,
         OutboxTypeOK, Marked
<1>2. mode' \in [Procs -> {"up", "stopping", "down"}] /\ outages' \in Nat
  BY DEF ProcessStep, Crash, Shutdown, Exit, Restart, IInv, TypeOK
<1>3. /\ work' \in [Procs \X Entries -> Works]
      /\ \A q \in Procs, e \in Entries :
            Work(q, e)' = Work(q, e) \/ Work(q, e)'.pc = "idle"
  <2>1. CASE Crash(p)
    BY <2>1, NoWorkIsWork DEF Crash, IInv, TypeOK, NoWork
  <2>2. CASE UNCHANGED work
    BY <2>2 DEF IInv, TypeOK
  <2> QED
    BY <2>1, <2>2 DEF ProcessStep, Shutdown, Exit, Restart
<1>4. TypeOK' /\ WorkKept
  BY <1>1, <1>2, <1>3 DEF IInv, TypeOK, WorkKept
<1> QED
  BY <1>1, <1>3, <1>4, QuietKeeps DEF outboxVars

LEMMA AdvanceKeeps == ASSUME IInv, Advance PROVE IInv'
<1>1. /\ clock \in Nat /\ clock' = clock + 1 /\ OutboxTypeOK'
      /\ UNCHANGED <<outboxVars, written, cursor, outages, mode, work>>
      /\ \A e \in Entries : Marked(e)' => Marked(e)
  BY DEF Advance, processVars, outboxVars, IInv, TypeOK, OutboxTypeOK, Marked
<1>2. TypeOK' /\ WorkKept
  BY <1>1, WorkUnchanged DEF IInv, TypeOK
<1> QED
  BY <1>1, <1>2, QuietKeeps DEF outboxVars

-----------------------------------------------------------------------------
LEMMA InitIInv == Init => IInv
<1> SUFFICES ASSUME Init PROVE IInv
  OBVIOUS
<1>1. /\ queue = [e \in Entries |-> NoRow] /\ marked = [e \in Entries |-> Never]
      /\ dead = [e \in Entries |-> NotDead] /\ clock = 0 /\ outages = 0
      /\ written = [a \in Aggregates |-> 0] /\ cursor = [a \in Aggregates |-> 0]
      /\ mode = [p \in Procs |-> "up"]
      /\ work = [pe \in Procs \X Entries |-> NoWork]
  BY DEF Init, OutboxInit
<1>2. OutboxTypeOK
  <2>1. NotDead \in [at : Nat \cup {Never}, code : Codes \cup {"none"}]
    BY DEF NotDead
  <2>2. queue \in [Entries -> QueueRows]
        /\ \A e \in Entries : queue[e].holder = Nobody <=> queue[e].expires = 0
    BY <1>1, NoRowIsRow DEF NoRow, Nobody
  <2> QED
    BY <1>1, <2>1, <2>2 DEF OutboxTypeOK
<1>3. TypeOK
  BY <1>1, <1>2, NoWorkIsWork, ConstantFacts DEF TypeOK
<1>4. RowsSound /\ EffectsSound
  BY <1>1 DEF RowsSound, EffectsSound, NoRow, Queued, Marked, Nobody
<1>5. \A p \in Procs, e \in Entries : Work(p, e).pc = "idle"
  BY <1>1 DEF NoWork
<1> QED
  BY <1>3, <1>4, <1>5 DEF IInv, WorkSound, Exclusive

LEMMA UnchangedKeeps == ASSUME IInv, UNCHANGED vars PROVE IInv'
BY DEF vars, outboxVars, processVars, IInv, TypeOK, OutboxTypeOK, RowsSound,
       EffectsSound, WorkSound, Exclusive, Queued, Marked, Replayed, HoldsEntry

LEMMA NextKeeps == IInv /\ [Next]_vars => IInv'
<1> SUFFICES ASSUME IInv, [Next]_vars PROVE IInv'
  OBVIOUS
<1>1. ASSUME NEW a \in Aggregates, Write(a) PROVE IInv'
  BY <1>1, WriteKeeps
<1>2. ASSUME NEW p \in Procs,
             ClaimBatch(p) \/ ClaimLost(p) \/ CleanupMarkers(p) \/ ProcessStep(p)
      PROVE  IInv'
  BY <1>2, ClaimBatchKeeps, ClaimLostKeeps, CleanupKeeps, ProcessKeeps
<1>3. ASSUME NEW p \in Procs, NEW e \in Entries, WorkStep(p, e) PROVE IInv'
  BY <1>3, WorkStepKeeps
<1>4. CASE Advance
  BY <1>4, AdvanceKeeps
<1>5. CASE UNCHANGED vars
  BY <1>5, UnchangedKeeps
<1> QED
  BY <1>1, <1>2, <1>3, <1>4, <1>5 DEF Next, Step

\* What holds of every reachable state: the types, that only written versions
\* are queued or take effect, that markers and successes tell of versions that
\* took effect, and that no two dispatchers hold one entry under one token.
THEOREM OutboxInvariant == Spec => []IInv
BY InitIInv, NextKeeps, PTL DEF Spec

\* Every reachable state is well typed; a row has a holder exactly when it has an
\* expiry, which the schema's check demands of internal/postgres/outbox.go.
THEOREM OutboxTypes == Spec => []TypeOK
<1>1. IInv => TypeOK
  BY DEF IInv
<1> QED
  BY <1>1, OutboxInvariant, PTL

-----------------------------------------------------------------------------
\* How a single step treats the projection: nothing, one write or one version.
LEMMA ProjectionStep == IInv /\ [Next]_vars => [InOrder!Next]_<<written, cursor>>
<1> SUFFICES ASSUME IInv, [Next]_vars
             PROVE  InOrder!Next \/ UNCHANGED <<written, cursor>>
  OBVIOUS
<1>1. ASSUME NEW a \in Aggregates, Write(a) PROVE InOrder!Next
  BY <1>1 DEF Write, InOrder!Next, InOrder!Publish
<1>2. ASSUME NEW p \in Procs, NEW e \in Entries, Project(e), HandlerStep(p, e),
             UNCHANGED <<queue, dead, written>>
      PROVE  InOrder!Next \/ UNCHANGED <<written, cursor>>
  <2>1. e.version <= written[e.aggregate]
    BY <1>2 DEF HandlerStep, HandlerSucceeds, HandlerFindsGap, HandlerRejects,
                HandlerFails, Handling, IInv, WorkSound
  <2> QED
    BY <1>2, <2>1, ProjectSound DEF InOrder!Next, InOrder!Apply
<1>3. ASSUME NEW p \in Procs, NEW e \in Entries, HandlerStep(p, e)
      PROVE  InOrder!Next \/ UNCHANGED <<written, cursor>>
  BY <1>2, <1>3 DEF HandlerStep, HandlerSucceeds, HandlerFindsGap, HandlerRejects,
                    HandlerFails
<1>4. ASSUME NEW p \in Procs, NEW e \in Entries, WorkStep(p, e)
      PROVE  InOrder!Next \/ UNCHANGED <<written, cursor>>
  BY <1>3, <1>4 DEF WorkStep, Begin, ReportRecorded, ReportLost, ReportFails
<1>5. ASSUME NEW p \in Procs,
             ClaimBatch(p) \/ ClaimLost(p) \/ CleanupMarkers(p) \/ ProcessStep(p)
      PROVE  UNCHANGED <<written, cursor>>
  BY <1>5 DEF ClaimBatch, ClaimLost, CleanupMarkers, ProcessStep, Crash, Shutdown,
              Exit, Restart
<1>6. CASE Advance \/ UNCHANGED vars
  BY <1>6 DEF Advance, vars
<1> QED
  BY <1>1, <1>4, <1>5, <1>6 DEF Next, Step

\* Whatever dispatchers crash, stall, repeat or forget, the versions of every
\* aggregate take effect one at a time and in order: the outbox implements the
\* ordered projection of internal/postgres/incident.go's cursor.
THEOREM OutboxProjectsInOrder == Spec => ProjectsInOrder
<1>1. Init => InOrder!Init
  BY DEF Init, InOrder!Init
<1> QED
  BY <1>1, OutboxInvariant, ProjectionStep, PTL DEF Spec, ProjectsInOrder, InOrder!Spec

-----------------------------------------------------------------------------
\* A dispatcher's report reaches the store and leaves the dispatcher's hands.
ReportStep(p, e) ==
    /\ Reporting(p, e)
    /\ Report(e, Work(p, e))
    /\ Drop(p, e)
    /\ UNCHANGED cursor

\* How a single step treats one entry: its row moves by a write, a claim or a
\* report, and it dies by a report.
EntryStep(e) ==
    \/ queue'[e] = queue[e]
    \/ ~ Queued(e) /\ Queued(e)'
    \/ Claimable(e, clock) /\ Queued(e)'
    \/ \E p \in Procs : ReportStep(p, e)

DeathStep(e) ==
    ~ Dead(e) /\ Dead(e)' => \E p \in Procs : ReportStep(p, e)

LEMMA ClaimEntryStep ==
    ASSUME IInv, NEW batch, Claim(batch, clock, clock + Lease), NEW e \in Entries
    PROVE  EntryStep(e) /\ DeathStep(e)
<1>1. CASE e \in batch
  <2>1. Claimable(e, clock) /\ queue[e].queued
    BY <1>1 DEF Claim, Claimable, Queued
  <2>2. OutboxTypeOK
    BY DEF IInv, TypeOK
  <2>3. RowStep(e)
    BY <2>2, ClaimTyped, ConstantFacts DEF IInv, TypeOK
  <2> DEFINE n == queue[e].attempts + 1
             row == [queue[e] EXCEPT !.attempts = n, !.expires = clock + Lease,
                                     !.holder = n]
  <2>4. queue'[e] = row
    BY <1>1 DEF Claim
  <2>5. queue[e] \in QueueRows
    BY <2>2, RowsTyped
  <2> HIDE DEF n
  <2>6. row.queued = queue[e].queued
    BY <2>5 DEF QueueRows
  <2> HIDE DEF row
  <2>7. Queued(e)'
    BY <2>1, <2>4, <2>6 DEF Queued
  <2> QED
    BY <2>1, <2>7 DEF EntryStep, DeathStep, Claim, Dead
<1>2. CASE e \notin batch
  BY <1>2 DEF Claim, EntryStep, DeathStep, Dead
<1> QED
  BY <1>1, <1>2

LEMMA EveryEntryStep ==
    ASSUME IInv, [Next]_vars, NEW e \in Entries
    PROVE  EntryStep(e) /\ DeathStep(e)
<1>1. OutboxTypeOK
  BY DEF IInv, TypeOK
<1>2. CASE UNCHANGED <<queue, dead>>
  BY <1>2 DEF EntryStep, DeathStep, Dead
<1>3. ASSUME NEW a \in Aggregates, Write(a) PROVE EntryStep(e) /\ DeathStep(e)
  <2> DEFINE f == EntryOf(a, written[a] + 1)
  <2>1. Enqueue(f, clock) /\ UNCHANGED dead
    BY <1>3 DEF Write
  <2>2. ~ Queued(f) /\ f \in Entries
    <3>1. written[a] \in 0..MaxVersion /\ written[a] < MaxVersion
      BY <1>3 DEF IInv, TypeOK, Write
    <3>2. f \in Entries /\ f.version = written[a] + 1 /\ f.aggregate = a
      BY <3>1, ConstantFacts DEF EntryOf, Entries
    <3> QED
      BY <3>1, <3>2 DEF IInv, RowsSound
  <2> HIDE DEF f
  <2>3. CASE e = f
    <3> DEFINE row == [NoRow EXCEPT !.queued = TRUE, !.available = clock]
    <3>1. queue'[e] = row
      BY <1>1, <2>1, <2>3 DEF Enqueue, OutboxTypeOK
    <3>2. row.queued
      BY DEF NoRow
    <3> HIDE DEF row
    <3> QED
      BY <2>1, <2>2, <2>3, <3>1, <3>2 DEF EntryStep, DeathStep, Queued, Dead
  <2>4. CASE e # f
    BY <1>1, <2>1, <2>4 DEF Enqueue, OutboxTypeOK, EntryStep, DeathStep, Dead
  <2> QED
    BY <2>3, <2>4
<1>4. ASSUME NEW p \in Procs, ClaimBatch(p) \/ ClaimLost(p)
      PROVE  EntryStep(e) /\ DeathStep(e)
  BY <1>4, ClaimEntryStep DEF ClaimBatch, ClaimLost
<1>5. ASSUME NEW p \in Procs, CleanupMarkers(p) PROVE EntryStep(e) /\ DeathStep(e)
  <2>1. queue' = queue
    BY <1>5 DEF CleanupMarkers, Cleanup, LiveRowsStay
  <2>2. Dead(e)' => Dead(e)
    BY <1>1, <1>5 DEF CleanupMarkers, Cleanup, Dead, NotDead, OutboxTypeOK
  <2> QED
    BY <2>1, <2>2 DEF EntryStep, DeathStep
<1>6. ASSUME NEW p \in Procs, NEW f \in Entries, WorkStep(p, f),
             ~ UNCHANGED <<queue, dead>>
      PROVE  EntryStep(e) /\ DeathStep(e)
  <2>1. ReportStep(p, f)
    BY <1>6 DEF WorkStep, Begin, HandlerStep, HandlerSucceeds, HandlerFindsGap,
                HandlerRejects, HandlerFails, ReportRecorded, ReportLost, ReportFails,
                ReportStep, outboxVars
  <2>2. Work(p, f) \in Works
    BY DEF IInv, TypeOK
  <2>3. CASE e = f
    BY <2>1, <2>3 DEF EntryStep, DeathStep
  <2>4. CASE e # f
    <3>1. queue'[e] = queue[e]
      BY <1>1, <2>1, <2>2, <2>4, ReportTyped DEF ReportStep
    <3>2. dead'[e] = dead[e]
      BY <1>1, <2>1, <2>2, <2>4, ReportCases
         DEF ReportStep, FailOrBury, Succeed, Retry, Bury, OutboxTypeOK
    <3> QED
      BY <3>1, <3>2 DEF EntryStep, DeathStep, Dead
  <2> QED
    BY <2>3, <2>4
<1>7. ASSUME NEW p \in Procs, ProcessStep(p) PROVE UNCHANGED <<queue, dead>>
  BY <1>7 DEF ProcessStep, Crash, Shutdown, Exit, Restart, outboxVars
<1>8. CASE Advance \/ UNCHANGED vars
  BY <1>2, <1>8 DEF Advance, vars, outboxVars
<1> QED
  BY <1>2, <1>3, <1>4, <1>5, <1>6, <1>7, <1>8 DEF Next, Step

-----------------------------------------------------------------------------
LEMMA EntryNeverLost ==
    ASSUME IInv, [Next]_vars, NEW e \in Entries, Queued(e), ~ Queued(e)'
    PROVE  Replayed(e)' \/ Dead(e)'
<1>1. OutboxTypeOK
  BY DEF IInv, TypeOK
<1>2. PICK p \in Procs : ReportStep(p, e)
  BY EveryEntryStep DEF EntryStep, Queued
<1>3. Work(p, e) \in Works
  BY DEF IInv, TypeOK
<1>4. CASE Work(p, e).code = "none"
  BY <1>2, <1>4 DEF IInv, WorkSound, ReportStep, Reporting, Replayed
<1>5. ASSUME NEW code, NEW holder, NEW now \in Nat, Bury(e, holder, code, now)
      PROVE  Dead(e)'
  BY <1>1, <1>5 DEF Bury, Dead, OutboxTypeOK, Never
<1>6. ASSUME NEW holder, NEW code, NEW next, NEW now, Retry(e, holder, code, next, now)
      PROVE  Queued(e)'
  <2> DEFINE row == [Released(queue[e]) EXCEPT !.available = next,
                                               !.gapSince = GapSeen(e, code, now)]
  <2>1. queue'[e] = row /\ queue[e].queued /\ queue[e] \in QueueRows
    BY <1>1, <1>6 DEF Retry, HoldsEntry, Queued, OutboxTypeOK
  <2>2. row.queued = queue[e].queued
    BY <2>1 DEF Released, QueueRows
  <2> HIDE DEF row
  <2> QED
    BY <2>1, <2>2 DEF Queued
<1>7. Work(p, e).now \in Nat
  BY <1>3 DEF Works
<1> QED
  BY <1>2, <1>3, <1>4, <1>5, <1>6, <1>7, ReportCases DEF ReportStep, FailOrBury

\* An entry leaves the queue only when its version has taken effect or it is kept
\* as a dead letter: neither cleanup nor a late report of a stalled dispatcher
\* loses one.
THEOREM OutboxLosesNothing == Spec => NothingVanishes
<1>1. IInv /\ [Next]_vars
         => [\A e \in Entries : Queued(e) /\ ~ Queued(e)' => Replayed(e)' \/ Dead(e)']_vars
  BY EntryNeverLost
<1> QED
  BY <1>1, OutboxInvariant, PTL DEF Spec, NothingVanishes

-----------------------------------------------------------------------------
\* Only the holder moves a row under an unexpired lease.
LEMMA HeldRowStays ==
    ASSUME IInv, [Next]_vars, NEW p \in Procs, NEW e \in Entries, Held(p, e),
           Work(p, e)' = Work(p, e)
    PROVE  queue'[e] = queue[e]
<1>1. /\ Queued(e) /\ queue[e].holder = Work(p, e).attempts
      /\ Work(p, e).attempts \in Nat /\ Work(p, e).attempts >= 1
      /\ clock \in Nat /\ queue[e].expires \in Nat /\ clock < queue[e].expires
  BY RowsTyped DEF Held, HoldsEntry, IInv, TypeOK, WorkSound, Works
<1>2. ~ Claimable(e, clock)
  BY <1>1 DEF Claimable, Nobody
<1>3. ASSUME NEW q \in Procs, ReportStep(q, e) PROVE FALSE
  <2>1. Work(q, e) \in Works /\ OutboxTypeOK
    BY DEF IInv, TypeOK
  <2>2. queue[e].holder = Work(q, e).attempts
    BY <1>3, <2>1, ReportTyped DEF ReportStep, HoldsEntry
  <2>3. q = p
    BY <1>1, <1>3, <2>2 DEF IInv, Exclusive, ReportStep, Reporting, Held
  <2>4. Work(q, e)'.pc = "idle"
    BY <1>3 DEF ReportStep, Drop, NoWork, IInv, TypeOK
  <2> QED
    BY <2>3, <2>4 DEF Held
<1> QED
  BY <1>1, <1>2, <1>3, EveryEntryStep DEF EntryStep

\* Until the lease it took expires, an entry's row is the dispatcher's own: no
\* claim, report or cleanup of another process touches it.
THEOREM OutboxLeaseProtects == Spec => LeaseProtects
<1>1. IInv /\ [Next]_vars
         => [\A p \in Procs, e \in Entries :
                Held(p, e) /\ Work(p, e)' = Work(p, e) => queue'[e] = queue[e]]_vars
  BY HeldRowStays
<1> QED
  BY <1>1, OutboxInvariant, PTL DEF Spec, LeaseProtects

-----------------------------------------------------------------------------
\* A death by gap is a patient one.
LEMMA GapDeathIsPatient ==
    ASSUME IInv, [Next]_vars, NEW e \in Entries, ~ Dead(e), Dead(e)',
           dead'[e].code = "gap"
    PROVE  queue[e].gapSince # Never /\ clock >= queue[e].gapSince + GapTimeout
<1>1. OutboxTypeOK
  BY DEF IInv, TypeOK
<1>2. PICK p \in Procs : ReportStep(p, e)
  BY EveryEntryStep DEF DeathStep
<1> DEFINE w == Work(p, e)
<1>3. /\ w \in Works /\ w.now \in Nat /\ w.now <= clock /\ clock \in Nat
      /\ w.gapSince \in Nat \cup {Never}
  BY <1>2 DEF IInv, TypeOK, WorkSound, Works, ReportStep, Reporting
<1>4. HoldsEntry(e, w.attempts)
  BY <1>1, <1>2, <1>3, ReportTyped DEF ReportStep
<1>5. w.gapSince = queue[e].gapSince
  BY <1>2, <1>4 DEF IInv, WorkSound, ReportStep, Reporting
<1>6. dead' # dead
  BY DEF Dead
<1>7. GivesUp(w) /\ Bury(e, w.attempts, w.code, w.now)
  <2>1. ~ Succeed(e, w.attempts, w.now)
    BY <1>6 DEF Succeed
  <2>2. \A next : ~ Retry(e, w.attempts, w.code, next, w.now)
    BY <1>6 DEF Retry
  <2> QED
    BY <1>2, <1>3, <2>1, <2>2, ReportCases DEF ReportStep, FailOrBury
<1>8. w.code = "gap"
  BY <1>1, <1>7 DEF Bury, OutboxTypeOK
<1> HIDE DEF w
<1>9. w.now >= GapEnds(w)
  BY <1>7, <1>8 DEF GivesUp
<1> QED
  BY <1>3, <1>5, <1>9, ConstantFacts DEF GapEnds, Never

\* An entry is given up for a gap only GapTimeout after the gap was first seen,
\* whatever dispatchers saw it and however often.
THEOREM OutboxGapPatience == Spec => GapPatience
<1>1. IInv /\ [Next]_vars
         => [\A e \in Entries : ~ Dead(e) /\ Dead(e)' /\ dead'[e].code = "gap" =>
                /\ queue[e].gapSince # Never
                /\ clock >= queue[e].gapSince + GapTimeout]_vars
  BY GapDeathIsPatient
<1> QED
  BY <1>1, OutboxInvariant, PTL DEF Spec, GapPatience

-----------------------------------------------------------------------------
(* Gaps and time.  In a fleet that keeps up, and whose store answers, a gap *)
(* is decided when its time is over.                                        *)

StoreAnswers == "store" \notin Events

\* When an entry's gap is given up, and what outages may add to that.
GapLimit(e) == queue[e].gapSince + GapTimeout
Slack == outages * Lease

InGap(e) == Queued(e) /\ queue[e].gapSince # Never

\* The entry is with the dispatcher that holds its lease.
InHand(e) ==
    \E p \in Procs : Work(p, e).pc # "idle" /\ HoldsEntry(e, Work(p, e).attempts)

Stopping == \E p \in Procs : mode[p] = "stopping"

\* Work in hand was claimed at this instant.
WorkTimely(p, e) == Work(p, e).pc # "idle" =>
    /\ Work(p, e).now = clock
    /\ HoldsEntry(e, Work(p, e).attempts) => queue[e].expires = clock + Lease

\* A gap's next attempt comes before its time is over, unless an outage left the
\* entry under a lease; a process that stops has its outage counted already.
EntryTimely(e) == InGap(e) =>
    /\ clock <= GapLimit(e) + Slack
    /\ queue[e].holder = Nobody => queue[e].available <= GapLimit(e)
    /\ queue[e].holder # Nobody => InHand(e) \/ queue[e].expires <= GapLimit(e) + Slack
    /\ queue[e].holder # Nobody => queue[e].available <= clock
    /\ Stopping => clock + Lease <= GapLimit(e) + Slack

GapTimely ==
    /\ \A p \in Procs, e \in Entries : WorkTimely(p, e)
    /\ \A e \in Entries : EntryTimely(e)
    /\ Stopping => Lease <= Slack

LEMMA GapTypes ==
    ASSUME IInv, NEW e \in Entries
    PROVE  /\ clock \in Nat /\ outages \in Nat /\ Slack \in Nat
           /\ queue[e].expires \in Nat /\ queue[e].available \in Nat
           /\ queue[e].attempts \in Nat /\ queue[e].holder \in Nat
           /\ InGap(e) => queue[e].gapSince \in Nat /\ GapLimit(e) \in Nat
           /\ Lease \in Nat /\ GapTimeout \in Nat
<1>1. /\ clock \in Nat /\ outages \in Nat /\ OutboxTypeOK
      /\ Lease \in Nat /\ GapTimeout \in Nat
  BY ConstantFacts DEF IInv, TypeOK
<1>2. Slack \in Nat
  BY <1>1 DEF Slack
<1>3. /\ queue[e].expires \in Nat /\ queue[e].available \in Nat
      /\ queue[e].attempts \in Nat /\ queue[e].holder \in Nat
      /\ queue[e].gapSince \in Nat \cup {Never}
  BY <1>1, RowsTyped
<1> QED
  BY <1>1, <1>2, <1>3 DEF InGap, GapLimit

\* Work that was in hand before the step stays timely when its row is left alone,
\* released, deleted or taken by a later claim.
LEMMA WorkStaysTimely ==
    ASSUME IInv, NEW p \in Procs, NEW e \in Entries, WorkTimely(p, e), clock' = clock,
           Work(p, e)'.pc # "idle" =>
              /\ Work(p, e).pc # "idle"
              /\ Work(p, e)'.attempts = Work(p, e).attempts
              /\ Work(p, e)'.now = Work(p, e).now,
           \/ queue'[e] = queue[e]
           \/ ~ Queued(e)'
           \/ queue'[e].holder = Nobody
           \/ Queued(e) /\ queue'[e].holder = queue[e].attempts + 1
    PROVE  WorkTimely(p, e)'
<1> SUFFICES ASSUME Work(p, e)'.pc # "idle"
             PROVE  /\ Work(p, e)'.now = clock'
                    /\ HoldsEntry(e, Work(p, e).attempts)' => queue'[e].expires = clock' + Lease
  BY DEF WorkTimely
<1> DEFINE n == Work(p, e).attempts
<1>1. /\ Work(p, e)'.attempts = n /\ Work(p, e)'.now = clock
      /\ HoldsEntry(e, n) => queue[e].expires = clock + Lease
  BY DEF WorkTimely
<1>2. /\ n \in Nat /\ n >= 1 /\ queue[e].attempts \in Nat
      /\ Queued(e) => n <= queue[e].attempts
  BY GapTypes DEF IInv, TypeOK, Works, WorkSound
<1> HIDE DEF n
<1>3. ASSUME Queued(e)', queue'[e].holder = n PROVE queue'[e].expires = clock + Lease
  <2>1. queue'[e] = queue[e]
    BY <1>2, <1>3 DEF Nobody
  <2> QED
    BY <1>1, <1>3, <2>1 DEF HoldsEntry, Queued
<1> QED
  BY <1>1, <1>3 DEF HoldsEntry, Queued

LEMMA WiderLimit ==
    ASSUME NEW c \in Nat, NEW l \in Nat, NEW s \in Nat, NEW wider \in Nat,
           c <= l + s, s <= wider
    PROVE  c <= l + wider
OBVIOUS

LEMMA LongerLimit ==
    ASSUME NEW c \in Nat, NEW l \in Nat, NEW s \in Nat, NEW wider \in Nat,
           NEW d \in Nat, c <= l + s, s + d <= wider
    PROVE  c + d <= l + wider
OBVIOUS

\* An entry whose row the step leaves alone: what was in hand still is, or the
\* outage that dropped it is counted.
LEMMA EntryStaysTimely ==
    ASSUME IInv, IInv', GapTimely, NEW e \in Entries,
           queue'[e] = queue[e], clock' = clock, Slack' >= Slack,
           Stopping' => Stopping \/ Slack' >= Slack + Lease,
           InHand(e) => InHand(e)' \/ Stopping \/ Slack' >= Slack + Lease
    PROVE  EntryTimely(e)'
<1> SUFFICES ASSUME InGap(e)' PROVE EntryTimely(e)'
  BY DEF EntryTimely
<1>1. InGap(e) /\ GapLimit(e)' = GapLimit(e) /\ EntryTimely(e)
  BY DEF InGap, GapLimit, Queued, GapTimely
<1>2. /\ clock \in Nat /\ Slack \in Nat /\ Lease \in Nat
      /\ queue[e].expires \in Nat /\ queue[e].available \in Nat /\ GapLimit(e) \in Nat
  BY <1>1, GapTypes
<1>3. Slack' \in Nat
  BY GapTypes DEF IInv, TypeOK, Slack
<1>4. InHand(e) => queue[e].expires = clock + Lease
  BY DEF InHand, GapTimely, WorkTimely
<1> DEFINE L == GapLimit(e)
           S == Slack
<1>5. /\ clock <= L + S
      /\ queue[e].holder = Nobody => queue[e].available <= L
      /\ queue[e].holder # Nobody => InHand(e) \/ queue[e].expires <= L + S
      /\ queue[e].holder # Nobody => queue[e].available <= clock
      /\ Stopping => clock + Lease <= L + S
  BY <1>1 DEF EntryTimely
<1>6. L \in Nat /\ S \in Nat /\ S' \in Nat /\ S' >= S /\ L' = L
  BY <1>1, <1>2, <1>3
<1>7. Stopping' => Stopping \/ S' >= S + Lease
  OBVIOUS
<1>8. InHand(e) => InHand(e)' \/ Stopping \/ S' >= S + Lease
  OBVIOUS
<1> HIDE DEF L, S
<1>9. /\ clock <= L + S'
      /\ queue[e].holder # Nobody => InHand(e)' \/ queue[e].expires <= L + S'
      /\ Stopping' => clock + Lease <= L + S'
  <2>1. clock <= L + S'
    BY <1>2, <1>5, <1>6, WiderLimit
  <2>2. Stopping \/ S' >= S + Lease => clock + Lease <= L + S'
    <3>1. ASSUME Stopping PROVE clock + Lease <= L + S'
      <4>1. clock + Lease \in Nat /\ clock + Lease <= L + S
        BY <1>2, <1>5, <3>1
      <4> QED
        BY <1>6, <4>1, WiderLimit
    <3>2. ASSUME S' >= S + Lease PROVE clock + Lease <= L + S'
      BY <1>2, <1>5, <1>6, <3>2, LongerLimit
    <3> QED
      BY <3>1, <3>2
  <2>3. ASSUME queue[e].holder # Nobody PROVE InHand(e)' \/ queue[e].expires <= L + S'
    <3>1. CASE InHand(e)
      BY <1>4, <1>8, <2>2, <3>1
    <3>2. CASE ~ InHand(e)
      <4>1. queue[e].expires <= L + S
        BY <1>5, <2>3, <3>2
      <4> QED
        BY <1>2, <1>6, <4>1, WiderLimit
    <3> QED
      BY <3>1, <3>2
  <2> QED
    BY <1>7, <2>1, <2>2, <2>3
<1>10. /\ clock' <= L' + S'
       /\ queue'[e].holder = Nobody => queue'[e].available <= L'
       /\ queue'[e].holder # Nobody => InHand(e)' \/ queue'[e].expires <= L' + S'
       /\ queue'[e].holder # Nobody => queue'[e].available <= clock'
       /\ Stopping' => clock' + Lease <= L' + S'
  BY <1>5, <1>6, <1>9
<1> QED
  BY <1>10 DEF EntryTimely, L, S

-----------------------------------------------------------------------------
LEMMA WriteTimely ==
    ASSUME IInv, IInv', GapTimely, NEW a \in Aggregates, Write(a)
    PROVE  GapTimely'
<1> DEFINE e == EntryOf(a, written[a] + 1)
<1>1. /\ Enqueue(e, clock) /\ OutboxTypeOK
      /\ UNCHANGED <<clock, outages, mode, work>>
  BY DEF Write, IInv, TypeOK, processVars
<1>2. e \in Entries
  BY ConstantFacts DEF EntryOf, Entries, Write, IInv, TypeOK
<1> HIDE DEF e
<1>3. \A f \in Entries : IF f = e
                         THEN queue'[f].holder = Nobody /\ queue'[f].gapSince = Never
                         ELSE queue'[f] = queue[f]
  BY <1>1, <1>2 DEF Enqueue, OutboxTypeOK, NoRow, Nobody
<1>4. \A p \in Procs, f \in Entries : WorkTimely(p, f)'
  BY <1>1, <1>3, WorkStaysTimely DEF GapTimely
<1>5. Slack' = Slack /\ Slack \in Nat /\ (Stopping' => Stopping)
  BY <1>1, <1>2, GapTypes DEF Slack, Stopping
<1>6. ASSUME NEW f \in Entries PROVE EntryTimely(f)'
  <2>1. CASE f = e
    BY <1>3, <2>1 DEF EntryTimely, InGap
  <2>2. CASE f # e
    <3>1. InHand(f) => InHand(f)'
      BY <1>1, <1>3, <2>2 DEF InHand, HoldsEntry, Queued
    <3> QED
      BY <1>1, <1>3, <1>5, <2>2, <3>1, EntryStaysTimely
  <2> QED
    BY <2>1, <2>2
<1> QED
  BY <1>4, <1>5, <1>6 DEF GapTimely

\* A claim of any kind keeps the rest of the row.
Claimed(e, now, expires) ==
    /\ Queued(e) /\ Queued(e)' /\ queue[e].available <= now
    /\ queue'[e].holder = queue[e].attempts + 1
    /\ queue'[e].expires = expires
    /\ queue'[e].gapSince = queue[e].gapSince
    /\ queue'[e].available = queue[e].available

LEMMA ClaimedRows ==
    ASSUME OutboxTypeOK, NEW batch, NEW now \in Nat, NEW expires \in Nat \ {0},
           Claim(batch, now, expires)
    PROVE  \A e \in Entries : IF e \in batch THEN Claimed(e, now, expires)
                              ELSE queue'[e] = queue[e]
<1>1. \A e \in batch : Claimable(e, now)
  BY DEF Claim
<1>2. \A e \in Entries : IF e \in batch
                         THEN queue'[e] = [queue[e] EXCEPT !.attempts = @ + 1,
                                             !.expires = expires,
                                             !.holder = queue[e].attempts + 1]
                         ELSE queue'[e] = queue[e]
  BY DEF Claim
<1> SUFFICES ASSUME NEW e \in Entries
             PROVE  IF e \in batch THEN Claimed(e, now, expires) ELSE queue'[e] = queue[e]
  OBVIOUS
<1> DEFINE n == queue[e].attempts + 1
           row == [queue[e] EXCEPT !.attempts = n, !.expires = expires, !.holder = n]
<1>3. queue'[e] = IF e \in batch THEN row ELSE queue[e]
  BY <1>2
<1>4. e \in batch => Queued(e) /\ queue[e].available <= now
  BY <1>1 DEF Claimable
<1>5. queue[e] \in QueueRows
  BY RowsTyped
<1> HIDE DEF n
<1>6. /\ row.holder = n /\ row.expires = expires
      /\ row.queued = queue[e].queued /\ row.gapSince = queue[e].gapSince
      /\ row.available = queue[e].available
  BY <1>5 DEF QueueRows
<1> HIDE DEF row
<1>7. CASE e \in batch
  <2>1. /\ queue'[e].holder = n /\ queue'[e].expires = expires
        /\ queue'[e].gapSince = queue[e].gapSince /\ queue'[e].queued = queue[e].queued
        /\ queue'[e].available = queue[e].available
    BY <1>3, <1>6, <1>7
  <2>2. Queued(e) /\ Queued(e)'
    BY <1>4, <1>7, <2>1 DEF Queued
  <2> QED
    BY <1>4, <1>7, <2>1, <2>2 DEF Claimed, n
<1> QED
  BY <1>3, <1>7

LEMMA ClaimedNow ==
    ASSUME IInv, NEW batch, Claim(batch, clock, clock + Lease)
    PROVE  \A e \in Entries : IF e \in batch THEN Claimed(e, clock, clock + Lease)
                              ELSE queue'[e] = queue[e]
<1>1. OutboxTypeOK /\ clock \in Nat /\ clock + Lease \in Nat \ {0}
  BY ConstantFacts DEF IInv, TypeOK
<1> QED
  BY <1>1, ClaimedRows

\* A claimed entry is in hand, or was claimed by a process that stops.
LEMMA ClaimedEntryTimely ==
    ASSUME IInv, GapTimely, NEW batch, Claim(batch, clock, clock + Lease),
           UNCHANGED <<clock, outages, mode>>, NEW e \in batch, e \in Entries,
           InHand(e)' \/ Stopping
    PROVE  EntryTimely(e)'
<1> SUFFICES ASSUME InGap(e)' PROVE EntryTimely(e)'
  BY DEF EntryTimely
<1>1. /\ Queued(e) /\ queue'[e].holder = queue[e].attempts + 1
      /\ queue'[e].expires = clock + Lease /\ queue'[e].gapSince = queue[e].gapSince
      /\ queue'[e].available <= clock
  BY ClaimedNow DEF Claimed
<1>2. InGap(e) /\ GapLimit(e)' = GapLimit(e) /\ Slack' = Slack /\ (Stopping' <=> Stopping)
  BY <1>1 DEF InGap, GapLimit, Slack, Stopping
<1>3. /\ clock <= GapLimit(e) + Slack
      /\ Stopping => clock + Lease <= GapLimit(e) + Slack
  BY <1>2 DEF GapTimely, EntryTimely
<1>4. queue'[e].holder # Nobody
  BY <1>1, GapTypes DEF Nobody
<1> QED
  BY <1>1, <1>2, <1>3, <1>4 DEF EntryTimely

LEMMA ClaimBatchTimely ==
    ASSUME IInv, IInv', GapTimely, NEW p \in Procs, ClaimBatch(p)
    PROVE  GapTimely'
<1>1. PICK batch \in Batches :
         /\ Claim(batch, clock, clock + Lease)
         /\ work' = [pe \in Procs \X Entries |->
                       IF pe[1] = p /\ pe[2] \in batch
                       THEN [pc |-> "waiting", now |-> clock,
                             attempts |-> queue[pe[2]].attempts + 1,
                             gapSince |-> queue[pe[2]].gapSince, code |-> "none"]
                       ELSE work[pe]]
  BY DEF ClaimBatch
<1>2. UNCHANGED <<clock, outages, mode>>
  BY DEF ClaimBatch
<1>3. \A q \in Procs, f \in Entries :
         IF q = p /\ f \in batch
         THEN /\ Work(q, f)'.pc = "waiting" /\ Work(q, f)'.now = clock
              /\ Work(q, f)'.attempts = queue[f].attempts + 1
         ELSE Work(q, f)' = Work(q, f)
  BY <1>1
<1>4. \A f \in Entries : IF f \in batch
         THEN /\ Queued(f) /\ Queued(f)'
              /\ queue'[f].holder = queue[f].attempts + 1
              /\ queue'[f].expires = clock + Lease
         ELSE queue'[f] = queue[f]
  BY <1>1, ClaimedNow DEF Claimed
<1>5. ASSUME NEW q \in Procs, NEW f \in Entries PROVE WorkTimely(q, f)'
  <2>1. CASE q = p /\ f \in batch
    BY <1>2, <1>3, <1>4, <2>1 DEF WorkTimely
  <2>2. CASE ~ (q = p /\ f \in batch)
    <3>1. Work(q, f)' = Work(q, f)
      BY <1>3, <2>2
    <3>2. queue'[f] = queue[f] \/ (Queued(f) /\ queue'[f].holder = queue[f].attempts + 1)
      BY <1>4
    <3> QED
      BY <1>2, <3>1, <3>2, WorkStaysTimely DEF GapTimely
  <2> QED
    BY <2>1, <2>2
<1>6. Slack' = Slack /\ (Stopping' => Stopping)
  BY <1>2 DEF Slack, Stopping
<1>7. ASSUME NEW f \in Entries PROVE EntryTimely(f)'
  <2>1. CASE f \in batch
    <3>1. InHand(f)'
      BY <1>3, <1>4, <2>1 DEF InHand, HoldsEntry
    <3> QED
      BY <1>1, <1>2, <2>1, <3>1, ClaimedEntryTimely
  <2>2. CASE f \notin batch
    <3>1. InHand(f) => InHand(f)'
      BY <1>3, <1>4, <2>2 DEF InHand, HoldsEntry, Queued
    <3>2. Slack \in Nat
      BY GapTypes
    <3> QED
      BY <1>2, <1>4, <1>6, <2>2, <3>1, <3>2, EntryStaysTimely
  <2> QED
    BY <2>1, <2>2
<1> QED
  BY <1>5, <1>6, <1>7 DEF GapTimely

\* Only a process that stops loses the answer to its claim.
LEMMA ClaimLostTimely ==
    ASSUME StoreAnswers, IInv, IInv', GapTimely, NEW p \in Procs, ClaimLost(p)
    PROVE  GapTimely'
<1>1. PICK batch \in Batches : Claim(batch, clock, clock + Lease)
  BY DEF ClaimLost
<1>2. UNCHANGED <<clock, outages, mode, work>> /\ Stopping
  BY DEF ClaimLost, CallMayFail, StoreAnswers, Stopping, processVars
<1>3. \A f \in Entries : IF f \in batch
         THEN Queued(f) /\ queue'[f].holder = queue[f].attempts + 1
         ELSE queue'[f] = queue[f]
  BY <1>1, ClaimedNow DEF Claimed
<1>4. \A q \in Procs, f \in Entries : WorkTimely(q, f)'
  BY <1>2, <1>3, WorkStaysTimely DEF GapTimely
<1>5. Slack' = Slack
  BY <1>2 DEF Slack
<1>6. ASSUME NEW f \in Entries PROVE EntryTimely(f)'
  <2>1. CASE f \in batch
    BY <1>1, <1>2, <2>1, ClaimedEntryTimely
  <2>2. CASE f \notin batch
    <3>1. Slack \in Nat
      BY GapTypes
    <3> QED
      BY <1>2, <1>3, <1>5, <2>2, <3>1, EntryStaysTimely
  <2> QED
    BY <2>1, <2>2
<1> QED
  BY <1>2, <1>4, <1>5, <1>6 DEF GapTimely

\* Handling an entry, or cleaning up, moves no row.
LEMMA QueueStaysTimely ==
    ASSUME IInv, IInv', GapTimely, UNCHANGED <<queue, clock, outages, mode>>,
           \A p \in Procs, e \in Entries :
              /\ Work(p, e)'.pc = "idle" <=> Work(p, e).pc = "idle"
              /\ Work(p, e)'.attempts = Work(p, e).attempts
              /\ Work(p, e)'.now = Work(p, e).now
    PROVE  GapTimely'
<1>1. \A q \in Procs, f \in Entries : WorkTimely(q, f)'
  BY WorkStaysTimely DEF GapTimely
<1>2. Slack' = Slack /\ (Stopping' => Stopping)
  BY DEF Slack, Stopping
<1>3. ASSUME NEW f \in Entries PROVE EntryTimely(f)'
  <2>1. InHand(f) => InHand(f)'
    BY DEF InHand, HoldsEntry, Queued
  <2>2. Slack \in Nat
    BY GapTypes
  <2> QED
    BY <1>2, <2>1, <2>2, EntryStaysTimely
<1> QED
  BY <1>1, <1>2, <1>3 DEF GapTimely

LEMMA HandlingTimely ==
    ASSUME IInv, IInv', GapTimely, NEW p \in Procs, NEW e \in Entries,
           Begin(p, e) \/ HandlerStep(p, e)
    PROVE  GapTimely'
<1>1. work \in [Procs \X Entries -> Works] /\ Work(p, e) \in Works
  BY DEF IInv, TypeOK
<1>2. Work(p, e).pc # "idle" /\ UNCHANGED <<queue, clock, outages, mode>>
  BY DEF Begin, HandlerStep, HandlerSucceeds, HandlerFindsGap, HandlerRejects,
         HandlerFails, Handling, outboxVars
<1>3. \/ work' = [work EXCEPT ![<<p, e>>].pc = "handling"]
      \/ \E code \in Codes \cup {"none"} : Conclude(p, e, code)
  BY DEF Begin, HandlerStep, HandlerSucceeds, HandlerFindsGap, HandlerRejects,
         HandlerFails, Codes
<1>4. \E w \in Works :
         /\ work' = [work EXCEPT ![<<p, e>>] = w]
         /\ w.pc # "idle" /\ w.attempts = Work(p, e).attempts /\ w.now = Work(p, e).now
  <2>1. CASE work' = [work EXCEPT ![<<p, e>>].pc = "handling"]
    <3> DEFINE w == [Work(p, e) EXCEPT !.pc = "handling"]
    <3>1. work' = [work EXCEPT ![<<p, e>>] = w]
      BY <2>1
    <3>2. /\ w \in Works /\ w.pc # "idle"
          /\ w.attempts = Work(p, e).attempts /\ w.now = Work(p, e).now
      BY <1>1 DEF Works
    <3> QED
      BY <3>1, <3>2
  <2>2. ASSUME NEW code \in Codes \cup {"none"}, Conclude(p, e, code)
        PROVE  \E w \in Works :
                  /\ work' = [work EXCEPT ![<<p, e>>] = w]
                  /\ w.pc # "idle" /\ w.attempts = Work(p, e).attempts
                  /\ w.now = Work(p, e).now
    <3> DEFINE w == [Work(p, e) EXCEPT !.pc = "reporting", !.code = code]
    <3>1. work' = [work EXCEPT ![<<p, e>>] = w]
      BY <2>2 DEF Conclude
    <3>2. /\ w \in Works /\ w.pc # "idle"
          /\ w.attempts = Work(p, e).attempts /\ w.now = Work(p, e).now
      BY <1>1 DEF Works
    <3> QED
      BY <3>1, <3>2
  <2> QED
    BY <1>3, <2>1, <2>2
<1>5. \A q \in Procs, f \in Entries :
         /\ Work(q, f)'.pc = "idle" <=> Work(q, f).pc = "idle"
         /\ Work(q, f)'.attempts = Work(q, f).attempts
         /\ Work(q, f)'.now = Work(q, f).now
  BY <1>1, <1>2, <1>4
<1> QED
  BY <1>2, <1>5, QueueStaysTimely

-----------------------------------------------------------------------------
\* What a report makes of its entry's row: the row is gone, or no longer of a
\* gap, or the gap is tried again before its time is over.
LEMMA ReportedRowTimely ==
    ASSUME IInv, IInv', GapTimely, NEW p \in Procs, NEW e \in Entries,
           Reporting(p, e), Report(e, Work(p, e)), UNCHANGED <<clock, outages, mode>>
    PROVE  EntryTimely(e)' /\ (~ Queued(e)' \/ queue'[e].holder = Nobody)
<1> DEFINE w == Work(p, e)
<1>1. /\ w \in Works /\ w.now = clock /\ OutboxTypeOK /\ clock \in Nat
      /\ HoldsEntry(e, w.attempts) => w.gapSince = queue[e].gapSince
      /\ w.now \in Nat /\ w.attempts \in Nat /\ w.gapSince \in Nat \cup {Never}
  <2>1. /\ w \in Works /\ w.now = clock /\ OutboxTypeOK /\ clock \in Nat
        /\ HoldsEntry(e, w.attempts) => w.gapSince = queue[e].gapSince
    BY DEF Reporting, IInv, TypeOK, WorkSound, GapTimely, WorkTimely
  <2> QED
    BY <2>1 DEF Works
<1>2. Report(e, w) /\ GapTimely
  OBVIOUS
<1>3. ASSUME NEW holder, NEW code, NEW now,
             Succeed(e, holder, now) \/ Bury(e, holder, code, now)
      PROVE  ~ Queued(e)'
  BY <1>1, <1>3 DEF Succeed, Bury, Queued, NoRow, OutboxTypeOK
<1>4. ASSUME ~ GivesUp(w), NEW delay \in RetryDelays(w.attempts),
             Retry(e, w.attempts, w.code, NextAttempt(w, delay), w.now)
      PROVE  EntryTimely(e)' /\ queue'[e].holder = Nobody
  <2> DEFINE seen == GapSeen(e, w.code, w.now)
             next == NextAttempt(w, delay)
             row == [Released(queue[e]) EXCEPT !.available = next, !.gapSince = seen]
  <2>1. queue'[e] = row /\ HoldsEntry(e, w.attempts)
    BY <1>1, <1>4 DEF Retry, OutboxTypeOK
  <2>2. queue[e] \in QueueRows /\ queue[e].gapSince \in Nat \cup {Never}
    BY <1>1, RowsTyped
  <2>3. row.holder = Nobody /\ row.available = next /\ row.gapSince = seen
    BY <2>2 DEF Released, QueueRows
  <2> HIDE DEF row
  <2>4. queue'[e].holder = Nobody /\ queue'[e].available = next /\ queue'[e].gapSince = seen
    BY <2>1, <2>3
  <2> SUFFICES ASSUME InGap(e)' PROVE EntryTimely(e)'
    BY <2>4 DEF EntryTimely
  <2>5. w.code = "gap" /\ seen # Never
    BY <2>4 DEF InGap, GapSeen
  <2>6. /\ seen \in Nat /\ seen + GapTimeout = GapEnds(w)
        /\ seen = queue[e].gapSince \/ seen = clock
    BY <1>1, <2>1, <2>2, <2>5 DEF GapSeen, GapEnds
  <2>7. delay \in Nat
    BY <1>1, DelaysAreNat
  <2>8. next <= GapEnds(w) /\ clock < GapEnds(w)
    BY <1>1, <1>4, <2>5, <2>6, <2>7, ConstantFacts DEF NextAttempt, GivesUp
  <2> HIDE DEF w, seen, next
  <2>9. GapLimit(e)' = GapEnds(w)
    BY <2>4, <2>6 DEF GapLimit
  <2>10. /\ Slack' = Slack /\ Slack \in Nat /\ (Stopping' => Stopping)
         /\ Lease \in Nat /\ GapTimeout \in Nat /\ clock' = clock
    BY GapTypes DEF Slack, Stopping
  <2>11. clock' <= GapLimit(e)' + Slack'
    BY <1>1, <2>6, <2>8, <2>9, <2>10
  <2>12. ASSUME Stopping PROVE clock + Lease <= GapEnds(w) + Slack
    <3>1. CASE seen = clock
      <4>1. Lease <= Slack
        BY <2>12 DEF GapTimely
      <4> QED
        BY <1>1, <2>6, <2>10, <3>1, <4>1
    <3>2. CASE seen = queue[e].gapSince
      <4>1. InGap(e) /\ GapLimit(e) = GapEnds(w)
        BY <2>1, <2>5, <2>6, <3>2 DEF InGap, GapLimit, HoldsEntry
      <4>2. clock + Lease <= GapLimit(e) + Slack
        BY <2>12, <4>1 DEF GapTimely, EntryTimely
      <4> QED
        BY <4>1, <4>2
    <3> QED
      BY <2>6, <3>1, <3>2
  <2>13. Stopping' => clock' + Lease <= GapLimit(e)' + Slack'
    BY <2>9, <2>10, <2>12
  <2> QED
    BY <2>4, <2>8, <2>9, <2>11, <2>13 DEF EntryTimely
<1>5. \/ \E holder, code, now : Succeed(e, holder, now) \/ Bury(e, holder, code, now)
      \/ /\ ~ GivesUp(w)
         /\ \E delay \in RetryDelays(w.attempts) :
               Retry(e, w.attempts, w.code, NextAttempt(w, delay), w.now)
  BY <1>2 DEF Report, Fail
<1>6. CASE \E holder, code, now : Succeed(e, holder, now) \/ Bury(e, holder, code, now)
  <2>1. ~ Queued(e)'
    BY <1>3, <1>6
  <2> QED
    BY <2>1 DEF EntryTimely, InGap
<1> HIDE DEF w
<1> QED
  BY <1>4, <1>5, <1>6

\* A report that reached the store, came from a dispatcher that had lost the
\* lease, or was lost by one that stops.
LEMMA ReportTimely ==
    ASSUME StoreAnswers, IInv, IInv', GapTimely, NEW p \in Procs, NEW e \in Entries,
           ReportRecorded(p, e) \/ ReportLost(p, e) \/ ReportFails(p, e)
    PROVE  GapTimely'
<1>1. /\ Reporting(p, e) /\ Drop(p, e) /\ UNCHANGED <<clock, outages, mode>>
      /\ \/ Report(e, Work(p, e))
         \/ queue' = queue /\ (Stopping \/ ~ HoldsEntry(e, Work(p, e).attempts))
  BY DEF ReportRecorded, ReportLost, ReportFails, CallMayFail, StoreAnswers, Stopping,
         outboxVars
<1>2. \A q \in Procs, f \in Entries :
         /\ Work(q, f)'.pc # "idle" => Work(q, f)' = Work(q, f)
         /\ f # e \/ q # p => Work(q, f)' = Work(q, f)
  BY <1>1 DEF Drop, IInv, TypeOK, NoWork
<1>3. Work(p, e) \in Works /\ OutboxTypeOK
  BY DEF IInv, TypeOK
<1>4. \A f \in Entries \ {e} : queue'[f] = queue[f]
  BY <1>1, <1>3, ReportTyped
<1>5. \/ Report(e, Work(p, e)) /\ EntryTimely(e)'
         /\ (~ Queued(e)' \/ queue'[e].holder = Nobody)
      \/ queue'[e] = queue[e] /\ (Stopping \/ ~ HoldsEntry(e, Work(p, e).attempts))
  BY <1>1, ReportedRowTimely
<1>6. ASSUME NEW q \in Procs, NEW f \in Entries PROVE WorkTimely(q, f)'
  <2>1. \/ queue'[f] = queue[f] \/ ~ Queued(f)' \/ queue'[f].holder = Nobody
    BY <1>4, <1>5
  <2> QED
    BY <1>1, <1>2, <2>1, WorkStaysTimely DEF GapTimely
<1>7. Slack' = Slack /\ Slack \in Nat /\ (Stopping' => Stopping)
  BY <1>1, GapTypes DEF Slack, Stopping
<1>8. ASSUME NEW f \in Entries PROVE EntryTimely(f)'
  <2>1. CASE f # e
    <3>1. InHand(f) => InHand(f)'
      BY <1>2, <1>4, <2>1 DEF InHand, HoldsEntry, Queued
    <3> QED
      BY <1>1, <1>4, <1>7, <2>1, <3>1, EntryStaysTimely
  <2>2. CASE f = e /\ queue'[e] = queue[e]
               /\ (Stopping \/ ~ HoldsEntry(e, Work(p, e).attempts))
    <3>1. InHand(e) => InHand(e)' \/ Stopping
      BY <1>2, <2>2 DEF InHand, HoldsEntry, Queued
    <3> QED
      BY <1>1, <1>7, <2>2, <3>1, EntryStaysTimely
  <2> QED
    BY <1>5, <2>1, <2>2
<1> QED
  BY <1>6, <1>7, <1>8 DEF GapTimely

-----------------------------------------------------------------------------
\* An outage is counted before it takes anything out of a dispatcher's hands.
LEMMA ProcessTimely ==
    ASSUME IInv, IInv', GapTimely, NEW p \in Procs, ProcessStep(p)
    PROVE  GapTimely'
<1>1. UNCHANGED <<queue, clock>>
  BY DEF ProcessStep, Crash, Shutdown, Exit, Restart, outboxVars
<1>2. \A q \in Procs, f \in Entries :
         Work(q, f)'.pc # "idle" => Work(q, f)' = Work(q, f)
  BY DEF ProcessStep, Crash, Shutdown, Exit, Restart, NoWork, IInv, TypeOK
<1>3. \A q \in Procs, f \in Entries : WorkTimely(q, f)'
  BY <1>1, <1>2, WorkStaysTimely DEF GapTimely
<1>4. outages \in Nat /\ Lease \in Nat /\ mode \in [Procs -> {"up", "stopping", "down"}]
  BY ConstantFacts DEF IInv, TypeOK
<1>5. CASE Crash(p) \/ Shutdown(p)
  <2>1. outages' = outages + 1
    BY <1>5 DEF Crash, Shutdown
  <2>2. Slack' = Slack + Lease /\ Slack \in Nat
    BY <1>4, <2>1 DEF Slack
  <2>3. Slack' >= Slack /\ Slack' >= Slack + Lease /\ Lease <= Slack'
    BY <1>4, <2>2
  <2>4. \A f \in Entries : EntryTimely(f)'
    BY <1>1, <2>3, EntryStaysTimely
  <2> QED
    BY <1>3, <2>3, <2>4 DEF GapTimely
<1>6. CASE Exit(p) \/ Restart(p)
  <2>1. Slack' = Slack /\ Slack \in Nat /\ work' = work
    BY <1>4, <1>6 DEF Exit, Restart, Slack
  <2>2. Stopping' => Stopping
    BY <1>4, <1>6 DEF Exit, Restart, Stopping
  <2>3. ASSUME NEW f \in Entries PROVE EntryTimely(f)'
    <3>1. InHand(f) => InHand(f)'
      BY <1>1, <2>1 DEF InHand, HoldsEntry, Queued
    <3> QED
      BY <1>1, <2>1, <2>2, <3>1, EntryStaysTimely
  <2> QED
    BY <1>3, <2>1, <2>2, <2>3 DEF GapTimely
<1> QED
  BY <1>5, <1>6 DEF ProcessStep

\* The clock moves only when nothing is in hand, everybody is up and every entry
\* waits for a later instant.
LEMMA AdvanceTimely ==
    ASSUME Procs # {}, IInv, GapTimely, AdvancePromptly
    PROVE  GapTimely'
<1>1. clock' = clock + 1 /\ UNCHANGED <<queue, outages, mode, work>>
  BY DEF AdvancePromptly, Advance, outboxVars, processVars
<1>2. \A p \in Procs : mode[p] = "up" /\ \A e \in Entries : Work(p, e).pc = "idle"
  BY DEF AdvancePromptly, KeepsUp, Between
<1>3. ~ Stopping /\ ~ Stopping' /\ Slack' = Slack
  BY <1>1, <1>2 DEF Stopping, Slack
<1>4. \A p \in Procs, e \in Entries : WorkTimely(p, e)'
  BY <1>1, <1>2 DEF WorkTimely
<1>5. \A e \in Entries : ~ Claimable(e, clock)
  BY DEF AdvancePromptly, KeepsUp
<1>6. ASSUME NEW e \in Entries, InGap(e)' PROVE EntryTimely(e)'
  <2>1. InGap(e) /\ GapLimit(e)' = GapLimit(e) /\ ~ InHand(e)
    BY <1>1, <1>2, <1>6 DEF InGap, GapLimit, Queued, InHand
  <2>2. /\ clock \in Nat /\ Slack \in Nat /\ GapLimit(e) \in Nat
        /\ queue[e].expires \in Nat /\ queue[e].available \in Nat
    BY <2>1, GapTypes
  <2>3. /\ clock <= GapLimit(e) + Slack
        /\ queue[e].holder = Nobody => queue[e].available <= GapLimit(e)
        /\ queue[e].holder # Nobody => /\ queue[e].expires <= GapLimit(e) + Slack
                                       /\ queue[e].available <= clock
    BY <2>1 DEF GapTimely, EntryTimely
  <2>4. clock + 1 <= GapLimit(e) + Slack
    <3>1. CASE queue[e].holder = Nobody
      <4>1. clock < queue[e].available
        BY <1>5, <2>1, <2>2, <3>1 DEF Claimable, InGap
      <4> QED
        BY <2>2, <2>3, <3>1, <4>1
    <3>2. CASE queue[e].holder # Nobody
      <4>1. PICK limit \in Nat : limit = GapLimit(e) + Slack /\ clock <= limit
                                /\ queue[e].expires <= limit
                                /\ queue[e].available <= clock
        BY <2>2, <2>3, <3>2
      <4> QED
        BY <1>5, <2>1, <2>2, <4>1 DEF Claimable, InGap
    <3> QED
      BY <3>1, <3>2
  <2>5. /\ clock' <= GapLimit(e)' + Slack'
        /\ queue'[e].holder = Nobody => queue'[e].available <= GapLimit(e)'
        /\ queue'[e].holder # Nobody => /\ queue'[e].expires <= GapLimit(e)' + Slack'
                                        /\ queue'[e].available <= clock'
    BY <1>1, <1>3, <2>1, <2>2, <2>3, <2>4
  <2> QED
    BY <1>3, <2>5 DEF EntryTimely
<1>7. \A e \in Entries : EntryTimely(e)'
  BY <1>6 DEF EntryTimely
<1> QED
  BY <1>3, <1>4, <1>7 DEF GapTimely

-----------------------------------------------------------------------------
LEMMA GapTimelyInit == Init => GapTimely
<1> SUFFICES ASSUME Init PROVE GapTimely
  OBVIOUS
<1>1. \A e \in Entries : ~ InGap(e)
  BY DEF Init, OutboxInit, NoRow, Queued, InGap
<1>2. \A p \in Procs, e \in Entries : Work(p, e).pc = "idle"
  BY DEF Init, Work, NoWork
<1>3. ~ Stopping
  BY DEF Init, Stopping
<1> QED
  BY <1>1, <1>2, <1>3 DEF GapTimely, WorkTimely, EntryTimely

LEMMA GapStaysTimely ==
    ASSUME StoreAnswers, Procs # {}, IInv, GapTimely, [Step \/ AdvancePromptly]_vars
    PROVE  IInv' /\ GapTimely'
<1>1. [Next]_vars
  BY DEF Next, AdvancePromptly
<1>2. IInv'
  BY <1>1, NextKeeps
<1>3. CASE \E a \in Aggregates : Write(a)
  BY <1>2, <1>3, WriteTimely
<1>4. CASE \E p \in Procs : ClaimBatch(p) \/ ClaimLost(p) \/ ProcessStep(p)
  BY <1>2, <1>4, ClaimBatchTimely, ClaimLostTimely, ProcessTimely
<1>5. CASE \E p \in Procs : CleanupMarkers(p)
  <2>1. UNCHANGED <<queue, clock, outages, mode, work>>
    BY <1>5 DEF CleanupMarkers, Cleanup, LiveRowsStay, processVars
  <2>2. \A q \in Procs, f \in Entries : Work(q, f)' = Work(q, f)
    BY <2>1
  <2> QED
    BY <1>2, <2>1, <2>2, QueueStaysTimely
<1>6. CASE \E p \in Procs, e \in Entries : WorkStep(p, e)
  <2>1. PICK p \in Procs : \E e \in Entries : WorkStep(p, e)
    BY <1>6
  <2>2. PICK e \in Entries : WorkStep(p, e)
    BY <2>1
  <2>3. CASE Begin(p, e) \/ HandlerStep(p, e)
    BY <1>2, <2>3, HandlingTimely
  <2>4. CASE ReportRecorded(p, e) \/ ReportLost(p, e) \/ ReportFails(p, e)
    BY <1>2, <2>4, ReportTimely
  <2> QED
    BY <2>2, <2>3, <2>4 DEF WorkStep
<1>7. CASE AdvancePromptly
  BY <1>2, <1>7, AdvanceTimely
<1>8. CASE UNCHANGED vars
  <2>1. UNCHANGED <<queue, clock, outages, mode, work>>
    BY <1>8 DEF vars, outboxVars, processVars
  <2>2. \A q \in Procs, f \in Entries : Work(q, f)' = Work(q, f)
    BY <2>1
  <2> QED
    BY <1>2, <2>1, <2>2, QueueStaysTimely
<1> QED
  BY <1>2, <1>3, <1>4, <1>5, <1>6, <1>7, <1>8 DEF Step

\* In a fleet that keeps up and whose store answers, a gap is decided when its
\* time is over: the predecessor came and the entry took effect, or it was given
\* up; each outage can postpone that by one lease.
THEOREM OutboxGapDecided ==
    ASSUME StoreAnswers, Procs # {}
    PROVE  TimelySpec => []GapDecided
<1>1. Init => IInv /\ GapTimely
  BY InitIInv, GapTimelyInit
<1>2. (IInv /\ GapTimely) /\ [Step \/ AdvancePromptly]_vars => (IInv /\ GapTimely)'
  BY GapStaysTimely
<1>3. IInv /\ GapTimely => GapDecided
  <2> SUFFICES ASSUME IInv, GapTimely, NEW e \in Entries, InGap(e)
               PROVE  clock <= queue[e].gapSince + GapTimeout + outages * Lease
    BY DEF GapDecided, InGap
  <2>1. clock <= GapLimit(e) + Slack
    BY DEF GapTimely, EntryTimely
  <2> QED
    BY <2>1 DEF GapLimit, Slack
<1> QED
  BY <1>1, <1>2, <1>3, PTL DEF TimelySpec
=============================================================================
