--------------------------- MODULE RunStoreProofs ---------------------------
(***************************************************************************)
(* Each transaction of the Run store keeps the store's invariant and is a  *)
(* step of the ledger, whoever calls it with whatever arguments.           *)
(***************************************************************************)
EXTENDS RunStore, TLAPS

StoreInv ==
    /\ StoreTypeOK
    /\ RecordedOnce
    /\ ObservedByLastClaimant
    /\ HeldByLastClaimant

\* A transaction of the store, and what it keeps and implements.
StoreStep == StoreInv' /\ [Ledger!Next]_Ledger!ledgerVars

\* The statuses a row can have are told apart.
LEMMA StatusesDiffer ==
    /\ "absent" \notin Outcomes /\ "inFlight" \notin Outcomes
    /\ "open" \notin Outcomes /\ "skipped" \in Outcomes
    /\ "skipped" \notin ExecutedOutcomes /\ ExecutedOutcomes \subseteq Outcomes
    /\ "absent" \notin ExecutedOutcomes /\ "inFlight" \notin ExecutedOutcomes
BY RunStoreAssumption DEF Outcomes

LEMMA AppendToEmpty == \A o \in Outcomes : Append(<<>>, o) = <<o>>
OBVIOUS

\* The empty tables satisfy the store's invariant and are an undecided ledger.
LEMMA StoreInitial == StoreInit => StoreInv /\ Ledger!Init
<1> SUFFICES ASSUME StoreInit PROVE StoreInv /\ Ledger!Init
  OBVIOUS
<1> USE StatusesDiffer
<1>1. StoreTypeOK
  BY DEF StoreInit, StoreTypeOK, AbsentRow, Rows, Nobody
<1>2. \A s \in Slots : ~ Finished(s) /\ ~ InFlight(s)
  BY DEF StoreInit, Finished, InFlight, AbsentRow
<1>3. RecordedOnce /\ ObservedByLastClaimant /\ HeldByLastClaimant
  BY <1>2 DEF StoreInit, RecordedOnce, ObservedByLastClaimant,
              HeldByLastClaimant, AbsentRow
<1>4. Ledger!Init
  BY <1>2 DEF StoreInit, Ledger!Init
<1> QED
  BY <1>1, <1>3, <1>4 DEF StoreInv

\* A call that has no effect.
LEMMA StoreUnchanged == ASSUME StoreInv, UNCHANGED storeVars PROVE StoreStep
BY DEF StoreStep, StoreInv, StoreTypeOK, RecordedOnce, ObservedByLastClaimant,
       HeldByLastClaimant, storeVars, Ledger!ledgerVars, Finished, InFlight

\* A claim decides nothing: it inserts or hands over an undecided row.
LEMMA ClaimIsStep ==
    ASSUME StoreInv, NEW s \in Slots, NEW expires \in Nat, NEW now \in Nat,
           ClaimSlot(s, expires, now)
    PROVE  StoreStep
<1> USE StatusesDiffer DEF StoreInv, NewHolder
<1> DEFINE row == [status |-> "inFlight", id |-> ClaimedId(s),
                   holder |-> minted[s] + 1, expires |-> expires]
<1>1. ClaimedId(s) \in Nat /\ minted[s] \in Nat
  BY DEF StoreTypeOK, ClaimedId, Rows
<1>2. row \in Rows
  BY <1>1 DEF Rows
<1>3. ~ Finished(s)
  BY DEF ClaimSlot, Claimable, Absent, Reclaimable, InFlight, Finished
<1>4. /\ runs' = [runs EXCEPT ![s] = row]
      /\ minted' = [minted EXCEPT ![s] = @ + 1]
      /\ UNCHANGED <<observations, recorded>>
  BY DEF ClaimSlot
<1>5. StoreTypeOK'
  <2>1. runs' \in [Slots -> Rows]
    <3> HIDE DEF row
    <3> QED BY <1>2, <1>4 DEF StoreTypeOK
  <2>2. minted' \in [Slots -> Nat]
    BY <1>1, <1>4 DEF StoreTypeOK
  <2> QED
    BY <1>4, <2>1, <2>2 DEF StoreTypeOK
<1>6. \A t \in Slots \ {s} : runs'[t] = runs[t] /\ minted'[t] = minted[t]
  BY <1>4 DEF StoreTypeOK
<1>7. runs'[s] = row /\ minted'[s] = minted[s] + 1
  BY <1>4 DEF StoreTypeOK
<1>8. \A t \in Slots : /\ Finished(t)' <=> Finished(t)
                       /\ Finished(t) => runs'[t] = runs[t] /\ minted'[t] = minted[t]
  BY <1>3, <1>6, <1>7 DEF Finished
<1>9. RecordedOnce'
  BY <1>4, <1>8 DEF RecordedOnce
<1>10. ObservedByLastClaimant'
  <2>1. runs[s].status \notin ExecutedOutcomes
    BY <1>3 DEF Finished
  <2>2. observations'[s] = <<>>
    BY <1>4, <2>1 DEF ObservedByLastClaimant
  <2>3. runs'[s].status \notin ExecutedOutcomes
    BY <1>7
  <2> QED
    BY <1>4, <1>6, <2>2, <2>3 DEF ObservedByLastClaimant
<1>11. HeldByLastClaimant'
  BY <1>1, <1>6, <1>7 DEF HeldByLastClaimant, InFlight
<1>12. UNCHANGED Ledger!ledgerVars
  BY <1>4, <1>8 DEF Ledger!ledgerVars
<1> QED
  BY <1>5, <1>9, <1>10, <1>11, <1>12 DEF StoreStep

\* Recording an outcome in an undecided row, with its announcement, is the
\* ledger's decision.
LEMMA DecisionIsStep ==
    ASSUME StoreInv, NEW s \in Slots, NEW id \in Nat, NEW o \in Outcomes,
           ~ Finished(s),
           runs' = [runs EXCEPT ![s] = FinishedRow(id, o)],
           recorded' = [recorded EXCEPT ![s] =
                          Append(@, [id |-> id, outcome |-> o])]
    PROVE  /\ RecordedOnce'
           /\ recorded' \in [Slots -> Seq([id : Nat, outcome : Outcomes])]
           /\ Ledger!Decide(s, o)
<1> USE StatusesDiffer DEF StoreInv
<1> DEFINE fact == [id |-> id, outcome |-> o]
<1>1. recorded[s] = <<>>
  BY DEF RecordedOnce
<1>2. recorded' = [recorded EXCEPT ![s] = <<fact>>]
  BY <1>1 DEF StoreTypeOK
<1>3. runs'[s] = FinishedRow(id, o) /\ recorded'[s] = <<fact>>
  BY <1>2 DEF StoreTypeOK
<1>4. \A t \in Slots \ {s} : runs'[t] = runs[t] /\ recorded'[t] = recorded[t]
  BY <1>2 DEF StoreTypeOK
<1>5. RecordedOnce'
  BY <1>3, <1>4 DEF RecordedOnce, Finished, FinishedRow
<1>6. Ledger!Decide(s, o)
  <2> DEFINE before  == [t \in Slots |-> IF Finished(t) THEN runs[t].status ELSE "open"]
             after   == [t \in Slots |-> IF Finished(t)' THEN runs'[t].status ELSE "open"]
             said    == [t \in Slots |-> [i \in DOMAIN recorded[t] |-> recorded[t][i].outcome]]
             saying  == [t \in Slots |-> [i \in DOMAIN recorded'[t] |-> recorded'[t][i].outcome]]
  <2>1. before[s] = "open"
    OBVIOUS
  <2>2. after = [before EXCEPT ![s] = o]
    <3>1. after[s] = o
      BY <1>3 DEF Finished, FinishedRow
    <3>2. \A t \in Slots \ {s} : after[t] = before[t]
      BY <1>4 DEF Finished
    <3> QED
      BY <3>1, <3>2
  <2>3. said[s] = <<>>
    BY <1>1
  <2>4. [i \in DOMAIN <<fact>> |-> <<fact>>[i].outcome] = <<o>>
    OBVIOUS
  <2>5. saying[s] = <<o>>
    BY <1>3, <2>4
  <2>6. \A t \in Slots \ {s} : saying[t] = said[t]
    BY <1>4
  <2>7. saying = [said EXCEPT ![s] = Append(@, o)]
    <3>1. Append(said[s], o) = <<o>>
      BY <2>3, AppendToEmpty
    <3> HIDE DEF said, saying
    <3>2. said = [t \in Slots |-> said[t]] /\ saying = [t \in Slots |-> saying[t]]
      BY DEF said, saying
    <3> QED
      BY <2>5, <2>6, <3>1, <3>2
  <2> QED
    BY <2>1, <2>2, <2>7 DEF Ledger!Decide
<1>7. recorded' \in [Slots -> Seq([id : Nat, outcome : Outcomes])]
  <2>1. <<fact>> \in Seq([id : Nat, outcome : Outcomes])
    OBVIOUS
  <2> HIDE DEF fact
  <2> QED
    BY <1>2, <2>1 DEF StoreTypeOK
<1> QED
  BY <1>5, <1>6, <1>7

\* Complete decides the slot for the worker that holds its lease.
LEMMA CompleteIsStep ==
    ASSUME StoreInv, NEW s \in Slots, NEW id \in Nat, NEW holder \in Nat,
           NEW o \in ExecutedOutcomes, Complete(s, id, holder, o)
    PROVE  StoreStep
<1> USE StatusesDiffer DEF StoreInv
<1>1. InFlight(s) /\ runs[s].id = id /\ runs[s].holder = holder /\ ~ Finished(s)
  BY DEF Complete, HoldsLease, InFlight, Finished
<1>2. /\ runs' = [runs EXCEPT ![s] = FinishedRow(id, o)]
      /\ observations' = [observations EXCEPT ![s] = Append(@, [id |-> id, by |-> holder])]
      /\ recorded' = [recorded EXCEPT ![s] = Append(@, [id |-> id, outcome |-> o])]
      /\ UNCHANGED minted
  BY DEF Complete
<1>3. /\ RecordedOnce' /\ Ledger!Decide(s, o)
      /\ recorded' \in [Slots -> Seq([id : Nat, outcome : Outcomes])]
  BY <1>1, <1>2, DecisionIsStep
<1>4. observations[s] = <<>> /\ holder = minted[s]
  BY <1>1 DEF ObservedByLastClaimant, HeldByLastClaimant, InFlight
<1>5. observations' = [observations EXCEPT ![s] = <<[id |-> id, by |-> minted[s]]>>]
  BY <1>2, <1>4 DEF StoreTypeOK
<1>6. FinishedRow(id, o) \in Rows
  BY DEF FinishedRow, Rows, Nobody
<1>7. StoreTypeOK'
  <2>1. <<[id |-> id, by |-> minted[s]]>> \in Seq([id : Nat, by : Nat])
    BY DEF StoreTypeOK
  <2>2. observations' \in [Slots -> Seq([id : Nat, by : Nat])]
    BY <1>5, <2>1 DEF StoreTypeOK
  <2>4. runs' \in [Slots -> Rows]
    BY <1>2, <1>6 DEF StoreTypeOK
  <2> QED
    BY <1>2, <1>3, <2>2, <2>4 DEF StoreTypeOK
<1>8. /\ \A t \in Slots \ {s} : runs'[t] = runs[t] /\ observations'[t] = observations[t]
      /\ runs'[s] = FinishedRow(id, o)
      /\ observations'[s] = <<[id |-> id, by |-> minted[s]]>>
  BY <1>2, <1>5 DEF StoreTypeOK
<1>9. ObservedByLastClaimant'
  BY <1>2, <1>8 DEF ObservedByLastClaimant, FinishedRow
<1>10. HeldByLastClaimant'
  BY <1>2, <1>8 DEF HeldByLastClaimant, InFlight, FinishedRow
<1> QED
  BY <1>3, <1>7, <1>9, <1>10 DEF StoreStep, Ledger!Next

\* ReleaseSlot forgets an undecided row.
LEMMA ReleaseIsStep ==
    ASSUME StoreInv, NEW s \in Slots, NEW id, NEW holder, ReleaseSlot(s, id, holder)
    PROVE  StoreStep
<1> USE StatusesDiffer DEF StoreInv
<1>1. ~ Finished(s) /\ runs[s].status \notin ExecutedOutcomes
  BY DEF ReleaseSlot, HoldsLease, InFlight, Finished
<1>2. /\ runs' = [runs EXCEPT ![s] = AbsentRow]
      /\ UNCHANGED <<observations, recorded, minted>>
  BY DEF ReleaseSlot
<1>3. AbsentRow \in Rows
  BY DEF AbsentRow, Rows, Nobody
<1>4. StoreTypeOK'
  BY <1>2, <1>3 DEF StoreTypeOK
<1>5. runs'[s].status = "absent" /\ \A t \in Slots \ {s} : runs'[t] = runs[t]
  BY <1>2 DEF StoreTypeOK, AbsentRow
<1>6. \A t \in Slots : /\ Finished(t)' <=> Finished(t)
                       /\ Finished(t) => runs'[t] = runs[t]
  BY <1>1, <1>5 DEF Finished
<1>7. RecordedOnce'
  BY <1>2, <1>6 DEF RecordedOnce
<1>8. ObservedByLastClaimant'
  BY <1>1, <1>2, <1>5 DEF ObservedByLastClaimant
<1>9. HeldByLastClaimant'
  BY <1>2, <1>5 DEF HeldByLastClaimant, InFlight
<1>10. UNCHANGED Ledger!ledgerVars
  BY <1>2, <1>6 DEF Ledger!ledgerVars
<1> QED
  BY <1>4, <1>7, <1>8, <1>9, <1>10 DEF StoreStep

\* RecordSkipped decides a slot nobody claimed.
LEMMA SkipIsStep ==
    ASSUME StoreInv, NEW s \in Slots, RecordSkipped(s)
    PROVE  StoreStep
<1> USE StatusesDiffer DEF StoreInv
<1> DEFINE id == minted[s] + 1
<1>1. ~ Finished(s) /\ runs[s].status \notin ExecutedOutcomes /\ id \in Nat
  BY DEF RecordSkipped, SkipInserts, Absent, Finished, StoreTypeOK
<1>2. /\ runs' = [runs EXCEPT ![s] = FinishedRow(id, "skipped")]
      /\ minted' = [minted EXCEPT ![s] = @ + 1]
      /\ recorded' = [recorded EXCEPT ![s] = Append(@, [id |-> id, outcome |-> "skipped"])]
      /\ UNCHANGED observations
  BY DEF RecordSkipped
<1>3. /\ RecordedOnce' /\ Ledger!Decide(s, "skipped")
      /\ recorded' \in [Slots -> Seq([id : Nat, outcome : Outcomes])]
  <2> HIDE DEF id
  <2> QED BY <1>1, <1>2, DecisionIsStep
<1>4. FinishedRow(id, "skipped") \in Rows
  BY <1>1 DEF FinishedRow, Rows, Nobody
<1>5. StoreTypeOK'
  <2>2. runs' \in [Slots -> Rows]
    <3> HIDE DEF id
    <3> QED BY <1>2, <1>4 DEF StoreTypeOK
  <2>3. minted' \in [Slots -> Nat]
    BY <1>2 DEF StoreTypeOK
  <2> QED
    BY <1>2, <1>3, <2>2, <2>3 DEF StoreTypeOK
<1>6. /\ \A t \in Slots \ {s} : runs'[t] = runs[t] /\ minted'[t] = minted[t]
      /\ runs'[s] = FinishedRow(id, "skipped")
  BY <1>2 DEF StoreTypeOK
<1>7. ObservedByLastClaimant'
  <2>1. observations'[s] = <<>>
    BY <1>1, <1>2 DEF ObservedByLastClaimant
  <2>2. runs'[s].status \notin ExecutedOutcomes
    BY <1>6 DEF FinishedRow
  <2> QED
    BY <1>2, <1>6, <2>1, <2>2 DEF ObservedByLastClaimant
<1>8. HeldByLastClaimant'
  BY <1>2, <1>6 DEF HeldByLastClaimant, InFlight, FinishedRow
<1> QED
  BY <1>3, <1>5, <1>7, <1>8 DEF StoreStep, Ledger!Next
=============================================================================
