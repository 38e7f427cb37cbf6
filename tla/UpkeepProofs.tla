---------------------------- MODULE UpkeepProofs ----------------------------
(* Theorems of Keyring, for every number of processes, secrets and keys, and *)
(* of Retention, for every number of workers and manual Runs and every       *)
(* length of a month, of the window and of the lookahead.                    *)
EXTENDS Keyring, Retention, TLAPS

USE KeyringAssumption, RetentionAssumption

-----------------------------------------------------------------------------
(* Keyring *)

Deployable(ring) == ring = Unset \/ ring.first \in ring.keys

\* What is deployed has no key above its first one.
DeployedSound == Deployable(deployed) /\ deployed.keys \subseteq 1..deployed.first

\* A process seals with a key that is still deployed, and one that is up to date
\* opens all that may be sealed.
ReplicasSound ==
    \A p \in Replicas :
        /\ Deployable(replica[p].ring)
        /\ replica[p].ring.first \in deployed.keys \cup {0}
        /\ UpToDate(p) => deployed.keys \subseteq replica[p].ring.keys

SealedUnderDeployed == \A v \in SecretRows : Sealed(v) => envelope[v].key \in deployed.keys

\* What the operator has confirmed stays so until the next key: nobody who could
\* seal with an old key is left.
ConfirmedSound ==
    confirmed =>
        /\ deployed # Unset
        /\ AllUpToDate
        /\ \A v \in SecretRows : Sealed(v) => envelope[v].key = deployed.first

KeyringIInv ==
    /\ KeyringTypeOK
    /\ DeployedSound
    /\ ReplicasSound
    /\ SealedUnderDeployed
    /\ ConfirmedSound

Resting == [pc : {"down", "serving"}, ring : Keyrings]
Starting == [pc : {"starting"}, ring : Keyrings, listed : [SecretRows -> Envelopes \cup {None}]]

LEMMA KeyringInitInv == KeyringInit => KeyringIInv
<1> SUFFICES ASSUME KeyringInit PROVE KeyringIInv
    OBVIOUS
<1>1. Unset \in Keyrings
    BY DEF Unset, Keyrings
<1>2. KeyringTypeOK
    BY <1>1 DEF KeyringInit, KeyringTypeOK
<1>3. \A v \in SecretRows : ~ Sealed(v)
    BY DEF KeyringInit, Sealed, None
<1>4. DeployedSound /\ ReplicasSound
    BY DEF KeyringInit, DeployedSound, ReplicasSound, Deployable, Unset
<1> QED
    BY <1>2, <1>3, <1>4 DEF KeyringIInv, SealedUnderDeployed, ConfirmedSound, KeyringInit

LEMMA StartingReplica ==
    ASSUME KeyringTypeOK, NEW p \in Replicas
    PROVE  /\ replica[p].ring \in Keyrings
           /\ replica[p].pc = "starting" => replica[p] \in Starting
BY DEF KeyringTypeOK, Starting

\* A process that is stopped, started or served with a keyring that may be its own
\* or the deployed one.
LEMMA BecomesKeeps ==
    ASSUME KeyringIInv, NEW p \in Replicas, NEW pc \in {"down", "serving"},
           NEW ring \in {replica[p].ring, deployed},
           Becomes(p, pc, ring), UNCHANGED <<deployed, confirmed, envelope>>
    PROVE  KeyringIInv'
<1>1. ring \in Keyrings
    BY StartingReplica DEF KeyringIInv, KeyringTypeOK
<1>2. KeyringTypeOK'
    BY <1>1 DEF KeyringIInv, KeyringTypeOK, Becomes
<1>3. \A q \in Replicas : replica'[q].ring = IF q = p THEN ring ELSE replica[q].ring
    BY DEF KeyringIInv, KeyringTypeOK, Becomes
<1>4. Deployable(deployed) /\ deployed.first \in deployed.keys \cup {0}
    BY DEF KeyringIInv, DeployedSound, Deployable, Unset
<1>5. ReplicasSound'
    BY <1>3, <1>4 DEF KeyringIInv, ReplicasSound, UpToDate, Deployable
<1>6. ConfirmedSound'
    BY <1>3 DEF KeyringIInv, ConfirmedSound, AllUpToDate, UpToDate, Sealed
<1> QED
    BY <1>2, <1>5, <1>6 DEF KeyringIInv, DeployedSound, Deployable, SealedUnderDeployed, Sealed

\* A new envelope of a process that has a key.
LEMMA SealedByReplica ==
    ASSUME KeyringIInv, NEW p \in Replicas, replica[p].ring # Unset
    PROVE  /\ replica[p].ring.first \in deployed.keys
           /\ replica[p].ring.first \in 1..MaxKey
           /\ confirmed => replica[p].ring.first = deployed.first
BY StartingReplica
   DEF KeyringIInv, ReplicasSound, ConfirmedSound, AllUpToDate, UpToDate, Deployable, Keyrings,
       KeyringTypeOK
\* What a process that is starting does to itself leaves its keyring alone.
LEMMA StartKeeps ==
    ASSUME KeyringIInv, NEW p \in Replicas, Start(p)
    PROVE  KeyringIInv'
<1> DEFINE listed == [v \in SecretRows |-> IF Sealed(v) THEN envelope[v] ELSE None]
<1>1. listed \in [SecretRows -> Envelopes \cup {None}]
    BY DEF KeyringIInv, KeyringTypeOK, Sealed, Retired
<1>2. replica' = [replica EXCEPT ![p] =
          [pc |-> "starting", ring |-> replica[p].ring, listed |-> listed]]
    BY DEF Start
<1> HIDE DEF listed
<1>3. KeyringTypeOK'
    BY <1>1, <1>2, StartingReplica DEF KeyringIInv, KeyringTypeOK, Start
<1>4. \A q \in Replicas : replica'[q].ring = replica[q].ring
    BY <1>2 DEF KeyringIInv, KeyringTypeOK
<1> QED
    BY <1>3, <1>4 DEF KeyringIInv, DeployedSound, ReplicasSound, SealedUnderDeployed,
       ConfirmedSound, AllUpToDate, UpToDate, Deployable, Sealed, Start

LEMMA RewrapKeeps ==
    ASSUME KeyringIInv, NEW p \in Replicas, Rewrap(p)
    PROVE  KeyringIInv'
<1>1. PICK v \in Listed(p) :
          LET old == replica[p].listed[v]
              first == replica[p].ring.first IN
          /\ CanOpen(p, old)
          /\ old.number < MaxSeals
          /\ replica' = [replica EXCEPT ![p].listed[v] = None]
          /\ envelope' = IF old.key # first /\ Unreplaced(v, old)
                         THEN [envelope EXCEPT ![v] = [old EXCEPT !.key = first, !.number = @ + 1]]
                         ELSE envelope
    BY DEF Rewrap
<1> DEFINE old == replica[p].listed[v]
           first == replica[p].ring.first
           new == [old EXCEPT !.key = first, !.number = @ + 1]
<1>2. replica[p] \in Starting
    BY StartingReplica DEF KeyringIInv, Rewrap
<1>3. v \in SecretRows /\ old \in Envelopes
    BY <1>2 DEF Listed, Starting
<1>4. replica[p].ring # Unset
    BY <1>1 DEF CanOpen, Unset
<1>5. /\ first \in deployed.keys /\ first \in 1..MaxKey
      /\ confirmed => first = deployed.first
    BY <1>4, SealedByReplica
<1>6. new \in Envelopes /\ new.key = first /\ new.state = "sealed"
    <2>1. old.number < MaxSeals
        BY <1>1
    <2>2. old.state = "sealed" /\ old.number + 1 \in 1..MaxSeals
        BY <1>3, <2>1 DEF Envelopes
    <2> HIDE DEF old, first
    <2> QED
        BY <1>3, <1>5, <2>2 DEF Envelopes
<1>7. envelope' = envelope \/ envelope' = [envelope EXCEPT ![v] = new]
    BY <1>1
<1>8. [replica[p] EXCEPT !.listed[v] = None] \in Starting
    BY <1>2, <1>3 DEF Starting
<1>9. replica' = [replica EXCEPT ![p] = [replica[p] EXCEPT !.listed[v] = None]]
    BY <1>1
<1> HIDE DEF new
<1>10. UNCHANGED <<deployed, confirmed>>
    BY DEF Rewrap
<1>11. KeyringTypeOK'
    BY <1>6, <1>7, <1>8, <1>9, <1>10 DEF KeyringIInv, KeyringTypeOK, Starting
<1>12. \A q \in Replicas : replica'[q].ring = replica[q].ring
    BY <1>2, <1>9 DEF KeyringIInv, KeyringTypeOK, Starting
<1>13. DeployedSound' /\ ReplicasSound'
    BY <1>10, <1>12
       DEF KeyringIInv, DeployedSound, ReplicasSound, UpToDate, Deployable
<1>14. \A w \in SecretRows : envelope'[w] = envelope[w] \/ envelope'[w] = new
    BY <1>3, <1>7 DEF KeyringIInv, KeyringTypeOK
<1>15. SealedUnderDeployed'
    BY <1>5, <1>6, <1>10, <1>14 DEF KeyringIInv, SealedUnderDeployed, Sealed
<1>16. ConfirmedSound'
    BY <1>5, <1>6, <1>10, <1>12, <1>14
       DEF KeyringIInv, ConfirmedSound, AllUpToDate, UpToDate, Sealed
<1> QED
    BY <1>11, <1>13, <1>15, <1>16 DEF KeyringIInv

LEMMA SecretStepKeeps ==
    ASSUME KeyringIInv, NEW p \in Replicas, NEW v \in SecretRows,
           SealNew(p, v) \/ Retire(p, v)
    PROVE  KeyringIInv'
<1> DEFINE new == [state |-> "sealed", key |-> replica[p].ring.first, number |-> 1]
<1>1. UNCHANGED <<deployed, confirmed, replica>>
    BY DEF SealNew, Retire
<1>2. DeployedSound' /\ ReplicasSound'
    BY <1>1 DEF KeyringIInv, DeployedSound, ReplicasSound, UpToDate, Deployable
<1>3. CASE SealNew(p, v)
    <2>1. /\ replica[p].ring.first \in deployed.keys /\ replica[p].ring.first \in 1..MaxKey
          /\ confirmed => replica[p].ring.first = deployed.first
        BY <1>3, SealedByReplica DEF SealNew
    <2>2. new \in Envelopes
        BY <2>1 DEF Envelopes
    <2>3. envelope' = [envelope EXCEPT ![v] = new]
        BY <1>3 DEF SealNew
    <2>4. KeyringTypeOK'
        BY <1>1, <2>2, <2>3 DEF KeyringIInv, KeyringTypeOK
    <2>5. SealedUnderDeployed'
        BY <1>1, <2>1, <2>3 DEF KeyringIInv, KeyringTypeOK, SealedUnderDeployed, Sealed
    <2>6. ConfirmedSound'
        BY <1>1, <2>1, <2>3
           DEF KeyringIInv, KeyringTypeOK, ConfirmedSound, AllUpToDate, UpToDate, Sealed
    <2> QED
        BY <1>2, <2>4, <2>5, <2>6 DEF KeyringIInv
<1>4. CASE Retire(p, v)
    <2>1. envelope' = [envelope EXCEPT ![v] = Retired]
        BY <1>4 DEF Retire
    <2>2. KeyringTypeOK'
        BY <1>1, <2>1 DEF KeyringIInv, KeyringTypeOK
    <2>3. \A w \in SecretRows : Sealed(w)' => Sealed(w) /\ envelope'[w] = envelope[w]
        BY <2>1 DEF KeyringIInv, KeyringTypeOK, Sealed, Retired
    <2>4. SealedUnderDeployed' /\ ConfirmedSound'
        BY <1>1, <2>3
           DEF KeyringIInv, SealedUnderDeployed, ConfirmedSound, AllUpToDate, UpToDate
    <2> QED
        BY <1>2, <2>2, <2>4 DEF KeyringIInv
<1> QED
    BY <1>3, <1>4

LEMMA OperatorKeeps ==
    ASSUME KeyringIInv, PrependKey \/ Confirm \/ RemoveOldKeys
    PROVE  KeyringIInv'
<1>1. UNCHANGED <<replica, envelope>>
    BY DEF PrependKey, Confirm, RemoveOldKeys
<1>2. CASE PrependKey
    <2>1. /\ deployed' = [first |-> deployed.first + 1,
                          keys |-> deployed.keys \cup {deployed.first + 1}]
          /\ confirmed' = FALSE
          /\ deployed.first \in 0..MaxKey /\ deployed.first < MaxKey
        BY <1>2 DEF PrependKey, KeyringIInv, KeyringTypeOK, Keyrings
    <2>2. deployed.first + 1 \in 1..MaxKey /\ deployed.keys \in SUBSET (1..MaxKey)
        BY <2>1 DEF KeyringIInv, KeyringTypeOK, Keyrings
    <2>3. deployed' \in Keyrings
        BY <2>1, <2>2 DEF Keyrings
    <2>4. KeyringTypeOK'
        BY <1>1, <2>1, <2>3 DEF KeyringIInv, KeyringTypeOK
    <2>5. DeployedSound'
        BY <2>1 DEF KeyringIInv, DeployedSound, Deployable
    <2>6. \A p \in Replicas : ~ UpToDate(p)'
        BY <1>1, <2>1 DEF KeyringIInv, DeployedSound, ReplicasSound, UpToDate
    <2>7. ReplicasSound'
        BY <1>1, <2>1, <2>6 DEF KeyringIInv, ReplicasSound, Deployable
    <2> QED
        BY <1>1, <2>1, <2>5, <2>7, <2>4
           DEF KeyringIInv, SealedUnderDeployed, ConfirmedSound, Sealed
<1>3. CASE Confirm
    BY <1>1, <1>3 DEF Confirm, KeyringIInv, KeyringTypeOK, DeployedSound, ReplicasSound,
       SealedUnderDeployed, ConfirmedSound, AllUpToDate, UpToDate, Deployable, Sealed
<1>4. CASE RemoveOldKeys
    <2>1. /\ confirmed /\ confirmed'
          /\ deployed.first \in deployed.keys
          /\ deployed' = [deployed EXCEPT !.keys = {deployed.first}]
        BY <1>4 DEF RemoveOldKeys, KeyringIInv, ConfirmedSound, DeployedSound, Deployable
    <2>2. deployed'.first = deployed.first /\ deployed'.keys = {deployed.first}
        BY <2>1 DEF KeyringIInv, KeyringTypeOK, Keyrings
    <2>3. KeyringTypeOK'
        BY <1>1, <2>1 DEF KeyringIInv, KeyringTypeOK, Keyrings
    <2>4. DeployedSound'
        BY <2>1, <2>2 DEF KeyringIInv, DeployedSound, Deployable, KeyringTypeOK, Keyrings
    <2>5. ReplicasSound'
        BY <1>1, <2>1, <2>2
           DEF KeyringIInv, ReplicasSound, ConfirmedSound, AllUpToDate, UpToDate, Deployable
    <2>6. SealedUnderDeployed' /\ ConfirmedSound'
        BY <1>1, <2>1, <2>2
           DEF KeyringIInv, SealedUnderDeployed, ConfirmedSound, AllUpToDate, UpToDate, Sealed,
               Unset
    <2> QED
        BY <2>3, <2>4, <2>5, <2>6 DEF KeyringIInv
<1> QED
    BY <1>2, <1>3, <1>4

LEMMA ReplicaStepKeeps ==
    ASSUME KeyringIInv, NEW p \in Replicas, ReplicaStep(p) \/ Redeploy(p)
    PROVE  KeyringIInv'
<1>1. CASE Start(p)
    BY <1>1, StartKeeps
<1>2. CASE RefuseToStart(p)
    BY <1>2, BecomesKeeps DEF RefuseToStart
<1>3. CASE Rewrap(p)
    BY <1>3, RewrapKeeps
<1>4. CASE Serve(p)
    BY <1>4, BecomesKeeps DEF Serve
<1>5. CASE Stop(p)
    BY <1>5, BecomesKeeps DEF Stop
<1>6. ASSUME NEW v \in SecretRows, SealNew(p, v) \/ Retire(p, v)
      PROVE  KeyringIInv'
    BY <1>6, SecretStepKeeps
<1>7. CASE Redeploy(p)
    BY <1>7, BecomesKeeps DEF Redeploy
<1> QED
    BY <1>1, <1>2, <1>3, <1>4, <1>5, <1>6, <1>7 DEF ReplicaStep

LEMMA KeyringStepKeeps == KeyringIInv /\ [KeyringNext]_keyringVars => KeyringIInv'
<1> SUFFICES ASSUME KeyringIInv, [KeyringNext]_keyringVars
             PROVE  KeyringIInv'
    OBVIOUS
<1>1. CASE UNCHANGED keyringVars
    BY <1>1 DEF keyringVars, KeyringIInv, KeyringTypeOK, DeployedSound, ReplicasSound,
       SealedUnderDeployed, ConfirmedSound, AllUpToDate, UpToDate, Deployable, Sealed
<1>2. ASSUME NEW p \in Replicas, ReplicaStep(p) \/ Redeploy(p)
      PROVE  KeyringIInv'
    BY <1>2, ReplicaStepKeeps
<1>3. CASE PrependKey \/ Confirm \/ RemoveOldKeys
    BY <1>3, OperatorKeeps
<1> QED
    BY <1>1, <1>2, <1>3 DEF KeyringNext

LEMMA NothingLockedOutHolds == KeyringIInv => NothingLockedOut
BY DEF KeyringIInv, SealedUnderDeployed, ReplicasSound, NothingLockedOut, CanOpen

\* The rows of the keyring, the processes and the secrets are well formed, and the
\* invariant holds: the operator's procedure keeps every key that some row needs.
THEOREM KeyringInvariant == KeyringSpec => []KeyringIInv
<1> QED
    BY KeyringInitInv, KeyringStepKeeps, PTL DEF KeyringSpec

\* However the processes start, stop and seal while keys are rotated, whatever is
\* sealed can be opened with the deployed keyring.
THEOREM KeyringLocksNothingOut == KeyringSpec => []NothingLockedOut
<1> QED
    BY KeyringInvariant, NothingLockedOutHolds, PTL

\* A process that has listed a secret before it was retired does not bring its
\* ciphertext back, however late it re-seals.
THEOREM KeyringRetiredStaysEmpty == KeyringSpec => RetiredStaysEmpty
<1> DEFINE Stays == \A v \in SecretRows : envelope[v] = Retired => envelope'[v] = Retired
<1>1. KeyringTypeOK /\ [KeyringNext]_keyringVars => [Stays]_keyringVars
    <2> SUFFICES ASSUME KeyringTypeOK, KeyringNext, NEW v \in SecretRows,
                        envelope[v] = Retired
                 PROVE  envelope'[v] = Retired
        OBVIOUS
    <2>1. CASE envelope' = envelope
        BY <2>1
    <2>2. ASSUME NEW p \in Replicas, Rewrap(p)
          PROVE  envelope'[v] = Retired
        <3>1. replica[p] \in Starting
            BY <2>2, StartingReplica DEF Rewrap
        <3>2. \A w \in Listed(p) : replica[p].listed[w] # Retired
            BY <3>1 DEF Listed, Starting, Envelopes, Retired
        <3> QED
            BY <2>2, <3>2 DEF Rewrap, Unreplaced, KeyringTypeOK
    <2>3. ASSUME NEW p \in Replicas, NEW w \in SecretRows, SealNew(p, w) \/ Retire(p, w)
          PROVE  envelope'[v] = Retired
        BY <2>3 DEF SealNew, Retire, KeyringTypeOK, None, Retired
    <2> QED
        BY <2>1, <2>2, <2>3 DEF KeyringNext, ReplicaStep, Start, RefuseToStart, Serve, Stop,
           Redeploy, PrependKey, Confirm, RemoveOldKeys
<1>2. KeyringIInv => KeyringTypeOK
    BY DEF KeyringIInv
<1> QED
    BY <1>1, <1>2, KeyringInvariant, PTL DEF KeyringSpec, RetiredStaysEmpty
-----------------------------------------------------------------------------
(* Retention *)

LEMMA MonthOfDay ==
    \A day \in Nat : /\ MonthOf(day) \in Nat
                     /\ MonthOf(day) * MonthLength <= day
                     /\ day < End(MonthOf(day))
BY DEF MonthOf, End

LEMMA MultiplesInOrder == \A a, b, n \in Nat : a < b => (a + 1) * n <= b * n
OBVIOUS

LEMMA LaterMonths == \A d, e \in Nat : d <= e => MonthOf(d) <= MonthOf(e)
<1> SUFFICES ASSUME NEW d \in Nat, NEW e \in Nat, d <= e, MonthOf(e) < MonthOf(d)
             PROVE  FALSE
    BY MonthOfDay
<1>1. (MonthOf(e) + 1) * MonthLength <= MonthOf(d) * MonthLength
    BY MonthOfDay, MultiplesInOrder
<1> QED
    BY <1>1, MonthOfDay DEF End

\* A month that has ended is over.
LEMMA EndedMonths == \A m, day \in Nat : End(m) <= day => m < MonthOf(day)
<1> SUFFICES ASSUME NEW m \in Nat, NEW day \in Nat, End(m) <= day, MonthOf(day) <= m
             PROVE  FALSE
    BY MonthOfDay
<1>1. End(MonthOf(day)) <= End(m)
    BY MonthOfDay, MultiplesInOrder DEF End
<1>2. End(m) \in Nat /\ End(MonthOf(day)) \in Nat
    BY MonthOfDay DEF End
<1> QED
    BY <1>1, <1>2, MonthOfDay

LEMMA MaxOfTwo == \A a, b \in Nat : Max({a, b}) \in {a, b} /\ Max({a, b}) >= a /\ Max({a, b}) >= b
BY DEF Max

\* Upkeep works with an instant of the past; both tables have the same months.
UpkeepSound ==
    /\ \A w \in Workers : upkeep[w].now <= today
    /\ attached["runs"] = attached["observations"]

\* An execution ends within a day, and only a request that has begun has a row.
ManualSound ==
    \A r \in Requests :
        /\ trigger[r].pc \in {"executing", "recording", "releasing"} =>
              trigger[r].day <= today /\ today <= trigger[r].day + 1
        /\ trigger[r].pc = "new" => run[r] = "none"

\* From this month to the last one that was created there is no hole.
CoveredAhead ==
    \A t \in Tables, m \in Nat : MonthOf(today) <= m /\ m < covered => m \in attached[t]

RetentionIInv ==
    /\ RetentionTypeOK
    /\ UpkeepSound
    /\ ManualSound
    /\ EvidenceKept
    /\ CoveredAhead

LEMMA RetentionInitInv == RetentionInit => RetentionIInv
<1> SUFFICES ASSUME RetentionInit PROVE RetentionIInv
    OBVIOUS
<1>1. RetentionTypeOK
    BY MonthOfDay DEF RetentionInit, RetentionTypeOK
<1> QED
    BY <1>1 DEF RetentionInit, RetentionIInv, UpkeepSound, ManualSound, EvidenceKept,
       CoveredAhead, Tables

LEMMA ManualKeeps ==
    ASSUME RetentionIInv, NEW r \in Requests, Manual(r)
    PROVE  RetentionIInv'
<1> USE DEF Rows, Moves, Elsewhere
<1>1. UNCHANGED <<today, attached, upkeep, covered>>
    BY DEF Manual, ClaimManual, RefuseManual, UpdateRun, RecordManual, GiveUp,
           ReleaseManual, LoseManual
<1>2. today \in Nat /\ trigger[r].day \in 0..LastDay
    BY DEF RetentionIInv, RetentionTypeOK
<1>3. UpkeepSound' /\ CoveredAhead'
    BY <1>1 DEF RetentionIInv, UpkeepSound, CoveredAhead
<1>4. RetentionTypeOK' /\ ManualSound' /\ EvidenceKept'
    <2> USE <1>1, <1>2 DEF RetentionIInv, RetentionTypeOK, ManualSound, EvidenceKept
    <2>1. CASE ClaimManual(r)
        BY <2>1 DEF ClaimManual
    <2>2. CASE RefuseManual(r)
        BY <2>2 DEF RefuseManual
    <2>3. CASE UpdateRun(r)
        BY <2>3 DEF UpdateRun
    <2>4. CASE RecordManual(r)
        BY <2>4 DEF RecordManual
    <2>5. CASE GiveUp(r)
        BY <2>5 DEF GiveUp
    <2>6. CASE ReleaseManual(r)
        BY <2>6 DEF ReleaseManual
    <2>7. CASE LoseManual(r)
        BY <2>7 DEF LoseManual
    <2> QED
        BY <2>1, <2>2, <2>3, <2>4, <2>5, <2>6, <2>7 DEF Manual
<1> QED
    BY <1>3, <1>4 DEF RetentionIInv

\* A month whose partition is dropped has nothing in the window, no execution in
\* progress, and is over.
LEMMA DroppedIsOld ==
    ASSUME RetentionIInv, NEW w \in Workers, NEW t \in Tables, NEW m \in ExpiredMonths(w, t)
    PROVE  /\ \A r \in Requests : MonthOf(trigger[r].day) = m => trigger[r].day + Days < today
           /\ m < MonthOf(today)
<1>1. upkeep[w].now \in Nat /\ today \in Nat /\ upkeep[w].now <= today
    BY DEF RetentionIInv, RetentionTypeOK, UpkeepSound
<1>2. m \in Nat /\ End(m) \in Nat /\ End(m) + Days <= today
    <2>1. m \in Nat
        BY DEF ExpiredMonths, RetentionIInv, RetentionTypeOK, Months, Tables
    <2>2. End(m) \in Nat
        BY <2>1 DEF End
    <2> QED
        BY <1>1, <2>1, <2>2 DEF ExpiredMonths, Expired
<1>3. ASSUME NEW r \in Requests, MonthOf(trigger[r].day) = m
      PROVE  trigger[r].day + Days < today
    <2>1. trigger[r].day \in Nat
        BY DEF RetentionIInv, RetentionTypeOK
    <2> QED
        BY <1>1, <1>2, <1>3, <2>1, MonthOfDay
<1>4. m < MonthOf(today)
    BY <1>1, <1>2, EndedMonths
<1> QED
    BY <1>3, <1>4

LEMMA DropKeeps ==
    ASSUME RetentionIInv, NEW w \in Workers, DropExpiredPartitions(w)
    PROVE  RetentionIInv'
<1> DEFINE gone(r, t) == MonthOf(trigger[r].day) \in ExpiredMonths(w, t)
<1>1. /\ attached' = [t \in Tables |-> attached[t] \ ExpiredMonths(w, t)]
      /\ run' = [r \in Requests |-> IF gone(r, "runs") THEN "none" ELSE run[r]]
      /\ observation' = [r \in Requests |-> observation[r] /\ ~ gone(r, "observations")]
      /\ upkeep' = [upkeep EXCEPT ![w] = [pc |-> "idle", now |-> 0]]
      /\ UNCHANGED <<today, trigger, covered>>
    BY DEF DropExpiredPartitions, Rests
<1>2. ExpiredMonths(w, "runs") = ExpiredMonths(w, "observations")
    BY DEF ExpiredMonths, RetentionIInv, UpkeepSound
<1>3. \A r \in Requests : gone(r, "runs") <=> gone(r, "observations")
    BY <1>2
<1>4. \A r \in Requests : gone(r, "runs") => trigger[r].day + Days < today
    BY DroppedIsOld DEF Tables
<1> HIDE DEF gone
<1>5. RetentionTypeOK'
    <2>1. run' \in [Requests -> {"none", "inFlight", "recorded"}]
          /\ observation' \in [Requests -> BOOLEAN]
        BY <1>1 DEF RetentionIInv, RetentionTypeOK
    <2>2. attached' \in [Tables -> SUBSET Months]
        BY <1>1 DEF RetentionIInv, RetentionTypeOK
    <2>3. upkeep' \in [Workers -> [pc : {"idle", "ensuring", "dropping", "detaching"},
                                  now : 0..LastDay]]
        BY <1>1 DEF RetentionIInv, RetentionTypeOK
    <2> QED
        BY <1>1, <2>1, <2>2, <2>3 DEF RetentionIInv, RetentionTypeOK
<1>6. UpkeepSound'
    BY <1>1, <1>2 DEF RetentionIInv, UpkeepSound, RetentionTypeOK, Tables
<1>7. ManualSound'
    BY <1>1 DEF RetentionIInv, ManualSound, RetentionTypeOK
<1>8. EvidenceKept'
    <2> SUFFICES ASSUME NEW r \in Requests
                 PROVE  /\ trigger[r].pc = "recorded" /\ today <= trigger[r].day + Days
                              => run'[r] = "recorded"
                        /\ trigger[r].pc \in {"executing", "recording"} => run'[r] = "inFlight"
                        /\ run'[r] = "recorded" <=> observation'[r]
        BY <1>1 DEF EvidenceKept
    <2>1. trigger[r].day \in Nat /\ today \in Nat
        BY DEF RetentionIInv, RetentionTypeOK
    <2>2. /\ trigger[r].pc = "recorded" /\ today <= trigger[r].day + Days => run[r] = "recorded"
          /\ trigger[r].pc \in {"executing", "recording"} =>
                run[r] = "inFlight" /\ today <= trigger[r].day + 1
          /\ run[r] = "recorded" <=> observation[r]
        BY DEF RetentionIInv, EvidenceKept, ManualSound
    <2>3. CASE gone(r, "runs")
        <3>1. run'[r] = "none" /\ observation'[r] = FALSE
            BY <1>1, <1>3, <2>3
        <3> QED
            BY <1>4, <2>1, <2>2, <2>3, <3>1
    <2>4. CASE ~ gone(r, "runs")
        <3>1. run'[r] = run[r] /\ (observation'[r] <=> observation[r])
            BY <1>1, <1>3, <2>4
        <3> QED
            BY <2>2, <3>1
    <2> QED
        BY <2>3, <2>4
<1>9. CoveredAhead'
    <2>1. \A t \in Tables : \A m \in ExpiredMonths(w, t) : m < MonthOf(today)
        BY DroppedIsOld
    <2>2. MonthOf(today) \in Nat
        BY MonthOfDay DEF RetentionIInv, RetentionTypeOK
    <2>3. ASSUME NEW t \in Tables, NEW m \in Nat, MonthOf(today) <= m, m < covered
          PROVE  m \in attached'[t]
        <3>1. m \in attached[t]
            BY <2>3 DEF RetentionIInv, CoveredAhead
        <3>2. m \notin ExpiredMonths(w, t)
            BY <2>1, <2>2, <2>3
        <3> QED
            BY <1>1, <3>1, <3>2
    <2> QED
        BY <1>1, <2>3 DEF CoveredAhead
<1> QED
    BY <1>5, <1>6, <1>7, <1>8, <1>9 DEF RetentionIInv

LEMMA EnsureKeeps ==
    ASSUME RetentionIInv, NEW w \in Workers, EnsurePartitions(w)
    PROVE  RetentionIInv'
<1> DEFINE now == upkeep[w].now
           end == MonthOf(now) + Ahead + 1
<1>1. /\ attached' = [t \in Tables |-> attached[t] \cup PartitionPlan(now)]
      /\ covered' = Max({covered, end})
      /\ upkeep' = [upkeep EXCEPT ![w].pc = "dropping"]
      /\ UNCHANGED <<today, trigger, run, observation>>
    BY DEF EnsurePartitions, Upkeep, RowsStay
<1>2. now \in 0..LastDay /\ today \in 0..LastDay /\ now <= today
    BY DEF RetentionIInv, RetentionTypeOK, UpkeepSound
<1>3. /\ MonthOf(now) \in Nat /\ MonthOf(today) \in Nat /\ MonthOf(LastDay) \in Nat
      /\ MonthOf(now) <= MonthOf(today) /\ MonthOf(now) <= MonthOf(LastDay)
    BY <1>2, MonthOfDay, LaterMonths
<1>4. covered \in 0..(MonthOf(LastDay) + Ahead + 1) /\ end \in 0..(MonthOf(LastDay) + Ahead + 1)
    BY <1>3 DEF RetentionIInv, RetentionTypeOK
<1> HIDE DEF end
<1>5. covered' \in 0..(MonthOf(LastDay) + Ahead + 1) /\ covered' \in {covered, end}
    <2>1. covered \in Nat /\ end \in Nat
        BY <1>3, <1>4
    <2>2. covered' \in {covered, end}
        BY <1>1, <2>1, MaxOfTwo
    <2> QED
        BY <1>4, <2>2
<1>6. RetentionTypeOK'
    BY <1>1, <1>5 DEF RetentionIInv, RetentionTypeOK, PartitionPlan
<1>7. UpkeepSound'
    BY <1>1 DEF RetentionIInv, RetentionTypeOK, UpkeepSound, Tables
<1>8. ManualSound' /\ EvidenceKept'
    BY <1>1 DEF RetentionIInv, ManualSound, EvidenceKept
<1>9. CoveredAhead'
    <2> SUFFICES ASSUME NEW t \in Tables, NEW m \in Nat, MonthOf(today) <= m, m < covered'
                 PROVE  m \in attached'[t]
        BY <1>1 DEF CoveredAhead
    <2>1. CASE covered' = covered
        BY <1>1, <2>1 DEF RetentionIInv, CoveredAhead
    <2>2. CASE covered' = end
        <3>1. MonthOf(now) <= m /\ m <= MonthOf(now) + Ahead
            BY <1>3, <2>2 DEF end
        <3>2. m \in Months
            BY <1>3, <3>1 DEF Months
        <3> QED
            BY <1>1, <3>1, <3>2 DEF PartitionPlan
    <2> QED
        BY <1>5, <2>1, <2>2
<1> QED
    BY <1>6, <1>7, <1>8, <1>9 DEF RetentionIInv

LEMMA MaintainKeeps ==
    ASSUME RetentionIInv, NEW w \in Workers, Maintain(w)
    PROVE  RetentionIInv'
<1>1. CASE EnsurePartitions(w)
    BY <1>1, EnsureKeeps
<1>2. CASE DropExpiredPartitions(w)
    BY <1>2, DropKeeps
<1>3. CASE BeginUpkeep(w) \/ DetachObservations(w) \/ BreakUpkeep(w)
    <2>1. UNCHANGED <<today, trigger, run, observation, attached, covered>>
        BY <1>3 DEF BeginUpkeep, DetachObservations, BreakUpkeep, RowsStay
    <2>2. PICK pc \in {"idle", "ensuring", "detaching"}, now \in {0, today, upkeep[w].now} :
              upkeep' = [upkeep EXCEPT ![w] = [pc |-> pc, now |-> now]]
        BY <1>3 DEF BeginUpkeep, DetachObservations, BreakUpkeep, Upkeep, Rests,
           RetentionIInv, RetentionTypeOK
    <2>3. RetentionTypeOK'
        BY <2>1, <2>2 DEF RetentionIInv, RetentionTypeOK
    <2>4. UpkeepSound'
        BY <2>1, <2>2 DEF RetentionIInv, RetentionTypeOK, UpkeepSound
    <2>5. ManualSound' /\ EvidenceKept' /\ CoveredAhead'
        BY <2>1 DEF RetentionIInv, ManualSound, EvidenceKept, CoveredAhead
    <2> QED
        BY <2>3, <2>4, <2>5 DEF RetentionIInv
<1> QED
    BY <1>1, <1>2, <1>3 DEF Maintain

LEMMA NextDayKeeps ==
    ASSUME RetentionIInv, NextDay
    PROVE  RetentionIInv'
<1>1. today \in Nat /\ today' = today + 1 /\ today' \in 0..LastDay
    BY DEF NextDay, RetentionIInv, RetentionTypeOK
<1>2. UNCHANGED <<attached, trigger, run, observation, upkeep, covered>>
    BY DEF NextDay
<1>3. MonthOf(today) \in Nat /\ MonthOf(today') \in Nat /\ MonthOf(today) <= MonthOf(today')
    BY <1>1, MonthOfDay, LaterMonths
<1>4. RetentionTypeOK' /\ UpkeepSound'
    BY <1>1, <1>2 DEF RetentionIInv, RetentionTypeOK, UpkeepSound
<1>5. ManualSound' /\ EvidenceKept'
    BY <1>1, <1>2 DEF RetentionIInv, RetentionTypeOK, ManualSound, EvidenceKept, NextDay
<1>6. CoveredAhead'
    BY <1>2, <1>3 DEF RetentionIInv, CoveredAhead, MonthOf
<1> QED
    BY <1>4, <1>5, <1>6 DEF RetentionIInv

LEMMA RetentionStepKeeps == RetentionIInv /\ [RetentionNext]_retentionVars => RetentionIInv'
<1> SUFFICES ASSUME RetentionIInv, [RetentionNext]_retentionVars
             PROVE  RetentionIInv'
    OBVIOUS
<1>1. CASE UNCHANGED retentionVars
    BY <1>1 DEF retentionVars, RetentionIInv, RetentionTypeOK, UpkeepSound, ManualSound,
       EvidenceKept, CoveredAhead
<1> QED
    BY <1>1, ManualKeeps, MaintainKeeps, NextDayKeeps DEF RetentionNext

THEOREM RetentionInvariant == RetentionSpec => []RetentionIInv
<1> QED
    BY RetentionInitInv, RetentionStepKeeps, PTL DEF RetentionSpec

\* Nothing that was recorded, or is about to be, leaves before its window is over.
THEOREM RetentionKeepsEvidence == RetentionSpec => []EvidenceKept
<1>1. RetentionIInv => EvidenceKept
    BY DEF RetentionIInv
<1> QED
    BY <1>1, RetentionInvariant, PTL

\* As long as the lookahead lasts there is a partition to insert into.
THEOREM RetentionStaysInsertable == RetentionSpec => []Insertable
<1>1. RetentionIInv => Insertable
    BY MonthOfDay DEF RetentionIInv, RetentionTypeOK, CoveredAhead, Insertable
<1> QED
    BY <1>1, RetentionInvariant, PTL

=============================================================================
