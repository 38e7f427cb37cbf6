--------------------------- MODULE IncidentProofs ---------------------------
(* Theorems of Incidents, for every number of Monitors and transitions. *)
EXTENDS Incidents, TLAPS

USE IncidentsAssumption

\* The cursor does not pass what was written.
Behind == \A m \in Monitors : projected[m] <= written[m]

\* Only transitions that were projected have opened an Incident.
OpenedByProjected ==
    \A i \in Incident : incident[i].state # "none" => i[2] <= projected[i[1]]

\* A Monitor has one unresolved Incident at most.
OneActive == \A i, j \in Incident :
    MonitorOf(i) = MonitorOf(j) /\ Unresolved(i) /\ Unresolved(j) => i = j

\* The inductive invariant: what follows health needs to know that there is only
\* one Incident to resolve and that the next transition has opened none yet.
IInv ==
    /\ IncidentTypeOK
    /\ Behind
    /\ OpenedByProjected
    /\ OneActive
    /\ IncidentsFollowHealth

-----------------------------------------------------------------------------
LEMMA IncidentInitInv == IncidentInit => IInv
<1> SUFFICES ASSUME IncidentInit PROVE IInv
    OBVIOUS
<1>1. IncidentTypeOK
    BY DEF IncidentInit, IncidentTypeOK, IncidentRows, TimelineEntries, Incident, Transitions
<1>2. Behind /\ OpenedByProjected /\ OneActive
    BY DEF IncidentInit, Behind, OpenedByProjected, OneActive, Unresolved, Incident,
           Transitions
<1>3. \A m \in Monitors : ActiveOf(m) = {}
    BY DEF IncidentInit, ActiveOf, Unresolved
<1>4. \A m \in Monitors : ~ LeftDown(m)
    <2> SUFFICES ASSUME NEW m \in Monitors PROVE ~ LeftDown(m)
        OBVIOUS
    <2>1. projected[m] = 0 /\ 1..0 = {}
        BY DEF IncidentInit
    <2> QED
        BY <2>1 DEF LeftDown
<1>5. IncidentsFollowHealth
    BY <1>3, <1>4 DEF IncidentsFollowHealth
<1> QED
    BY <1>1, <1>2, <1>5 DEF IInv

\* What a step that only touches an Incident's row and its timeline keeps of the types.
LEMMA RecordTypes ==
    ASSUME IncidentTypeOK, NEW i \in Incident, NEW s \in {"open", "acknowledged", "resolved"},
           NEW v \in Nat, NEW k \in {"opened", "acknowledged", "resolved"},
           Record(i, s, v, k)
    PROVE  /\ incident' \in [Incident -> IncidentRows]
           /\ timeline' \subseteq TimelineEntries
           /\ announced' \subseteq TimelineEntries
           /\ incident' = [incident EXCEPT ![i] = [state |-> s, version |-> v]]
<1>1. [incident |-> i, version |-> v, kind |-> k] \in TimelineEntries
    BY DEF TimelineEntries
<1>2. [state |-> s, version |-> v] \in IncidentRows
    BY DEF IncidentRows
<1> QED
    BY <1>1, <1>2 DEF Record, IncidentTypeOK

LEMMA WriteTransitionInv ==
    ASSUME IInv, NEW m \in Monitors, NEW s \in HealthStates, WriteTransition(m, s)
    PROVE  IInv'
<1> USE DEF WriteTransition
<1>1. IncidentTypeOK'
    <2>1. written[m] + 1 \in 1..MaxTransition
        BY DEF IInv, IncidentTypeOK
    <2>2. written' \in [Monitors -> 0..MaxTransition]
        BY <2>1 DEF IInv, IncidentTypeOK
    <2>3. health' \in [Transitions -> HealthStates \cup {"none"}]
        BY DEF IInv, IncidentTypeOK
    <2> QED
        BY <2>2, <2>3 DEF IInv, IncidentTypeOK
<1>2. Behind'
    BY DEF IInv, IncidentTypeOK, Behind
<1>3. OpenedByProjected' /\ OneActive'
    BY DEF IInv, OpenedByProjected, OneActive, Unresolved
<1>4. \A n \in Monitors : \A w \in 1..projected[n] : health'[<<n, w>>] = health[<<n, w>>]
    BY DEF IInv, IncidentTypeOK, Behind, Transitions
<1>5. \A n \in Monitors : LeftDown(n)' <=> LeftDown(n)
    <2> SUFFICES ASSUME NEW n \in Monitors PROVE LeftDown(n)' <=> LeftDown(n)
        OBVIOUS
    <2>1. projected' = projected /\ projected[n] \in Nat
        BY DEF IInv, IncidentTypeOK
    <2>2. \A v \in 1..projected[n] : \A w \in (v + 1)..projected[n] : w \in 1..projected[n]
        BY <2>1
    <2>3. \A v \in 1..projected[n] : health'[<<n, v>>] = health[<<n, v>>]
        BY <1>4
    <2> HIDE DEF WriteTransition
    <2>4. \A v \in 1..projected[n] :
              (\A w \in (v + 1)..projected[n] : health'[<<n, w>>] # "healthy")
                 <=> (\A w \in (v + 1)..projected[n] : health[<<n, w>>] # "healthy")
        BY <2>2, <2>3
    <2> QED
        BY <2>1, <2>3, <2>4 DEF LeftDown
<1>6. \A n \in Monitors : ActiveOf(n)' = ActiveOf(n)
    BY DEF ActiveOf, Unresolved
<1>7. IncidentsFollowHealth'
    BY <1>5, <1>6 DEF IInv, IncidentsFollowHealth
<1> QED
    BY <1>1, <1>2, <1>3, <1>7 DEF IInv

LEMMA ArchiveInv ==
    ASSUME IInv, NEW m \in Monitors, ArchiveMonitor(m)
    PROVE  IInv'
    BY DEF ArchiveMonitor, IInv, IncidentTypeOK, Behind, OpenedByProjected, OneActive,
           Unresolved, IncidentsFollowHealth, ActiveOf, LeftDown

LEMMA AcknowledgeInv ==
    ASSUME IInv, NEW i \in Incident, AcknowledgeIncident(i)
    PROVE  IInv'
<1>1. incident[i].state = "open"
    BY DEF AcknowledgeIncident, Acknowledges
<1>2. incident[i].version + 1 \in Nat
    BY DEF IInv, IncidentTypeOK, IncidentRows
<1>3. /\ incident' \in [Incident -> IncidentRows]
      /\ timeline' \subseteq TimelineEntries
      /\ announced' \subseteq TimelineEntries
      /\ incident' = [incident EXCEPT
             ![i] = [state |-> "acknowledged", version |-> incident[i].version + 1]]
    BY <1>2, RecordTypes DEF AcknowledgeIncident, IInv
<1>4. UNCHANGED <<archived, written, health, projected>>
    BY DEF AcknowledgeIncident
<1>5. IncidentTypeOK'
    BY <1>3, <1>4 DEF IInv, IncidentTypeOK
<1>6. \A j \in Incident : Unresolved(j)' <=> Unresolved(j)
    BY <1>1, <1>3 DEF Unresolved, IInv, IncidentTypeOK
<1>7. Behind' /\ OpenedByProjected' /\ OneActive'
    BY <1>1, <1>3, <1>4, <1>6 DEF IInv, IncidentTypeOK, Behind, OpenedByProjected, OneActive
<1>8. IncidentsFollowHealth'
    BY <1>4, <1>6 DEF IInv, IncidentsFollowHealth, ActiveOf, LeftDown
<1> QED
    BY <1>5, <1>7, <1>8 DEF IInv

-----------------------------------------------------------------------------
\* What becomes of the projected past when the next transition joins it.
LEMMA LeftDownNext ==
    ASSUME IInv, NEW t \in Transitions, ProcessHealthTransition(t)
    PROVE  /\ health[t] = "down" => LeftDown(t[1])'
           /\ health[t] = "healthy" => ~ LeftDown(t[1])'
           /\ health[t] \notin {"down", "healthy"} => (LeftDown(t[1])' <=> LeftDown(t[1]))
           /\ \A m \in Monitors : m # t[1] => (LeftDown(m)' <=> LeftDown(m))
<1> DEFINE m == t[1]  p == projected[m]
<1>1. /\ m \in Monitors /\ t = <<m, p + 1>> /\ p \in Nat
      /\ projected' = [projected EXCEPT ![m] = p + 1] /\ health' = health
      /\ projected \in [Monitors -> 0..MaxTransition]
    BY DEF ProcessHealthTransition, IsNext, IInv, IncidentTypeOK, Transitions
<1>2. projected'[m] = p + 1
    BY <1>1
<1>3. ASSUME health[t] = "down" PROVE LeftDown(m)'
    <2>1. p + 1 \in 1..(projected'[m]) /\ health'[<<m, p + 1>>] = "down"
        BY <1>1, <1>2, <1>3
    <2>2. \A w \in (p + 1 + 1)..(projected'[m]) : health'[<<m, w>>] # "healthy"
        BY <1>1, <1>2
    <2> QED
        BY <2>1, <2>2 DEF LeftDown
<1>4. ASSUME health[t] = "healthy" PROVE ~ LeftDown(m)'
    <2> SUFFICES ASSUME NEW v \in 1..(projected'[m]), health'[<<m, v>>] = "down",
                        \A w \in (v + 1)..(projected'[m]) : health'[<<m, w>>] # "healthy"
                 PROVE FALSE
        BY DEF LeftDown
    <2>1. v # p + 1
        BY <1>1, <1>4
    <2>2. p + 1 \in (v + 1)..(projected'[m])
        BY <1>1, <1>2, <2>1
    <2> QED
        BY <1>1, <1>4, <2>2
<1>5. ASSUME health[t] \notin {"down", "healthy"} PROVE LeftDown(m)' <=> LeftDown(m)
    <2>1. ASSUME LeftDown(m) PROVE LeftDown(m)'
        BY <1>1, <1>2, <1>5, <2>1 DEF LeftDown
    <2>2. ASSUME LeftDown(m)' PROVE LeftDown(m)
        <3>1. PICK v \in 1..(projected'[m]) :
                 /\ health'[<<m, v>>] = "down"
                 /\ \A w \in (v + 1)..(projected'[m]) : health'[<<m, w>>] # "healthy"
            BY <2>2 DEF LeftDown
        <3>2. v # p + 1
            BY <1>1, <1>5, <3>1
        <3>3. v \in 1..p /\ \A w \in (v + 1)..p : health[<<m, w>>] # "healthy"
            BY <1>1, <1>2, <3>1, <3>2
        <3> QED
            BY <1>1, <3>1, <3>3 DEF LeftDown
    <2> QED
        BY <2>1, <2>2
<1>6. \A n \in Monitors : n # m => (LeftDown(n)' <=> LeftDown(n))
    BY <1>1 DEF LeftDown
<1> QED
    BY <1>3, <1>4, <1>5, <1>6

\* What opening and resolving does to the Incidents that are unresolved.
LEMMA OpensActive ==
    ASSUME IInv, NEW t \in Transitions, Opens(t), OpenIncident(t)
    PROVE  \A j \in Incident : Unresolved(j)' <=> (j = t \/ Unresolved(j))
<1>1. incident' = [incident EXCEPT ![t] = [state |-> "open", version |-> 1]]
    BY DEF OpenIncident, Record
<1> QED
    BY <1>1 DEF Unresolved, IInv, IncidentTypeOK, Incident

LEMMA ResolvesActive ==
    ASSUME IInv, NEW i \in Incident, Resolve(i)
    PROVE  \A j \in Incident : Unresolved(j)' <=> (j # i /\ Unresolved(j))
<1>1. incident' = [incident EXCEPT
                     ![i] = [state |-> "resolved", version |-> incident[i].version + 1]]
    BY DEF Resolve, Record
<1> QED
    BY <1>1 DEF Unresolved, IInv, IncidentTypeOK

LEMMA ProcessInv ==
    ASSUME IInv, NEW t \in Transitions, ProcessHealthTransition(t)
    PROVE  IInv'
<1> DEFINE m == t[1]
<1>1. /\ m \in Monitors /\ t[2] = projected[m] + 1 /\ t[2] <= written[m]
      /\ projected' = [projected EXCEPT ![m] = t[2]]
      /\ UNCHANGED <<archived, written, health>>
      /\ t \in Incident /\ MonitorOf(t) = m /\ t[2] \in 1..MaxTransition
    BY DEF ProcessHealthTransition, IsNext, Transitions, Incident, MonitorOf
<1>2. IncidentTypeOK' /\ Behind'
    <2>1. projected' \in [Monitors -> 0..MaxTransition] /\ Behind'
        BY <1>1 DEF IInv, IncidentTypeOK, Behind
    <2>2. CASE OpenIncident(t)
        BY <1>1, <2>1, <2>2, RecordTypes DEF OpenIncident, IInv, IncidentTypeOK
    <2>3. CASE \E i \in ActiveOf(m) : Resolve(i)
        <3>1. PICK i \in Incident : Resolve(i)
            BY <2>3 DEF ActiveOf
        <3>2. incident[i].version + 1 \in Nat
            BY DEF IInv, IncidentTypeOK, IncidentRows
        <3> QED
            BY <1>1, <2>1, <3>1, <3>2, RecordTypes DEF Resolve, IInv, IncidentTypeOK
    <2>4. CASE UNCHANGED <<incident, timeline, announced>>
        BY <1>1, <2>1, <2>4 DEF IInv, IncidentTypeOK
    <2> QED
        BY <1>1, <2>2, <2>3, <2>4 DEF ProcessHealthTransition, Apply
<1>3. CASE Opens(t) /\ OpenIncident(t)
    <2>1. \A j \in Incident : Unresolved(j)' <=> (j = t \/ Unresolved(j))
        BY <1>3, OpensActive
    <2>2. \A j \in Incident : MonitorOf(j) = m => ~ Unresolved(j)
        BY <1>1, <1>3 DEF Opens, ActiveOf
    <2>3. OneActive'
        BY <1>1, <2>1, <2>2 DEF IInv, OneActive
    <2>4. OpenedByProjected'
        <3>1. \A j \in Incident : j # t => incident'[j] = incident[j]
            BY <1>3 DEF OpenIncident, Record, IInv, IncidentTypeOK
        <3> QED
            BY <1>1, <3>1 DEF IInv, IncidentTypeOK, OpenedByProjected, Incident, Transitions
    <2>5. health[t] = "down" /\ m \notin archived
        BY <1>1, <1>3 DEF Opens
    <2>6. ActiveOf(m)' # {} /\ LeftDown(m)'
        BY <1>1, <2>1, <2>5, LeftDownNext DEF ActiveOf
    <2>7. \A n \in Monitors : n # m => ActiveOf(n)' = ActiveOf(n)
        BY <1>1, <2>1 DEF ActiveOf
    <2>8. IncidentsFollowHealth'
        BY <1>1, <2>6, <2>7, LeftDownNext DEF IInv, IncidentsFollowHealth
    <2> QED
        BY <1>2, <2>3, <2>4, <2>8 DEF IInv
<1>4. CASE Resolves(t) /\ \E i \in ActiveOf(m) : Resolve(i)
    <2>1. PICK i \in ActiveOf(m) : Resolve(i)
        BY <1>4
    <2>2. i \in Incident /\ MonitorOf(i) = m /\ Unresolved(i)
        BY <2>1 DEF ActiveOf
    <2>3. \A j \in Incident : Unresolved(j)' <=> (j # i /\ Unresolved(j))
        BY <2>1, <2>2, ResolvesActive
    <2>4. OneActive'
        BY <2>3 DEF IInv, OneActive
    <2>5. OpenedByProjected'
        <3>1. \A j \in Incident : j # i => incident'[j] = incident[j]
            BY <2>1, <2>2 DEF Resolve, Record, IInv, IncidentTypeOK
        <3>2. incident[i].state # "none"
            BY <2>2 DEF Unresolved
        <3> QED
            BY <1>1, <3>1, <3>2, <2>2
               DEF IInv, IncidentTypeOK, OpenedByProjected, Incident, Transitions
    <2>6. ActiveOf(m)' = {}
        BY <2>2, <2>3 DEF IInv, OneActive, ActiveOf
    <2>7. ~ LeftDown(m)'
        BY <1>4, <1>1, LeftDownNext DEF Resolves
    <2>8. \A n \in Monitors : n # m => ActiveOf(n)' = ActiveOf(n)
        BY <2>2, <2>3 DEF ActiveOf
    <2>9. IncidentsFollowHealth'
        BY <1>1, <2>6, <2>7, <2>8, LeftDownNext DEF IInv, IncidentsFollowHealth
    <2> QED
        BY <1>2, <2>4, <2>5, <2>9 DEF IInv
<1>5. CASE ~ Opens(t) /\ ~ Resolves(t) /\ UNCHANGED <<incident, timeline, announced>>
    <2>1. OneActive'
        BY <1>5 DEF IInv, OneActive, Unresolved
    <2>2. OpenedByProjected'
        BY <1>1, <1>5 DEF IInv, IncidentTypeOK, OpenedByProjected, Incident, Transitions
    <2>3. \A n \in Monitors : ActiveOf(n)' = ActiveOf(n)
        BY <1>5 DEF ActiveOf, Unresolved
    <2>4. health[t] = "down" => m \in archived \/ ActiveOf(m) # {}
        BY <1>1, <1>5 DEF Opens
    <2>5. health[t] = "healthy" => ActiveOf(m) = {}
        BY <1>1, <1>5 DEF Resolves
    <2>6. IncidentsFollowHealth'
        BY <1>1, <2>3, <2>4, <2>5, LeftDownNext DEF IInv, IncidentsFollowHealth
    <2> QED
        BY <1>2, <2>1, <2>2, <2>6 DEF IInv
<1> QED
    BY <1>1, <1>3, <1>4, <1>5 DEF ProcessHealthTransition, Apply

-----------------------------------------------------------------------------
LEMMA IncidentNextInv == IInv /\ [IncidentNext]_incidentVars => IInv'
<1> SUFFICES ASSUME IInv, [IncidentNext]_incidentVars PROVE IInv'
    OBVIOUS
<1>1. CASE UNCHANGED incidentVars
    BY <1>1 DEF incidentVars, IInv, IncidentTypeOK, Behind, OpenedByProjected, OneActive,
                Unresolved, IncidentsFollowHealth, ActiveOf, LeftDown
<1>2. CASE IncidentNext
    BY <1>2, WriteTransitionInv, ArchiveInv, AcknowledgeInv, ProcessInv DEF IncidentNext
<1> QED
    BY <1>1, <1>2

LEMMA IncidentInvariant == IncidentSpec => []IInv
    BY IncidentInitInv, IncidentNextInv, PTL DEF IncidentSpec

\* The projection and the acknowledgements keep the types.
THEOREM IncidentTypes == IncidentSpec => []IncidentTypeOK
<1>1. IInv => IncidentTypeOK
    BY DEF IInv
<1> QED
    BY <1>1, IncidentInvariant, PTL

\* Whatever the order and number of deliveries, acknowledgements and archivings, a
\* Monitor has an unresolved Incident exactly if its projected health left it down.
THEOREM IncidentsMatchHealth == IncidentSpec => []IncidentsFollowHealth
<1>1. IInv => IncidentsFollowHealth
    BY DEF IInv
<1> QED
    BY <1>1, IncidentInvariant, PTL

-----------------------------------------------------------------------------
\* The state of every Incident, as IncidentLog sees it.
StateOf == [i \in Incident |-> incident[i].state]

LEMMA RecordState ==
    ASSUME IInv, NEW i \in Incident, NEW s, NEW v, NEW k, Record(i, s, v, k)
    PROVE  StateOf' = [StateOf EXCEPT ![i] = s]
    BY DEF Record, StateOf, IInv, IncidentTypeOK

LEMMA LogStep == IInv /\ [IncidentNext]_incidentVars => [Log!Next]_StateOf
<1> SUFFICES ASSUME IInv, [IncidentNext]_incidentVars PROVE [Log!Next]_StateOf
    OBVIOUS
<1>1. \A i \in Incident : Log!Unresolved(i) <=> Unresolved(i)
    BY DEF Log!Unresolved, Unresolved
<1>2. ASSUME NEW i \in Incident, AcknowledgeIncident(i) PROVE Log!Next
    <2>1. StateOf' = [StateOf EXCEPT ![i] = "acknowledged"] /\ StateOf[i] = "open"
        BY <1>2, RecordState DEF AcknowledgeIncident, Acknowledges, StateOf
    <2> QED
        BY <2>1 DEF Log!Next, Log!Acknowledge, StateOf
<1>3. ASSUME NEW t \in Transitions, ProcessHealthTransition(t) PROVE [Log!Next]_StateOf
    <2>0. t \in Incident
        BY DEF Incident
    <2>1. CASE Opens(t) /\ OpenIncident(t)
        <3>1. StateOf' = [StateOf EXCEPT ![t] = "open"]
            BY <2>0, <2>1, RecordState DEF OpenIncident
        <3>2. incident[t].state = "none"
            <4>1. ~ (t[2] <= projected[t[1]])
                BY <1>3 DEF ProcessHealthTransition, IsNext, IInv, IncidentTypeOK, Transitions
            <4> QED
                BY <2>0, <4>1 DEF IInv, OpenedByProjected
        <3>3. \A j \in Incident : MonitorOf(j) = MonitorOf(t) => ~ Unresolved(j)
            BY <2>1 DEF Opens, ActiveOf
        <3> QED
            BY <1>1, <2>0, <3>1, <3>2, <3>3 DEF Log!Next, Log!Open, StateOf
    <2>2. CASE \E i \in ActiveOf(MonitorOf(t)) : Resolve(i)
        <3>1. PICK i \in Incident : Unresolved(i) /\ Resolve(i)
            BY <2>2 DEF ActiveOf
        <3>2. StateOf' = [StateOf EXCEPT ![i] = "resolved"]
            BY <3>1, RecordState DEF Resolve
        <3> QED
            BY <1>1, <3>1, <3>2 DEF Log!Next, Log!Resolve, StateOf
    <2>3. CASE UNCHANGED <<incident, timeline, announced>>
        BY <2>3 DEF StateOf
    <2> QED
        BY <1>3, <2>1, <2>2, <2>3 DEF ProcessHealthTransition, Apply
<1>4. ASSUME UNCHANGED incident PROVE UNCHANGED StateOf
    BY <1>4 DEF StateOf
<1> QED
    BY <1>2, <1>3, <1>4 DEF IncidentNext, WriteTransition, ArchiveMonitor, incidentVars

\* The Incidents implement IncidentLog: they open, are acknowledged, resolve and
\* never come back, one at a time.
THEOREM IncidentsImplementLog == IncidentSpec => LogSpec
<1>1. IncidentInit => Log!Init
    BY DEF IncidentInit, Log!Init
<1>2. IInv /\ [IncidentNext]_incidentVars => [Log!Next]_([i \in Incident |-> incident[i].state])
    BY LogStep DEF StateOf
<1> QED
    BY <1>1, <1>2, IncidentInvariant, PTL DEF IncidentSpec, LogSpec, Log!Spec
-----------------------------------------------------------------------------
\* A row is at version 0 until it is opened.
VersionsStart == \A i \in Incident : incident[i].state = "none" <=> incident[i].version = 0

TimelineInv == IncidentTypeOK /\ VersionsStart /\ TimelineComplete

\* A step that writes the next version of a row appends to its timeline.
LEMMA RecordTimeline ==
    ASSUME TimelineInv, NEW i \in Incident, NEW s \in {"open", "acknowledged", "resolved"},
           NEW k \in {"opened", "acknowledged", "resolved"}, NEW n, n = incident[i].version + 1,
           incident[i].state # "resolved",
           k = "opened" <=> incident[i].state = "none",
           k = "resolved" <=> s = "resolved",
           Record(i, s, n, k)
    PROVE  VersionsStart' /\ TimelineComplete'
<1> DEFINE entry == [incident |-> i, version |-> n, kind |-> k]
<1>0. IncidentTypeOK /\ VersionsStart /\ TimelineComplete
    BY DEF TimelineInv
<1>1. n - 1 \in Nat /\ n \in Nat /\ n > 0 /\ n - 1 = incident[i].version
    BY <1>0 DEF IncidentTypeOK, IncidentRows
<1>2. /\ incident'[i].state = s /\ incident'[i].version = n
      /\ \A j \in Incident \ {i} : incident'[j] = incident[j]
      /\ timeline' = timeline \cup {entry}
      /\ announced' = IF k = "acknowledged" THEN announced ELSE announced \cup {entry}
    BY <1>0 DEF Record, IncidentTypeOK
<1>e. entry.incident = i /\ entry.version = n /\ entry.kind = k
    OBVIOUS
<1> HIDE DEF entry
<1>3. VersionsStart'
    BY <1>0, <1>1, <1>2 DEF VersionsStart
<1>4. announced' = {e \in timeline' : e.kind # "acknowledged"}
    BY <1>0, <1>2, <1>e DEF TimelineComplete
<1>5. ASSUME NEW j \in Incident \ {i} PROVE Timeline(j)' = Timeline(j)
    BY <1>2, <1>e DEF Timeline
<1>6. Timeline(i)' = Timeline(i) \cup {entry}
    BY <1>2, <1>e DEF Timeline
<1>7. /\ \A e \in Timeline(i) : /\ e.version \in 1..(n - 1)
                                /\ e.kind # "resolved"
                                /\ e.kind = "opened" <=> e.version = 1
                                /\ \A f \in Timeline(i) : f.version = e.version => f = e
      /\ \A v \in Nat : v \in 1..(n - 1) => \E e \in Timeline(i) : e.version = v
    BY <1>0, <1>1 DEF TimelineComplete
<1>8. k = "opened" <=> n = 1
    BY <1>0, <1>1 DEF VersionsStart
<1>9. ASSUME NEW v \in Nat, v \in 1..n PROVE \E e \in Timeline(i)' : e.version = v
    <2>1. CASE v = n
        BY <1>6, <1>e, <2>1
    <2>2. CASE v # n
        BY <1>1, <1>6, <1>7, <1>9, <2>2
    <2> QED
        BY <2>1, <2>2
<1>10. ASSUME NEW e \in Timeline(i)'
       PROVE  /\ e.version \in 1..n
              /\ e.kind = "opened" <=> e.version = 1
              /\ e.kind = "resolved" <=> (e.version = n /\ s = "resolved")
              /\ \A f \in Timeline(i)' : f.version = e.version => f = e
    <2>1. \A f \in Timeline(i) : f.version # n
        BY <1>1, <1>7
    <2>2. CASE e = entry
        BY <1>1, <1>6, <1>8, <1>e, <2>1, <2>2
    <2>3. CASE e \in Timeline(i)
        BY <1>1, <1>6, <1>7, <1>e, <2>1, <2>3
    <2> QED
        BY <1>6, <2>2, <2>3
<1> QED
    BY <1>0, <1>2, <1>3, <1>4, <1>5, <1>9, <1>10 DEF TimelineComplete

LEMMA TimelineStep == TimelineInv /\ IInv /\ [IncidentNext]_incidentVars => TimelineInv'
<1> SUFFICES ASSUME TimelineInv, IInv, [IncidentNext]_incidentVars PROVE TimelineInv'
    OBVIOUS
<1>0. IncidentTypeOK' /\ IncidentTypeOK
    BY IncidentNextInv DEF IInv
<1>1. ASSUME UNCHANGED <<incident, timeline, announced>>
      PROVE  VersionsStart' /\ TimelineComplete'
    BY <1>1 DEF TimelineInv, VersionsStart, TimelineComplete, Timeline
<1>2. ASSUME NEW i \in Incident, AcknowledgeIncident(i) PROVE VersionsStart' /\ TimelineComplete'
    BY <1>2, RecordTimeline DEF AcknowledgeIncident, Acknowledges
<1>3. ASSUME NEW t \in Transitions, ProcessHealthTransition(t)
      PROVE  VersionsStart' /\ TimelineComplete'
    <2>1. CASE OpenIncident(t)
        <3>1. t \in Incident /\ ~ (t[2] <= projected[t[1]])
            BY <1>0, <1>3 DEF ProcessHealthTransition, IsNext, IncidentTypeOK, Transitions,
                              Incident
        <3>2. incident[t].state = "none" /\ incident[t].version + 1 = 1
            BY <3>1 DEF IInv, OpenedByProjected, TimelineInv, VersionsStart
        <3> QED
            BY <2>1, <3>1, <3>2, RecordTimeline DEF OpenIncident
    <2>2. CASE \E i \in ActiveOf(MonitorOf(t)) : Resolve(i)
        <3>1. PICK i \in Incident : Unresolved(i) /\ Resolve(i)
            BY <2>2 DEF ActiveOf
        <3> QED
            BY <3>1, RecordTimeline DEF Resolve, Unresolved
    <2> QED
        BY <1>1, <1>3, <2>1, <2>2 DEF ProcessHealthTransition, Apply
<1> QED
    BY <1>0, <1>1, <1>2, <1>3
    DEF TimelineInv, IncidentNext, WriteTransition, ArchiveMonitor, incidentVars

\* Reading the timeline of an Incident tells all that happened to it: one entry per
\* version of its row, in a legal order, all but the acknowledgement announced once.
THEOREM IncidentTimeline == IncidentSpec => []TimelineComplete
<1>1. IncidentInit => TimelineInv
    <2> SUFFICES ASSUME IncidentInit PROVE TimelineInv
        OBVIOUS
    <2>1. IncidentTypeOK
        BY IncidentInitInv DEF IInv
    <2>2. \A i \in Incident : incident[i] = [state |-> "none", version |-> 0]
        BY DEF IncidentInit
    <2> QED
        BY <2>1, <2>2 DEF TimelineInv, VersionsStart, TimelineComplete, Timeline, IncidentInit
<1>2. TimelineInv => TimelineComplete
    BY DEF TimelineInv
<1> QED
    BY <1>1, <1>2, IncidentInvariant, TimelineStep, PTL DEF IncidentSpec
=============================================================================
