------------------------------ MODULE Incidents ------------------------------
(***************************************************************************)
(* internal/incident and internal/postgres/incident.go: the projection of  *)
(* health transitions into Incidents and their acknowledgement.  The       *)
(* queue may hand over the event of any transition at any time, in any     *)
(* order and any number of times, or never; the order comes from a cursor  *)
(* per Monitor.  One handler's transaction is one step: it holds the       *)
(* Monitor's row, which other handlers and archiving wait for.             *)
(***************************************************************************)
EXTENDS Monitored, Integers

CONSTANT
    MaxTransition    \* bound on the health transitions of a Monitor

ASSUME IncidentsAssumption == MaxTransition \in Nat

VARIABLES
    archived,     \* Monitors that are archived, for good
    written,      \* health_transitions written of each Monitor
    health,       \* the new state of each transition
    projected,    \* incident_projection_cursors, 0 if none
    incident,     \* incidents, by the transition that opened them
    timeline,     \* incident_timeline_entries
    announced     \* incident.transitioned.v1 entries

incidentVars == <<archived, written, health, projected, incident, timeline, announced>>

Transitions == Monitors \X (1..MaxTransition)
HealthStates == {"unknown", "healthy", "degraded", "down"}

\* An Incident is named by the transition in opened_transition_id.
Incident == Transitions
MonitorOf(i) == i[1]
IncidentRows == [state : {"none", "open", "acknowledged", "resolved"}, version : Nat]
TimelineEntries == [incident : Incident, version : Nat,
            kind : {"opened", "acknowledged", "resolved"}]

IncidentTypeOK ==
    /\ archived \subseteq Monitors
    /\ written \in [Monitors -> 0..MaxTransition]
    /\ health \in [Transitions -> HealthStates \cup {"none"}]
    /\ projected \in [Monitors -> 0..MaxTransition]
    /\ incident \in [Incident -> IncidentRows]
    /\ timeline \subseteq TimelineEntries
    /\ announced \subseteq TimelineEntries

IncidentInit ==
    /\ archived = {}
    /\ written = [m \in Monitors |-> 0]
    /\ health = [t \in Transitions |-> "none"]
    /\ projected = [m \in Monitors |-> 0]
    /\ incident = [i \in Incident |-> [state |-> "none", version |-> 0]]
    /\ timeline = {}
    /\ announced = {}

-----------------------------------------------------------------------------
\* Health evaluation writes a transition to another state (HealthEvaluation);
\* before the first one a Monitor is unknown.  Only active Monitors are evaluated.
CurrentHealth(m) == IF written[m] = 0 THEN "unknown" ELSE health[<<m, written[m]>>]

WriteTransition(m, s) ==
    /\ m \notin archived
    /\ written[m] < MaxTransition
    /\ s # CurrentHealth(m)
    /\ written' = [written EXCEPT ![m] = @ + 1]
    /\ health' = [health EXCEPT ![<<m, written[m] + 1>>] = s]
    /\ UNCHANGED <<archived, projected, incident, timeline, announced>>

ArchiveMonitor(m) ==
    /\ m \notin archived
    /\ archived' = archived \cup {m}
    /\ UNCHANGED <<written, health, projected, incident, timeline, announced>>

-----------------------------------------------------------------------------
Unresolved(i) == incident[i].state \in {"open", "acknowledged"}
ActiveOf(m) == {i \in Incident : MonitorOf(i) = m /\ Unresolved(i)}

\* The Incident's row, its timeline entry and, except for an acknowledgement,
\* the entry that announces it, in one transaction.
Record(i, state, version, kind) ==
    LET entry == [incident |-> i, version |-> version, kind |-> kind] IN
    /\ incident' = [incident EXCEPT ![i] = [state |-> state, version |-> version]]
    /\ timeline' = timeline \cup {entry}
    /\ announced' = IF kind = "acknowledged" THEN announced ELSE announced \cup {entry}

OpenIncident(t) == Record(t, "open", 1, "opened")

Resolve(i) == Record(i, "resolved", incident[i].version + 1, "resolved")

\* What a transition does once it is its turn.  (OpensAlways overlooks an
\* Incident that is still unresolved.)
OpensAlways(t) == health[t] = "down" /\ MonitorOf(t) \notin archived
Opens(t) ==
    /\ health[t] = "down"
    /\ MonitorOf(t) \notin archived
    /\ ActiveOf(MonitorOf(t)) = {}
Resolves(t) == health[t] = "healthy" /\ ActiveOf(MonitorOf(t)) # {}

Apply(t) ==
    \/ Opens(t) /\ OpenIncident(t)
    \/ Resolves(t) /\ (\E i \in ActiveOf(MonitorOf(t)) : Resolve(i))
    \/ ~ Opens(t) /\ ~ Resolves(t) /\ UNCHANGED <<incident, timeline, announced>>

\* A version at or below the cursor, or one whose marker is there, only gets its
\* marker; a version beyond the next one is a gap and comes again.
\* (IsNextLoosely takes any later version for the next one.)
IsNextLoosely(t) == t[2] > projected[t[1]]
IsNext(t) == t[2] = projected[t[1]] + 1

ProcessHealthTransition(t) ==
    /\ t[2] <= written[t[1]]
    /\ IsNext(t)
    /\ Apply(t)
    /\ projected' = [projected EXCEPT ![t[1]] = t[2]]
    /\ UNCHANGED <<archived, written, health>>

-----------------------------------------------------------------------------
\* Somebody acknowledges; a second acknowledgement changes nothing, and a
\* resolved Incident is a conflict.
Acknowledges(i) == incident[i].state = "open"

AcknowledgeIncident(i) ==
    /\ Acknowledges(i)
    /\ Record(i, "acknowledged", incident[i].version + 1, "acknowledged")
    /\ UNCHANGED <<archived, written, health, projected>>

IncidentNext ==
    \/ \E m \in Monitors : ArchiveMonitor(m) \/ (\E s \in HealthStates : WriteTransition(m, s))
    \/ \E t \in Transitions : ProcessHealthTransition(t)
    \/ \E i \in Incident : AcknowledgeIncident(i)

IncidentSpec == IncidentInit /\ [][IncidentNext]_incidentVars

-----------------------------------------------------------------------------
\* The Incidents are what IncidentLog promises, for every order and number of
\* deliveries, acknowledgements and archivings.
Log == INSTANCE IncidentLog WITH
           Incidents <- Incident, state <- [i \in Incident |-> incident[i].state]
LogSpec == Log!Spec

\* Whether the transitions projected so far leave the Monitor down: degraded and
\* unknown do not change that.
LeftDown(m) ==
    \E v \in 1..projected[m] :
        /\ health[<<m, v>>] = "down"
        /\ \A w \in (v + 1)..projected[m] : health[<<m, w>>] # "healthy"

\* A Monitor has an unresolved Incident exactly if what was projected of its
\* health left it down; only for one that was archived there may be none although
\* it was left down.
IncidentsFollowHealth ==
    \A m \in Monitors :
        /\ ActiveOf(m) # {} => LeftDown(m)
        /\ LeftDown(m) /\ m \notin archived => ActiveOf(m) # {}

Timeline(i) == {e \in timeline : e.incident = i}

\* The timeline of an Incident has one entry per version, from its opening to the
\* version of the row; it ends with the resolution if and only if the row does.
\* All of it but the acknowledgement has been announced, and nothing else.
TimelineComplete ==
    /\ \A i \in Incident, v \in Nat :
          v \in 1..incident[i].version => \E e \in Timeline(i) : e.version = v
    /\ \A i \in Incident : \A e \in Timeline(i) :
          /\ e.version \in 1..incident[i].version
          /\ e.kind = "opened" <=> e.version = 1
          /\ e.kind = "resolved" <=>
                (e.version = incident[i].version /\ incident[i].state = "resolved")
          /\ \A f \in Timeline(i) : f.version = e.version => f = e
    /\ announced = {e \in timeline : e.kind # "acknowledged"}
=============================================================================
