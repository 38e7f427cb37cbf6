---------------------------- MODULE Notifications ----------------------------
(***************************************************************************)
(* The way from health to a receiver: Incidents announce that they opened  *)
(* or were resolved, internal/alert and internal/postgres/alert.go project *)
(* each announcement into an Alert and route it, unless its Monitor was    *)
(* under maintenance at the instant of the event, and the dispatchers      *)
(* deliver it.  The queue between Incidents and Alerts may be late, out of *)
(* order and repeat itself.                                                *)
(***************************************************************************)
EXTENDS Incidents, Maintenance, WebhookDelivery

\* An Alert is named by its Incident and what happened to that.
ASSUME NotificationsAssumption == Alerts = Incident \X {"opened", "resolved"}

VARIABLE
    occurredAt    \* the instant of the event behind each announcement

vars == <<clock, incidentVars, maintenanceVars, webhookVars, processVars, occurredAt>>

AnnouncedAs(a, e) == e.incident = a[1] /\ e.kind = a[2]
Announced(a) == \E e \in announced : AnnouncedAs(a, e)

TypeOK ==
    /\ IncidentTypeOK /\ MaintenanceTypeOK /\ DeliveryTypeOK
    /\ occurredAt \in [Alerts -> Time \cup {Never}]

Init ==
    /\ IncidentInit /\ MaintenanceInit /\ DeliveryInit
    /\ occurredAt = [a \in Alerts |-> Never]

-----------------------------------------------------------------------------
\* The event is that of the health transition, which may have waited in the queue.
IncidentStep ==
    /\ IncidentNext
    /\ \E instant \in 0..clock :
          occurredAt' = [a \in Alerts |->
             IF Announced(a)' /\ ~ Announced(a) THEN instant ELSE occurredAt[a]]
    /\ UNCHANGED <<clock, maintenanceVars, webhookVars, processVars>>

ChangeMaintenance ==
    /\ MaintenanceStep
    /\ UNCHANGED <<incidentVars, webhookVars, processVars, occurredAt>>

\* ProjectIncidentTransition: an announcement that comes again finds its marker, or
\* the Alert itself, and does nothing.  (ProjectsAgain would not look.)
ProjectsAgain(a) == TRUE
Projects(a) == a \notin alerts

ProjectIncidentTransition(a) ==
    /\ Announced(a)
    /\ Projects(a)
    /\ Route(a, clock, UnderMaintenance(MonitorOf(a[1]), occurredAt[a]))
    /\ UNCHANGED <<clock, incidentVars, maintenanceVars, processVars, occurredAt>>

AdministerWebhooks ==
    /\ \E i \in Integrations : Administer(i)
    /\ UNCHANGED <<clock, incidentVars, maintenanceVars, processVars, occurredAt>>

Dispatch ==
    /\ DispatchStep
    /\ UNCHANGED <<incidentVars, maintenanceVars, occurredAt>>

Tick ==
    /\ MaintenanceTick
    /\ UNCHANGED <<incidentVars, webhookVars, processVars, occurredAt>>

\* Time in a fleet that keeps up.
TickPromptly == (\A p \in Procs : KeepsUp(p)) /\ Tick


Next ==
    \/ IncidentStep \/ ChangeMaintenance \/ AdministerWebhooks \/ Dispatch \/ Tick
    \/ \E a \in Alerts : ProjectIncidentTransition(a)

Spec == Init /\ [][Next]_vars

-----------------------------------------------------------------------------
\* docs/architecture.md:135: Alerts are immutable routing intents.  Neither a
\* redelivered announcement nor a later change of an Integration, a window or a
\* secret routes one again, elsewhere, or not at all any more.
Routing == INSTANCE AlertRouting WITH
              Targets <- Integrations, routed <- alerts,
              route <- [d \in Deliveries |->
                           IF delivery[d].suppressed THEN "suppressed" ELSE delivery[d].state]
RoutedOnce == Routing!Spec
=============================================================================
