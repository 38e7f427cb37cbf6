-------------------------- MODULE MCNotifications --------------------------
(* Notifications for TLC.  All freedoms at once are too many: each scene     *)
(* leaves the rest of the system as calm as it can be.                       *)
EXTENDS Notifications, TLC

CONSTANT Horizon    \* bound on the clock in every scene but "prompt"

AlertNames == Incident \X {"opened", "resolved"}

VARIABLE scene

mcVars == <<vars, scene>>

\* One Incident of one Monitor, opened by its first transition.
FirstIncident ==
    /\ IncidentStep
    /\ archived' = {}
    /\ \A m \in Monitors : written'[m] <= 2 /\ health'[<<m, 1>>] \in {"none", "down"}
    /\ \A i \in Incident : incident'[i].state # "acknowledged"

Alerting == FirstIncident \/ (\E a \in Alerts : ProjectIncidentTransition(a))

\* Integrations are set up before the first Alert.
SetUp ==
    /\ written = [m \in Monitors |-> 0]
    /\ AdministerWebhooks
    /\ \A i \in Integrations : InState(i, "pending")' = {}

Early == clock' <= Horizon

Incidental == scene = "incidents" /\ IncidentStep

Windowed ==
    /\ scene = "windows"
    /\ ChangeMaintenance \/ Tick
    /\ Early
    /\ \A w \in Windows :
          creation'[w].pc = "creating" => creation'[w].row.startsAt <= Horizon

Routed ==
    /\ scene = "routing"
    /\ clock = 0
    /\ Alerting \/ ChangeMaintenance \/ AdministerWebhooks
    /\ \A w \in Windows :
          creation'[w].pc = "creating" => creation'[w].row.endsAt <= 1

Stalling ==
    /\ scene = "stalls"
    /\ \/ clock = 0 /\ (SetUp \/ Alerting)
       \/ Dispatch \/ Tick
    /\ Early
    /\ \A m \in Monitors : written'[m] <= 1

Rotating ==
    /\ scene = "rotation"
    /\ Alerting \/ AdministerWebhooks \/ Dispatch \/ Tick
    /\ clock' <= 1
    /\ outages' = 0
    /\ \A i \in Integrations : secret'[<<i, MaxSecret>>] = "none"

Prompt ==
    /\ scene = "prompt"
    /\ \/ clock = 0 /\ (SetUp \/ Alerting)
       \/ Dispatch \/ TickPromptly

Scenes == {"incidents", "windows", "routing", "stalls", "rotation", "prompt"}

SceneInit == Init /\ scene \in Scenes

SceneNext ==
    \/ Incidental /\ UNCHANGED scene
    \/ Windowed /\ UNCHANGED scene
    \/ Routed /\ UNCHANGED scene
    \/ Stalling /\ UNCHANGED scene
    \/ Rotating /\ UNCHANGED scene
    \/ Prompt /\ UNCHANGED scene

InPrompt(A) ==
    scene = "prompt" /\ A /\ UNCHANGED <<incidentVars, maintenanceVars, occurredAt, scene>>

SceneSpec ==
    /\ SceneInit /\ [][SceneNext]_mcVars
    /\ \A p \in Procs : /\ WF_mcVars(InPrompt(Claim(p) /\ delivery' # delivery))
                        /\ WF_mcVars(InPrompt(Exit(p)))
                        /\ WF_mcVars(InPrompt(Restart(p)))
    /\ \A p \in Procs, d \in Deliveries : WF_mcVars(InPrompt(WorkStep(p, d)))
    /\ WF_mcVars(scene = "prompt" /\ TickPromptly /\ UNCHANGED scene)

\* Every delivery ends in success or failure, although dispatchers crash in calls,
\* stop, and lose what their claims and reports returned.
PromptlySettled == scene = "prompt" => EveryDeliverySettles
=============================================================================
