----------------------------- MODULE IncidentLog -----------------------------
(***************************************************************************)
(* What a reader of a Monitor's Incidents may rely on, however events are  *)
(* delivered and whoever acknowledges: an Incident opens, may be           *)
(* acknowledged, resolves and never comes back, and a Monitor has one that *)
(* is unresolved at most.                                                  *)
(***************************************************************************)
CONSTANTS Monitors, Incidents, MonitorOf(_)

VARIABLE state    \* of each Incident; "none" before it opens

Unresolved(i) == state[i] \in {"open", "acknowledged"}

Init == state = [i \in Incidents |-> "none"]

Open(i) ==
    /\ state[i] = "none"
    /\ \A j \in Incidents : MonitorOf(j) = MonitorOf(i) => ~ Unresolved(j)
    /\ state' = [state EXCEPT ![i] = "open"]

Acknowledge(i) ==
    /\ state[i] = "open"
    /\ state' = [state EXCEPT ![i] = "acknowledged"]

Resolve(i) ==
    /\ Unresolved(i)
    /\ state' = [state EXCEPT ![i] = "resolved"]

Next == \E i \in Incidents : Open(i) \/ Acknowledge(i) \/ Resolve(i)

Spec == Init /\ [][Next]_state
=============================================================================
