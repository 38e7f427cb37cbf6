---------------------------- MODULE AlertRouting ----------------------------
(***************************************************************************)
(* What docs/architecture.md promises of notifications: an Alert is an     *)
(* immutable routing intent.  It is routed once, to targets that stay the  *)
(* same from then on; each of its routes is suppressed at once or pending  *)
(* until it is settled, for good.                                          *)
(***************************************************************************)
EXTENDS Integers

CONSTANTS Alerts, Targets

VARIABLES
    routed,    \* Alerts that were routed
    route      \* what became of each Alert at each target

Init ==
    /\ routed = {}
    /\ route = [r \in Alerts \X Targets |-> "none"]

RouteAlert(a, targets, state) ==
    /\ a \notin routed
    /\ routed' = routed \cup {a}
    /\ route' = [r \in Alerts \X Targets |->
          IF r[1] = a /\ r[2] \in targets THEN state ELSE route[r]]

\* One step of a dispatcher may settle several.
Settle(routes) ==
    /\ route' = [r \in Alerts \X Targets |->
          IF r \in routes THEN "settled" ELSE route[r]]
    /\ UNCHANGED routed

Next ==
    \/ \E a \in Alerts, targets \in SUBSET Targets, state \in {"pending", "suppressed"} :
          RouteAlert(a, targets, state)
    \/ \E routes \in SUBSET {r \in Alerts \X Targets : route[r] = "pending"} : Settle(routes)

Spec == Init /\ [][Next]_<<routed, route>>
=============================================================================
