----------------------------- MODULE RunLedger -----------------------------
(***************************************************************************)
(* What the Run store promises its readers, without leases or workers: the *)
(* outcome of a slot is decided at most once, and the decision and the one *)
(* run.recorded.v1 fact that announces it appear together.                 *)
(***************************************************************************)
EXTENDS Naturals, Sequences

CONSTANTS Slots, Outcomes

VARIABLES
    outcome,     \* the decision on each slot, "open" before it
    announced    \* the outcomes announced for each slot, in order

ledgerVars == <<outcome, announced>>

Init ==
    /\ outcome = [s \in Slots |-> "open"]
    /\ announced = [s \in Slots |-> <<>>]

Decide(s, o) ==
    /\ outcome[s] = "open"
    /\ outcome' = [outcome EXCEPT ![s] = o]
    /\ announced' = [announced EXCEPT ![s] = Append(@, o)]

Next == \E s \in Slots, o \in Outcomes : Decide(s, o)

Spec == Init /\ [][Next]_ledgerVars
=============================================================================
