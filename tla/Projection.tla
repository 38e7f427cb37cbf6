----------------------------- MODULE Projection -----------------------------
(***************************************************************************)
(* What the outbox promises an ordered consumer: the versions a producer   *)
(* has written of an aggregate take effect one at a time, in order, each   *)
(* at most once, whatever happens to the workers that deliver them.        *)
(***************************************************************************)
EXTENDS Integers

CONSTANTS Aggregates, MaxVersion

VARIABLES
    written,   \* versions written of each aggregate
    applied    \* versions of it that have taken effect

Init ==
    /\ written = [a \in Aggregates |-> 0]
    /\ applied = [a \in Aggregates |-> 0]

Publish(a) ==
    /\ written[a] < MaxVersion
    /\ written' = [written EXCEPT ![a] = @ + 1]
    /\ UNCHANGED applied

Apply(a) ==
    /\ applied[a] < written[a]
    /\ applied' = [applied EXCEPT ![a] = @ + 1]
    /\ UNCHANGED written

Next == \E a \in Aggregates : Publish(a) \/ Apply(a)

Spec == Init /\ [][Next]_<<written, applied>>
=============================================================================
