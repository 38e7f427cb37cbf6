------------------------------ MODULE MCOutbox ------------------------------
(* Instances of Outbox for TLC. *)
EXTENDS Outbox, TLC

CONSTANTS a1, p1, p2

OneAggregate == {a1}
TwoProcs == {p1, p2}

AllEvents   == {"crash", "shutdown", "store", "handler"}
CrashEvents == {"crash", "handler"}

NoInvalid     == {}
SecondInvalid == {EntryOf(a1, 2)}

Symmetry == Permutations(TwoProcs)
=============================================================================
