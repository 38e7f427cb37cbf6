-------------------------------- MODULE Clock --------------------------------
(* The instant that every process reads; clocks of servers agree. *)
EXTENDS Integers

CONSTANT MaxTime    \* bound on the clock

ASSUME ClockAssumption == MaxTime \in Nat

VARIABLE clock

Time == 0..MaxTime
Never == MaxTime + 1
=============================================================================
