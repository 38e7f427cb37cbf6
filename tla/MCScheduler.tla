---------------------------- MODULE MCScheduler ----------------------------
(* Small fleets for TLC.  A Monitor that is due every unit exercises the   *)
(* misfire walk; one whose interval is longer than a lease, the reclaim.   *)
EXTENDS Scheduler, TLC

EveryUnit   == [m \in Monitors |-> 1]
EveryTwo    == [m \in Monitors |-> 2]
EveryThree  == [m \in Monitors |-> 3]
NoOffset    == [m \in Monitors |-> 0]
OneLate     == [m \in Monitors |-> 1]

ProcSymmetry == Permutations(Procs)
=============================================================================
