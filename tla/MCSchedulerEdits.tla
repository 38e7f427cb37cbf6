-------------------------- MODULE MCSchedulerEdits --------------------------
(* The fleets of MCScheduler beside the history of their Monitors.          *)
EXTENDS MCScheduler, SchedulerHistory
=============================================================================
