------------------------------ MODULE Monitored ------------------------------
(* What Incidents, Maintenance and Alerts are about. *)
CONSTANT Monitors
=============================================================================
