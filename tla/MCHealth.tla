------------------------------ MODULE MCHealth ------------------------------
(* Instances of HealthEvaluation for TLC. *)
EXTENDS HealthEvaluation, TLC

Symmetry == Permutations(Workers)
=============================================================================
