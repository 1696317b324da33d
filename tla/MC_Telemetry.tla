---------------------------- MODULE MC_Telemetry ----------------------------
(***************************************************************************)
(* One temperature below, one between and one above the thresholds.        *)
(***************************************************************************)
EXTENDS Telemetry

(* A minimum below zero, as task_config accepts down to TEMP_MIN. *)
MCNegative == {-3}
=============================================================================
