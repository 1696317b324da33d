---------------------------- MODULE MC_MqttClient ----------------------------
(***************************************************************************)
(* The constants are numbers given by the configurations; the topics are   *)
(* taken in order, so there is no symmetry.                                *)
(***************************************************************************)
EXTENDS MqttClient
=============================================================================
