---------------------------- MODULE MC_PppClient ----------------------------
(***************************************************************************)
(* Three commands (one that fails, one behind it, the one that dials), up  *)
(* to three failures of an initialisation and four faults: enough for two  *)
(* tasks one after the other, each with a failure and a loss.  Callers     *)
(* that wait for ever for one another are a state the code can reach       *)
(* (Missed, RequestLost, Overtaken): deadlock is not an error here.        *)
(***************************************************************************)
EXTENDS PppClient
=============================================================================
