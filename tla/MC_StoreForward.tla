-------------------------- MODULE MC_StoreForward --------------------------
(***************************************************************************)
(* Model checking of StoreForward; the configurations differ in the faults *)
(* they allow.                                                             *)
(***************************************************************************)
EXTENDS StoreForward
=============================================================================
