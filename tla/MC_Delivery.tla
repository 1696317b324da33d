---------------------------- MODULE MC_Delivery -----------------------------
(***************************************************************************)
(* A queue of two that fills and empties several times.                    *)
(***************************************************************************)
EXTENDS Delivery
=============================================================================
