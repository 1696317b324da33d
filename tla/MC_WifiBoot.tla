---------------------------- MODULE MC_WifiBoot -----------------------------
(***************************************************************************)
(* The driver's behaviour is finite as it is: no bound is needed.          *)
(***************************************************************************)
EXTENDS WifiBoot
=============================================================================
