---------------------------- MODULE MC_Storage -----------------------------
(***************************************************************************)
(* Model checking of Storage.  The constants are ordinary numbers given by *)
(* the configuration; the counters need no symmetry.                       *)
(***************************************************************************)
EXTENDS Storage
=============================================================================
