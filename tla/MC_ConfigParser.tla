-------------------------- MODULE MC_ConfigParser ---------------------------
(***************************************************************************)
(* Every payload of up to MaxLength characters over two ordinary ones.     *)
(***************************************************************************)
EXTENDS ConfigParser
=============================================================================
