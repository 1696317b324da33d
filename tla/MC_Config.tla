----------------------------- MODULE MC_Config ------------------------------
(***************************************************************************)
(* Payloads on both sides of every limit, a short one and an empty one;    *)
(* stack contents that pass some of the limits.                            *)
(***************************************************************************)
EXTENDS Config

MCMessages == {<< >>, <<15>>, <<-30, 80, 5>>, <<20, 40, 30>>, <<60, -10, 12>>}

MCStackValues == {<<-30, 80, 5>>, <<-20, 70, 10>>}
=============================================================================
