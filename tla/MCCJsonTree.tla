----------------------------- MODULE MCCJsonTree -----------------------------
(***************************************************************************)
(* Instances of CJsonTree for TLC: a few structures, a name in two cases,  *)
(* two numbers that can change places, and a text.                         *)
(***************************************************************************)
EXTENDS CJsonTreeProperties

Symmetry == Permutations(Number)
=============================================================================
