------------------------------ MODULE MCClient ------------------------------
(***************************************************************************)
(* Instances of Client for TLC: the pool of two threads, which race in the *)
(* vector when two responses overlap.                                      *)
(***************************************************************************)
EXTENDS Client, TLC

Symmetry == Permutations(Thread)
=============================================================================
