------------------------------ MODULE MCSystem ------------------------------
(***************************************************************************)
(* Instances of AstraeaSystem for TLC.  In the runs with one worker no     *)
(* entry becomes outdated; in the run with a pool of two an entry may,     *)
(* between any two steps.                                                  *)
(***************************************************************************)
EXTENDS AstraeaSystem

\* Bound: the run about a pool ends where two threads meet in the queue; there the
\* leads-to property is fulfilled.
Calm == ~raced
=============================================================================
