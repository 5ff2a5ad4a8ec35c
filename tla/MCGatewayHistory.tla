-------------------------- MODULE MCGatewayHistory --------------------------
(***************************************************************************)
(* An instance of GatewayHistory for TLC, with a pool of two workers.      *)
(* Requests of a kind and workers are interchangeable.                     *)
(***************************************************************************)
EXTENDS GatewayHistory, TLC

Symmetry ==
  Permutations(ReadRequest) \cup Permutations(WriteRequest) \cup Permutations(Worker)

\* Bound: the run ends where two threads meet in the queue.
Calm == ~raced
=============================================================================
