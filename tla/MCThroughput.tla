---------------------------- MODULE MCThroughput ----------------------------
(***************************************************************************)
(* Instance of ThroughputHistory for TLC: a clock of seven seconds and a   *)
(* silence of two, so that one behaviour can write the file twice.         *)
(***************************************************************************)
EXTENDS ThroughputHistory
=============================================================================
