----------------------------- MODULE MCAstraea -----------------------------
(***************************************************************************)
(* Instance of Astraea for TLC: four concurrent writes, so that one can    *)
(* take over from an ack process while two others come between.            *)
(***************************************************************************)
EXTENDS Astraea
=============================================================================
