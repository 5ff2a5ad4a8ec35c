------------------------------ MODULE MCGateway ------------------------------
(***************************************************************************)
(* Instances of Gateway for TLC, with a pool of two workers that may meet  *)
(* anywhere.                                                               *)
(***************************************************************************)
EXTENDS GatewayProperties
=============================================================================
