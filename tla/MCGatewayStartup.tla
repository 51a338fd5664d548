-------------------------- MODULE MCGatewayStartup --------------------------
(* Small instances of GatewayStartup for TLC. *)
EXTENDS GatewayStartup
=============================================================================
