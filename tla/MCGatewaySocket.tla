--------------------------- MODULE MCGatewaySocket ---------------------------
(* Instance of GatewaySocket for TLC.                                      *)
EXTENDS GatewaySocket
=============================================================================
