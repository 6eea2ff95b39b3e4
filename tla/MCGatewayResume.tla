--------------------------- MODULE MCGatewayResume ---------------------------
(* Instance of GatewayResume for TLC.                                      *)
EXTENDS GatewayResume
=============================================================================
