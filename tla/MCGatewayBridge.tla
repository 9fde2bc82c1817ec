--------------------------- MODULE MCGatewayBridge ---------------------------
(***************************************************************************)
(* An instance of GatewayBridge for TLC: delays of 1, 2, 4 and 5 units,    *)
(* sends of 1 and 2 bytes over a window of 4, and four failures.           *)
(***************************************************************************)
EXTENDS GatewayBridge
=============================================================================
