--------------------------- MODULE MCGatewayDock ---------------------------
(***************************************************************************)
(* Instances of GatewayDock for TLC.                                       *)
(***************************************************************************)
EXTENDS GatewayDock
=============================================================================
