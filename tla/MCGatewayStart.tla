--------------------------- MODULE MCGatewayStart ---------------------------
(***************************************************************************)
(* The instance of GatewayStart that TLC checks.                           *)
(***************************************************************************)
EXTENDS GatewayStart
=============================================================================
