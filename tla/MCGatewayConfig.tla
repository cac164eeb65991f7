------------------------- MODULE MCGatewayConfig -------------------------
(* The instances of GatewayConfig that TLC checks.                          *)
EXTENDS GatewayConfig

=============================================================================
