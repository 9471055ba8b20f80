---------------------------- MODULE MCGatewayLink ----------------------------
(* Small instances of GatewayLink for TLC. *)
EXTENDS GatewayLink

CONSTANTS d1, c1, c2, x1, x2

OneDevice  == {d1}
TwoConns   == {c1, c2}
TwoCalls   == {x1, x2}
=============================================================================
