------------------------- MODULE MCGatewayLauncher -------------------------
(* Instances of GatewayLauncher for TLC: small enough without symmetry, which *)
(* the temporal properties of one of them would forbid.                       *)
EXTENDS GatewayLauncher
=============================================================================
