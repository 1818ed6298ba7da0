------------------------- MODULE MCOpenClawConnector -------------------------
(* Instances of OpenClawConnector for TLC, without symmetry: one of them      *)
(* checks a temporal property.                                                *)
EXTENDS OpenClawConnector
=============================================================================
