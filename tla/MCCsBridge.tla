----------------------------- MODULE MCCsBridge -----------------------------
(* Instance of CsBridge for TLC.                                           *)
EXTENDS CsBridge, TLC
Symmetry == Permutations(Requests)
=============================================================================
