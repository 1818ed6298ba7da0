-------------------------- MODULE MCMobilePairing --------------------------
(* Instance of MobilePairing for TLC.                                      *)
EXTENDS MobilePairing, TLC
Symmetry == Permutations(Phone) \cup Permutations(Engines) \cup Permutations(Jobs)
=============================================================================
