---------------------------- MODULE MCMobileSync ----------------------------
(* TLC instances of MobileSync. *)
EXTENDS MobileSync, TLC

Symmetry == Permutations(Msgs) \cup Permutations(Inbound) \cup Permutations(Resets)
=============================================================================
