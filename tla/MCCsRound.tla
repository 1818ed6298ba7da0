----------------------------- MODULE MCCsRound -----------------------------
EXTENDS CsRound, TLC

Symmetry == Permutations(Msgs)
=============================================================================
