----------------------------- MODULE MCTapMedia -----------------------------
EXTENDS TapMedia, TLC

Symmetry == Permutations(Callers)
=============================================================================
