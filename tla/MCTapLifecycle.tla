--------------------------- MODULE MCTapLifecycle ---------------------------
EXTENDS TapLifecycle, TLC

Symmetry == Permutations(Adapters) \cup Permutations(TapFiles)
=============================================================================
