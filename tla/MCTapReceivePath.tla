-------------------------- MODULE MCTapReceivePath --------------------------
EXTENDS TapReceivePath, TLC

Symmetry ==
  Permutations(Writers) \cup Permutations(Returners) \cup Permutations(Nbls)
=============================================================================
