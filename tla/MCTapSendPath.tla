--------------------------- MODULE MCTapSendPath ---------------------------
EXTENDS TapSendPath, TLC

CONSTANTS c1, c2

\* Every chain one net buffer, or the first chain two.
OneNb == [n \in Nbls |-> 1]
TwoNb == [n \in Nbls |-> IF n = c1 THEN 2 ELSE 1]

Symmetry == Permutations(Senders) \cup Permutations(Readers)
=============================================================================
