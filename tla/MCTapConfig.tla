----------------------------- MODULE MCTapConfig -----------------------------
EXTENDS TapConfig, TLC

CONSTANTS a1, a2, srv

\* A peer that is the DHCP server, a subnet that does not hold it, and a network that
\* its mask does not cover.
TunArgsMC ==
  {[local |-> a1, remote |-> {srv}, masked |-> FALSE],
   [local |-> a1, remote |-> {a2}, masked |-> TRUE],
   [local |-> a1, remote |-> {}, masked |-> TRUE]}

\* The same server with two leases.
DhcpArgsMC == {[addr |-> a1, server |-> srv], [addr |-> a2, server |-> srv]}

Symmetry == Permutations(Callers)
=============================================================================
