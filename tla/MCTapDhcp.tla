------------------------------ MODULE MCTapDhcp ------------------------------
EXTENDS TapDhcp

CONSTANTS a1, a2, srv

\* A tunnel whose subnet holds the DHCP server.
TunArgsMC == {[local |-> a1, remote |-> {srv}, masked |-> TRUE]}

\* The same server with two leases.
DhcpArgsMC == {[addr |-> a1, server |-> srv], [addr |-> a2, server |-> srv]}
=============================================================================
