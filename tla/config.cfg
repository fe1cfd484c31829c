SPECIFICATION ConfigSpec
CONSTANTS
  a1 = a1
  a2 = a2
  srv = srv
  Addresses = {a1, a2, srv}
  NoAddress = NoAddress
  Callers = {k1, k2, k3}
  TunArgs <- TunArgsMC
  DhcpArgs <- DhcpArgsMC
  OptLengths = {235}
  BAD_DHCPREQUEST_NAK_THRESHOLD = 3
  MaxCalls = 4
SYMMETRY Symmetry
INVARIANTS
  PublishedWhole
  OpenStartsPlain
  PeersReachable
