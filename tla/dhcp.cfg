SPECIFICATION FairSpec
CONSTANTS
  a1 = a1
  a2 = a2
  srv = srv
  Addresses = {a1, a2, srv}
  NoAddress = NoAddress
  Callers = {k1}
  Handlers = {h1, h2}
  TunArgs <- TunArgsMC
  DhcpArgs <- DhcpArgsMC
  OptLengths = {235}
  BAD_DHCPREQUEST_NAK_THRESHOLD = 3
  MaxCalls = 2
INVARIANT TypeOK
PROPERTIES
  ClientBound
  ConfigRefinement
