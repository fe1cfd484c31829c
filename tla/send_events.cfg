SPECIFICATION Spec
CONSTANTS
  c1 = c1
  c2 = c2
  App = App
  Halter = Halter
  NoThread = NoThread
  NoNbl = NoNbl
  Senders = {s1}
  Readers = {r1, r2}
  Nbls = {c1}
  NbCount <- OneNb
  TAP_BUFFER_SIZE = 1
  MediaStateAlwaysConnected = FALSE
  Events = {"cancel", "media", "power", "pause", "halt"}
SYMMETRY Symmetry
CHECK_DEADLOCK FALSE
INVARIANTS
IrpCustody
DestroyFlushedPackets
PROPERTIES TunnelRefinement
