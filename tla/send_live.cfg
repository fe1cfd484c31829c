SPECIFICATION ReadingSpec
CONSTANTS
  c1 = c1
  c2 = c2
  App = App
  Halter = Halter
  NoThread = NoThread
  NoNbl = NoNbl
  Senders = {s1}
  Readers = {r1}
  Nbls = {c1}
  NbCount <- TwoNb
  TAP_BUFFER_SIZE = 2
  MediaStateAlwaysConnected = FALSE
  Events = {"media"}
PROPERTIES
CleanupEnds
TunnelDelivers
ParkedNblsReturn
INVARIANTS NblsReturnedAfterCleanup
