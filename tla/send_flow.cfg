SPECIFICATION Spec
CONSTANTS
  c1 = c1
  c2 = c2
  App = App
  Halter = Halter
  NoThread = NoThread
  NoNbl = NoNbl
  Senders = {s1, s2}
  Readers = {r1}
  Nbls = {c1, c2}
  NbCount <- OneNb
  TAP_BUFFER_SIZE = 1
  MediaStateAlwaysConnected = TRUE
  Events = {}
SYMMETRY Symmetry
INVARIANTS
TypeOK
NblCustody
NoLostRead
NoLostRelease
