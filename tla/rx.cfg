SPECIFICATION FairSpec
CONSTANTS
  Pauser = Pauser
  NoIrp = NoIrp
  NoNbl = NoNbl
  Writers = {w1}
  Injectors = {i1}
  Returners = {t1, t2}
  Nbls = {n1, n2}

INVARIANTS InFlightCount PauseWoken WriteCustody
PROPERTIES
  PauseEnds
  WritesComplete
  LoanRefinement
  PauseDrainsUnlessRaced
