SPECIFICATION Spec
CONSTANTS
  Pauser = Pauser
  NoIrp = NoIrp
  NoNbl = NoNbl
  Writers = {w1}
  Injectors = {}
  Returners = {t1}
  Nbls = {n1}

INVARIANT PausedHasNoneOut
