SPECIFICATION Spec
CONSTANTS
  Callers = {c1, c2, c3}
  Parms = {0, 1, 2, 256}
SYMMETRY Symmetry
INVARIANTS
  AgreesWhenPlain
  AlwaysConnected
