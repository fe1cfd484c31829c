SPECIFICATION FairSpec
CONSTANTS
  NoAdapter = NoAdapter
  NoFile = NoFile
  NdisRef = NdisRef
  ListRef = ListRef
  Adapters = {a1}
  TapFiles = {f1, f2}
  DiagFiles = {d1}
  Readers = {r1, r2}
INVARIANTS
  RefCountExact
  ExclusiveOpen
  ListedIsUsable
CHECK_DEADLOCK FALSE
PROPERTIES OwnershipRefinement HandleRefinement HaltedIsFreed
