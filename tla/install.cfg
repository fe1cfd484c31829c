SPECIFICATION Spec
CONSTANTS
  rooted = rooted
  plain = plain
  foreign = foreign
  older = older
  rebuilt = rebuilt
  NoPackage = NoPackage
  Devices = {rooted, plain, foreign}
  Ours = {rooted, plain}
  Packages = {older, rebuilt}
  HardwareId <- MCHardwareId
  Time <- MCTime
  Version <- MCVersion

INVARIANTS TypeOK AdaptersAsBefore UpToDate SkipOnlyIfThere
