\* Every test after every other, any library.
SPECIFICATION Spec
CONSTANTS
  Tests <- AllTests
  Defects <- AllDefects
  OddTexts <- OddTextsMC
  BinRoom = 1000
INVARIANTS FaultsCleared SoundPasses DefectCaught MalformedNoticed
