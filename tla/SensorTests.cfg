\* Every test after every other, any sensor, two losses.
SPECIFICATION Spec
CONSTANTS
  Tests <- AllTests
  Defects <- AllDefects
  Layouts <- UpToTwo
  MaxPages = 2
  Groups = 2
  MaxLost = 2
INVARIANTS CompliantNotFailed DefectFound RestoredUnlessLost FramingRestored MeasurementAwaited
