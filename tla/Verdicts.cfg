\* Two tests in a row, any recorder.
SPECIFICATION Spec
CONSTANTS
  Commands <- AnyRecorder
  Tests <- AllTests
  Tries = 3
  MaxTests = 2
\* The bounds let it stop.
CHECK_DEADLOCK FALSE
INVARIANTS PassShowsSequence SkipMeansUnsent RequestComesBetween FailJustified PassHasAnswer
