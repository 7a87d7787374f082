\* Commands with and without a break.
SPECIFICATION Spec
CONSTANTS
  Commands <- WithBreaks
  Tests <- OnlyBreaks
  Tries = 3
  MaxTests = 1
\* The bounds let it stop.
CHECK_DEADLOCK FALSE
INVARIANTS BreakBeforeEach
