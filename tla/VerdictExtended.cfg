\* X commands, answered or not.
SPECIFICATION Spec
CONSTANTS
  Commands <- WithExtended
  Tests <- OnlyExtended
  Tries = 3
  MaxTests = 1
\* The bounds let it stop.
CHECK_DEADLOCK FALSE
INVARIANTS ExtendedAnswered
