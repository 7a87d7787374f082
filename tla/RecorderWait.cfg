\* Breaks, commands and windows in every order, and a thread that is never late
\* or late at any step.
SPECIFICATION Spec
CONSTANTS
  Cap = 3
  Lengths <- FitsAndNot
  Nuls <- TwoNuls
  Waits <- OneWait
  Window = 2
  ReadWait = 2
  Ttt = 2
  Modes <- AllModes
  Prompts = {TRUE, FALSE}
  MaxCmds = 2
  MaxTime = 2
INVARIANTS
  HandledWhole
  BreakAttributed
  NothingHeardIsLost
  MarkingMeasured
  InTimeByteHeard
PROPERTIES WaitReturns
\* The bounds let it stop.
CHECK_DEADLOCK FALSE
