\* A measurement that ends during the next command.
SPECIFICATION Spec
CONSTANTS
  Cap = 3
  Lengths <- Fits
  Nuls <- OneNul
  Waits <- OneWait
  Window = 2
  ReadWait = 2
  Ttt = 2
  Modes <- Polling
  Prompts = {TRUE}
  MaxCmds = 2
  MaxTime = 4
\* The bounds let it stop.
CHECK_DEADLOCK FALSE
PROPERTIES RequestBetweenCommands
