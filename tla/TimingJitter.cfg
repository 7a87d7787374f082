\* A thread that may lag at any step.
SPECIFICATION Spec
CONSTANTS
  CharTime = 1
  IdleTime = 3
  BreakTime = 2
  CmdTime = 1
  Timeouts = {2}
  BufSizes = {3}
  MaxBytes = 2
  MaxLines = 2
  LF = LF
  Other = Other
  Replies <- Short
  LineGap = 2
  Inside = {TRUE, FALSE}
  Jitter = 1
  MaxTime = 7
  MaxCmds = 2
  MaxCalls = 2
INVARIANTS StampsOrdered NothingLost FreshOnLoopback
\* The bounds let it stop.
CHECK_DEADLOCK FALSE
