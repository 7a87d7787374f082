\* A thread that is never late: measurements are exact.
SPECIFICATION Spec
CONSTANTS
  CharTime = 1
  IdleTime = 3
  BreakTime = 2
  CmdTime = 1
  Timeouts = {2}
  BufSizes = {3}
  MaxBytes = 2
  MaxLines = 2
  LF = LF
  Other = Other
  Replies <- TwoLines
  LineGap = 2
  Inside = {TRUE, FALSE}
  Jitter = 0
  MaxTime = 10
  MaxCmds = 2
  MaxCalls = 3
INVARIANTS InTimeAnswerHeard LatencyOfOneLine NoFalseIntercharGap InterlineGapExact
PROPERTIES RecvReturns
\* The bounds let it stop.
CHECK_DEADLOCK FALSE
