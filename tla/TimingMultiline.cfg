\* Replies of two lines, one recv for each.
SPECIFICATION Spec
CONSTANTS
  CharTime = 1
  IdleTime = 3
  BreakTime = 2
  CmdTime = 1
  Timeouts = {2}
  BufSizes = {3}
  MaxBytes = 2
  MaxLines = 2
  LF = LF
  Other = Other
  Replies <- TwoLines
  LineGap = 2
  Inside = {FALSE}
  Jitter = 0
  MaxTime = 8
  MaxCmds = 2
  MaxCalls = 2
INVARIANTS LatencyOfFirstByte
\* The bounds let it stop.
CHECK_DEADLOCK FALSE
