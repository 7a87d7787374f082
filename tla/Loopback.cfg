\* Commands, answers, breaks and faults in every order.
SPECIFICATION HalSpec
CONSTANTS
  Size = 4
  Bytes <- BytesMC
  Zero <- Zeroes
  Messages <- MessagesMC
  Asks = {1, 2}
  CmdMax = 5
  Commands <- CommandsMC
  Lengths = {0, 2, 4}
  Faults = {"none", "paced"}
  MaxCmds = 2
  MaxSince = 6
INVARIANTS
  HandledAsSent
  PacedAsLine
PROPERTIES
  RingIsFifo
  FreshAfterBreak
  Delivered
