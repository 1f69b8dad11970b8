SPECIFICATION Spec
CONSTANTS
  Answers <- Every
  Request <- Asked
  HeaderMax = 9
  Unit = 2
  Pattern <- OggS
  Size = 6
  Threshold = 1
  Faults = {"send", "reset", "connect"}
  MaxStreams = 2
  MaxReads = 2
INVARIANT Verbatim
PROPERTY Ends
CHECK_DEADLOCK FALSE
