SPECIFICATION FairSpec
CONSTANTS
  MaxStreams = 2
  MaxLen = 1
  StreamCap = 2
  OutSlots = 3
  Threshold = 0
  StartLevel = 0
  Faults = {"connect", "send", "reset"}
  CodecFails = FALSE
  Idle = FALSE
  Ops = {}
  Starts <- Waiting
  QMax = 2
  MaxCmds = 1
PROPERTY StreamEnds
