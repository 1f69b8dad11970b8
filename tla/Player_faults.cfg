SPECIFICATION Spec
CONSTANTS
  MaxStreams = 2
  MaxLen = 1
  StreamCap = 1
  OutSlots = 3
  Threshold = 0
  StartLevel = 0
  Faults = {"connect", "send", "header", "headerlong", "reset"}
  CodecFails = TRUE
  Idle = FALSE
  Ops = {"a"}
  Starts <- Every
  QMax = 2
  MaxCmds = 1
PROPERTIES ReasonIsCurrent NeverRepeated
