SPECIFICATION Spec
CONSTANTS
  MaxStreams = 2
  MaxLen = 1
  StreamCap = 1
  OutSlots = 2
  Threshold = 0
  StartLevel = 0
  Faults = {}
  CodecFails = FALSE
  Idle = TRUE
  Ops = {"q", "p", "u"}
  Starts <- Stopped
  QMax = 1
  MaxCmds = 2
INVARIANT Quiesced
PROPERTIES FlushedStaysFlushed QuietIsSilent
