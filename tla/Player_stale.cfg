SPECIFICATION Spec
CONSTANTS
  MaxStreams = 3
  MaxLen = 1
  StreamCap = 1
  OutSlots = 3
  Threshold = 0
  StartLevel = 0
  Faults = {}
  CodecFails = FALSE
  Idle = FALSE
  Ops = {"q", "f"}
  Starts <- Direct
  QMax = 1
  MaxCmds = 2
PROPERTY StartedIsPlaying
