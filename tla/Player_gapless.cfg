SPECIFICATION Spec
CONSTANTS
  MaxStreams = 2
  MaxLen = 3
  StreamCap = 3
  OutSlots = 3
  Threshold = 0
  StartLevel = 1
  Faults = {}
  CodecFails = FALSE
  Idle = FALSE
  Ops = {"f"}
  Starts <- Gapless
  QMax = 2
  MaxCmds = 1
INVARIANT TrackStartAhead
PROPERTIES PlayedInOrder EndsAreReal
